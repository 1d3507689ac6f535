------------------------------- MODULE Programs ------------------------------
(***************************************************************************)
(* One run of one of the three agent programs on real data: what the agent *)
(* runtime (AgentRuntime, where a program is a list of steps) drives. In   *)
(* every state the next step is the playbook's, or any step a model may    *)
(* choose; the checks of the program decide what it changes.               *)
(***************************************************************************)
EXTENDS Investigator, Challenger, Discovery

CONSTANT Tasks      \* the runs: [program, world, episode, principal, allowed]

IsVersion(v) == {v.price, v.qty} \subseteq Int \cup {None} /\ v.at \in Int

\* A trade has versions, an episode has trades; links and proposals are between trades,
\* and a trade names one original at most (engine/linking.py:155). An alert is in one
\* episode.
IsData(d) ==
    /\ {"trades", "episodes", "proposals", "rules", "bulk", "historical", "scores"} \subseteq DOMAIN d
    /\ DOMAIN d.trades \subseteq Int
    /\ DOMAIN d.episodes \subseteq Int /\ IsFiniteSet(DOMAIN d.episodes)
    /\ \A t \in DOMAIN d.trades :
         /\ d.trades[t] \in Seq(Range(d.trades[t])) \ {<< >>}
         /\ \A i \in DOMAIN d.trades[t] : IsVersion(d.trades[t][i])
    /\ \A e \in DOMAIN d.episodes :
         /\ IsFiniteSet(d.episodes[e].trades) /\ d.episodes[e].trades # {}
         /\ d.episodes[e].trades \subseteq DOMAIN d.trades
         /\ IsFiniteSet(d.episodes[e].links)
         /\ \A l \in d.episodes[e].links : {l.src, l.dst} \subseteq Int
         /\ \A l, m \in {x \in d.episodes[e].links : x.kind = "REBOOK_OF"} :
                l.src = m.src => l.dst = m.dst
         /\ IsFiniteSet(d.episodes[e].alerts) /\ \A a \in d.episodes[e].alerts : a.id \in Int
    /\ \A e, f \in DOMAIN d.episodes : \A a \in d.episodes[e].alerts, b \in d.episodes[f].alerts :
           a.id = b.id => e = f /\ a = b
    /\ IsFiniteSet(d.proposals) /\ \A p \in d.proposals : {p.a, p.b} \subseteq Int

ASSUME ProgramsAssumption ==
    /\ None \notin Int /\ None \notin CatalogTypes
    /\ {Cfg.max_patterns_per_kind, Cfg.max_blind_spots_per_run, Cfg.max_findings_per_run,
        Cfg.max_consecutive_rejections} \subseteq Nat
    /\ IsFiniteSet(DOMAIN Cfg.bands)
    /\ {Cfg.rebook_qty_tolerance_pct, Cfg.rebook_price_tolerance_pct, Cfg.rebook_max_hours} \subseteq Int
    /\ \A t \in Tasks : t.world \in DOMAIN Worlds
    /\ \A w \in DOMAIN Worlds : IsData(Worlds[w])

vars == <<task, context, evidence, strays, InvestigatorVars, ChallengerVars, DiscoveryVars>>

Running(program) == task.program = program

-----------------------------------------------------------------------------
(* Steps. *)

InvestigateOnPlaybook ==
    /\ Running("investigator") /\ ~InvestigatorDone
    /\ InvestigatorPlaybook
    /\ UNCHANGED <<task, context, strays, ChallengerVars, DiscoveryVars>>

InvestigateOnModel ==
    /\ Running("investigator") /\ ~InvestigatorDone
    /\ InvestigatorModel
    /\ UNCHANGED <<task, context, ChallengerVars, DiscoveryVars>>

\* A budget has run out.
StopInvestigating ==
    /\ Running("investigator") /\ ~InvestigatorDone
    /\ InvestigatorExhaust
    /\ UNCHANGED <<task, context, strays, ChallengerVars, DiscoveryVars>>

ChallengeOnPlaybook ==
    /\ Running("challenger") /\ ~ChallengerDone
    /\ ChallengerPlaybook
    /\ UNCHANGED <<task, context, strays, InvestigatorVars, DiscoveryVars>>

ChallengeOnModel ==
    /\ Running("challenger") /\ ~ChallengerDone
    /\ ChallengerModel
    /\ UNCHANGED <<task, context, InvestigatorVars, DiscoveryVars>>

DiscoverOnPlaybook ==
    /\ Running("discovery") /\ ~DiscoveryDone
    /\ DiscoveryPlaybook
    /\ UNCHANGED <<task, context, evidence, strays, InvestigatorVars, ChallengerVars>>

DiscoverOnModel ==
    /\ Running("discovery") /\ ~DiscoveryDone
    /\ DiscoveryModel
    /\ UNCHANGED <<task, context, evidence, InvestigatorVars, ChallengerVars>>

Done ==
    CASE Running("investigator") -> InvestigatorDone
      [] Running("challenger") -> ChallengerDone
      [] OTHER -> DiscoveryDone

\* Platform.discover reads history as it was known then, the others the present.
ContextOf(current, history) ==
    [snapshot |-> current, conclusions |-> Conclusions(current),
     points |-> HistoryOf(history, Conclusions(history))]

Contexts == [w \in DOMAIN Worlds |->
                ContextOf(BuildSnapshot([Worlds[w] EXCEPT !.historical = FALSE]),
                          BuildSnapshot([Worlds[w] EXCEPT !.historical = TRUE]))]

\* Whatever the data, what Deviation and Scoring compute of an episode is a number.
ASSUME StatisticsAssumption ==
    \A w \in DOMAIN Worlds :
        LET s == Contexts[w].snapshot
        IN  \A e \in DOMAIN s.episodes :
                s.deviations[e].outlyingness \in Int /\ s.scores[e].total \in Int

Init ==
    /\ task \in Tasks
    /\ context = Contexts[task.world]
    /\ evidence = {} /\ strays = 0
    /\ InvestigatorInit
    /\ ChallengerInit(IF Running("challenger") THEN Reviewed(snap, context.conclusions) ELSE {<< >>})
    /\ DiscoveryInit(IF Running("discovery") THEN Patterns(snap, context.points) ELSE {})

Next ==
    \/ InvestigateOnPlaybook \/ InvestigateOnModel \/ StopInvestigating
    \/ ChallengeOnPlaybook \/ ChallengeOnModel
    \/ DiscoverOnPlaybook \/ DiscoverOnModel

\* A run goes on: a model that gets nowhere is left for the playbook (an
\* investigation) or uses up the model calls (the other programs), so there are
\* finitely many steps of a model between two of the playbook.
Spec == Init /\ [][Next]_vars
        /\ WF_vars(InvestigateOnPlaybook) /\ WF_vars(ChallengeOnPlaybook)
        /\ WF_vars(DiscoverOnPlaybook)

-----------------------------------------------------------------------------
(* Properties. *)

Statuses == {"PROPOSED", "SUPPORTED", "CONTRADICTED", "INSUFFICIENT"}

\* Hypotheses are of the catalog, a run reviews no more findings and works on no
\* more patterns than it may (agents/*.py, services/platform.py:664).
TypeOK ==
    /\ DOMAIN hypotheses \subseteq CatalogTypes
    /\ \A h \in DOMAIN hypotheses : hypotheses[h].status \in Statuses
    /\ conclusion \in CatalogTypes \cup {None} /\ abstained \in BOOLEAN
    /\ streak \in 0..Cfg.max_consecutive_rejections /\ recovering \in BOOLEAN
    /\ LET blind == {i \in DOMAIN findings : findings[i].kind = "BLIND_SPOT"}
       IN  /\ Cardinality(blind) <= Cfg.max_blind_spots_per_run
           /\ Cardinality(DOMAIN findings \ blind) <= Cfg.max_findings_per_run
    /\ \A i \in DOMAIN findings : findings[i].status \in {"PENDING", "CONFIRMED", "AGENT_DISMISSED"}
    /\ Len(mined) <= 2 * Cfg.max_patterns_per_kind
    /\ \A i \in DOMAIN mined : examined[i].status \in {"PENDING", "SKIPPED", "PROPOSED"}

\* Whatever steps the model chose, in whatever order, and whatever it looked at:
\* an episode is concluded benign or anomalous only if the deterministic
\* assessment of all the evidence, with the links verified by then, says so
\* (agents/investigator.py _conclude). The evaluations it rests on may be old.
ConclusionHolds ==
    conclusion # None =>
        Class(conclusion) = ClassOf(Adjudicate(Results(snap, episode, Verified)).conclusion)

\* What reaches the report of a challenge: a confirmed finding was checked on
\* evidence the principal may see, and the playbook alone drops no finding that
\* would have been confirmed (agents/challenger.py apply).
ChallengeHolds ==
    \A i \in DOMAIN findings :
        /\ findings[i].status = "CONFIRMED" =>
               /\ VerifiesNow(i)
               /\ \A k \in DOMAIN findings[i].needs : Answers(findings[i].needs[k])
        /\ findings[i].status = "AGENT_DISMISSED" /\ strays = 0 =>
               LET all == {findings[i].needs[k] : k \in DOMAIN findings[i].needs}
               IN  ~Verifies(snap, context.conclusions, all, findings[i])

\* What discovery proposes: rules that are sound on history, written like no rule
\* of production and no other proposal (_signature; a rule of production in
\* another spelling passes) and not covered by each other, and bulk scopes not
\* open yet (agents/discovery.py _propose).
ProposalsHold ==
    \A i \in DOMAIN examined : examined[i].candidate # None =>
        IF examined[i].candidate.kind = "BULK"
        THEN ~AllowedInBulk(snap, examined[i].candidate.type, examined[i].candidate.desk)
        ELSE LET rule == examined[i].candidate.rule
             IN  /\ ValidRule(rule) /\ AboveFloor(rule)
                 /\ \A r \in snap.rules : Signature(r) # Signature(rule)
                 /\ \A j \in DOMAIN examined \ {i} :
                        /\ examined[j].candidate # None /\ examined[j].candidate.kind = "RULE"
                        => LET other == examined[j].candidate.rule
                           IN  /\ Signature(other) # Signature(rule)
                               /\ ~(CoversPattern(rule, mined[j]) /\ CoversPattern(other, mined[i]))

ReportHolds == ChallengeHolds /\ ProposalsHold

\* A run for a principal who may see the desks involved comes to an end of its
\* own, without its budgets: only a discovery may get stuck, on a pattern whose
\* rule stays below the floor.
EveryRunEnds == "*" \in task.principal.desks => <>(Done \/ (Running("discovery") /\ Stuck))

=============================================================================
