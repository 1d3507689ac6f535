------------------------------ MODULE Discovery ------------------------------
(***************************************************************************)
(* Pattern mining and rule synthesis (src/asas/engine/discovery.py) over   *)
(* the history of Platform.discover, and the discovery agent               *)
(* (src/asas/agents/discovery.py) that turns patterns into candidates.     *)
(***************************************************************************)
EXTENDS Tools, SequencesExt

VARIABLES
    mined,          \* the patterns of the run, in the order of their hashes
    examined,       \* for each: status, whether simulated, the candidate
    given_up        \* finished by the agent or out of budget

DiscoveryVars == <<mined, examined, given_up>>

DiscoveryTools ==
    {"simulate_candidate_rule", "replay_rule", "find_similar_cases", "search_evidence_graph",
     "get_rule", "get_episode"}

-----------------------------------------------------------------------------
(* The history: episodes evaluated in the replay window, before the shadow. *)

HistoryOf(s, conclusions) ==
    LET stop == s.asOf - Cfg.shadow_window
        window == {e \in DOMAIN s.episodes :
                       EvalTime(s, e) >= stop - Cfg.replay_window /\ EvalTime(s, e) < stop}
    IN  {[episode |-> e, desk |-> s.episodes[e].desk, label |-> CuratedLabel(s, e),
          signals |-> s.signals[e], class |-> ClassOf(conclusions[e]), type |-> conclusions[e]] :
             e \in window}

AllowedInBulk(s, type, desk) == \E x \in s.bulk : x.type = type /\ x.desk \in {"*", desk}

-----------------------------------------------------------------------------
(* mine_patterns. *)

Rate(part, whole, percent) == 100 * part >= percent * whole

Usable(p) == EpisodeItems(p.signals) \ Cfg.ignored_items
Itemsets(points) ==
    UNION {UNION {kSubset(k, Usable(p)) : k \in 1..Min({Cfg.max_itemset, Cardinality(Usable(p))})} :
           p \in points}

\* A pattern: the points that share its items, and what is known of them.
PatternOf(s, points, items) ==
    LET group == {p \in points : items \subseteq Usable(p)}
    IN  [items |-> items, members |-> {p.episode : p \in group}, support |-> Cardinality(group),
         escalated |-> Cardinality(Escalated(group)), cleared |-> Cardinality(Cleared(group)),
         detected |-> Cardinality({p \in group : Detected(s.rules, p.signals)}),
         desks |-> {p.desk : p \in group}, kind |-> None, type |-> None, evidence |-> 0, rule |-> None]

\* Risk that production rules do not catch.
Risk(points, p) ==
    LET risky == {x \in points : /\ x.episode \in p.members
                                 /\ x.label = "ESCALATED" \/ x.class = "ANOMALOUS"}
    IN  [p EXCEPT !.kind = "UNCAPTURED_RISK", !.evidence = Cardinality(risky)]

IsRisk(p) ==
    /\ Rate(p.evidence, p.support, Cfg.min_risk_rate)
    /\ 100 * p.detected <= Cfg.max_rule_coverage * p.support
    /\ p.escalated >= Cfg.min_escalated_labels

\* The most common benign conclusion; of equals, any.
Benignity(points, p) ==
    LET explained(t) == {x \in points : /\ x.episode \in p.members
                                        /\ x.class = "BENIGN" /\ x.type = t}
        top == CHOOSE t \in Benign : \A u \in Benign :
                   Cardinality(explained(u)) <= Cardinality(explained(t))
    IN  [p EXCEPT !.kind = "RECURRING_BENIGN", !.type = top,
                  !.evidence = Cardinality(explained(top))]

IsBenign(s, p) ==
    /\ p.evidence > 0 /\ Cardinality(p.desks) = 1
    /\ \A desk \in p.desks : ~AllowedInBulk(s, p.type, desk)
    /\ p.escalated = 0 /\ p.cleared >= Cfg.min_curated_cleared
    /\ Rate(p.evidence, p.support, Cfg.min_benign_rate)

\* closed: the most specific itemset of each group, then the strongest few.
MostSpecific(found) ==
    {CHOOSE p \in found :
        /\ p.members = m
        /\ \A q \in found : q.members = m => Cardinality(q.items) <= Cardinality(p.items) :
        m \in {p.members : p \in found}}

PatternStrength(p) == <<(10000 * p.evidence) \div p.support,
                        IF p.kind = "UNCAPTURED_RISK" THEN p.escalated ELSE p.evidence,
                        p.support, Cardinality(p.items)>>

StrongestFew(best) ==
    CHOOSE top \in kSubset(Min({Cfg.max_patterns_per_kind, Cardinality(best)}), best) :
        \A p \in top, q \in best \ top : ~Lower(PatternStrength(p), PatternStrength(q))

Closed(found) == StrongestFew(MostSpecific(found))

MinedFrom(s, points) ==
    LET frequent == {p \in {PatternOf(s, points, i) : i \in Itemsets(points)} :
                         p.support >= Cfg.min_support}
    IN  Closed({p \in {Risk(points, x) : x \in frequent} : IsRisk(p)})
        \cup Closed({p \in {Benignity(points, x) : x \in frequent} : IsBenign(s, p)})

-----------------------------------------------------------------------------
(* synthesize_rule: the pattern as a rule, less the conditions it can spare. *)

\* Written into the condition, as every synthesized value is.
Condition(signal, op, is) ==
    [signal |-> signal, op |-> op, value |-> [is |-> is, spelt |-> "plainly"], param |-> None]

ItemConditions(item) ==
    LET name == item[2][1]
        edges == InOrder(Cfg.bands[name], <)
        k == item[2][2]
    IN  CASE item[1] = "sig" -> <<Condition("sequence_signature", "eq", item[2])>>
          [] item[1] = "desk" -> <<Condition("desk", "eq", item[2])>>
          [] item[1] = "flag" -> <<Condition(item[2], "eq", TRUE)>>
          [] OTHER -> (IF k > 0 THEN <<Condition(name, "ge", edges[k])>> ELSE << >>)
                      \o (IF k < Len(edges) THEN <<Condition(name, "lt", edges[k + 1])>> ELSE << >>)

Synthesized(s, points, pattern) ==
    LET all == FlattenSeq([i \in 1..Cardinality(pattern.items) |->
                               ItemConditions(SetToSeq(pattern.items)[i])])
        make(conds) == [id |-> None, severity |-> Cfg.candidate_severity, conditions |-> conds,
                        parameters |-> << >>]
        fired(conds) == {p \in points : Fires(make(conds), p.signals)}
        fires(conds) == Cardinality(fired(conds))
        overlap(conds) == Cardinality({p \in fired(conds) : Detected(s.rules, p.signals)})
        spare(best, c) ==
            LET trial == SelectSeq(best, LAMBDA d : d # c)
            IN  /\ trial # << >>
                /\ Precision(fired(trial)) # None /\ Precision(fired(best)) # None
                /\ Precision(fired(trial)) >= Precision(fired(best))
                /\ 100 * fires(trial) <= Max({fires(best), 1}) * Cfg.max_volume_growth
                /\ 100 * overlap(trial) <= Cfg.max_rule_coverage * fires(trial)
        without(best, c) == IF spare(best, c) THEN SelectSeq(best, LAMBDA d : d # c) ELSE best
    IN  make(FoldLeft(without, all, all))

\* The patterns of the run; a risk pattern with the rule synthesized from it.
Patterns(s, points) ==
    {IF p.kind = "UNCAPTURED_RISK" THEN [p EXCEPT !.rule = Synthesized(s, points, p)] ELSE p :
        p \in MinedFrom(s, points)}

-----------------------------------------------------------------------------
(* What becomes of a proposal. *)

\* Platform.simulate.
Simulation(rule) == Metrics(context.points, {rule})

\* The text of a rule: its conditions as they are written, in any order, and its
\* parameters, used or not. The same logic in another spelling is another text.
Signature(rule) ==
    LET asWritten(x) == {i \in DOMAIN rule.conditions : rule.conditions[i] = x}
    IN  <<[x \in Range(rule.conditions) |-> Cardinality(asWritten(x))], rule.parameters>>

ProposedRules == {examined[i].candidate.rule : i \in {k \in DOMAIN examined :
                      examined[k].candidate # None /\ examined[k].candidate.kind = "RULE"}}
Known == {Signature(r) : r \in snap.rules \cup ProposedRules}

\* Signals of the sample as they are now, not as history saw them.
CoversPattern(rule, pattern) ==
    LET order == InOrder(pattern.members, <)
        sample == {order[i] : i \in 1..Min({Len(order), Cfg.pattern_sample})}
        hit == {e \in sample : Fires(rule, snap.signals[e])}
    IN  Rate(Cardinality(hit), Cardinality(sample), Cfg.max_redundant_coverage)

Sound(sim) == /\ sim.precision # None /\ sim.precision >= Cfg.min_candidate_precision
              /\ sim.tp >= 1
AboveFloor(rule) == Sound(Simulation(rule))

Skipped(i) == [examined[i] EXCEPT !.status = "SKIPPED"]
ProposedAs(i, candidate) == [examined[i] EXCEPT !.status = "PROPOSED", !.candidate = candidate]

\* Mutant: coverage by an earlier proposal is not looked at.
RuleOutcomeUncovered(i, rule) ==
    IF Signature(rule) \in Known THEN Skipped(i)
    ELSE IF ValidRule(rule) /\ AboveFloor(rule) THEN ProposedAs(i, [kind |-> "RULE", rule |-> rule])
    ELSE examined[i]

\* A risk pattern closes as skipped when it is covered or its rule is known, as
\* proposed when the rule is sound; otherwise it stays pending.
RuleOutcome(i, rule) ==
    IF (\E r \in ProposedRules : CoversPattern(r, mined[i])) \/ Signature(rule) \in Known
    THEN Skipped(i)
    ELSE IF ValidRule(rule) /\ AboveFloor(rule) THEN ProposedAs(i, [kind |-> "RULE", rule |-> rule])
    ELSE examined[i]

BulkOutcome(i) ==
    ProposedAs(i, [kind |-> "BULK", type |-> mined[i].type,
                   desk |-> CHOOSE d \in mined[i].desks : TRUE])

-----------------------------------------------------------------------------
(* The run. *)

Open(i) == examined[i].status = "PENDING"
DiscoveryDone == given_up \/ \A i \in DOMAIN examined : ~Open(i)

\* A benign pattern takes no rule; without a rule, the synthesized one is meant.
Propose(i, rule) ==
    LET benign == mined[i].kind = "RECURRING_BENIGN"
        outcome == IF ~Open(i) THEN examined[i]
                   ELSE IF benign THEN IF rule = None THEN BulkOutcome(i) ELSE examined[i]
                   ELSE RuleOutcome(i, IF rule = None THEN mined[i].rule ELSE rule)
    IN  /\ examined' = [examined EXCEPT ![i] = outcome]
        /\ UNCHANGED <<mined, given_up>>

\* simulate_candidate_rule of the rule synthesized for a pattern.
Simulate(i) ==
    /\ examined' = IF mined[i].kind = "UNCAPTURED_RISK"
                   THEN [examined EXCEPT ![i].simulated = TRUE] ELSE examined
    /\ UNCHANGED <<mined, given_up>>

SkipPattern(i) ==
    /\ examined' = IF Open(i) THEN [examined EXCEPT ![i] = Skipped(i)] ELSE examined
    /\ UNCHANGED <<mined, given_up>>

GiveUp == given_up' = TRUE /\ UNCHANGED <<mined, examined>>

FirstOpen == Min({i \in DOMAIN examined : Open(i)})

DiscoveryPlaybook ==
    LET i == FirstOpen
    IN  IF \A k \in DOMAIN examined : ~Open(k) THEN GiveUp
        ELSE IF mined[i].kind = "RECURRING_BENIGN" \/ examined[i].simulated THEN Propose(i, None)
        ELSE Simulate(i)

\* Rules a model may come up with: those it has seen, and variations, of which
\* the first two say the same in another way and the last three are not valid.
ModelRules ==
    LET seen == snap.rules \cup ({mined[i].rule : i \in DOMAIN mined} \ {None})
        literal(r, c) == IF c.param = None THEN c
                         ELSE [c EXCEPT !.value = r.parameters[c.param], !.param = None]
        inlined(r) == [r EXCEPT !.parameters = << >>,
                           !.conditions = [i \in DOMAIN r.conditions |-> literal(r, r.conditions[i])]]
        respelt(r) == [inlined(r) EXCEPT !.conditions[1].value.spelt = "otherwise"]
        shortened(r) == [r EXCEPT !.conditions = <<r.conditions[1]>>]
        overlong(r) == [r EXCEPT !.conditions =
                           [i \in 1..(Cfg.max_conditions + 1) |-> r.conditions[1]]]
        unscored(r) == [r EXCEPT !.severity = "UNKNOWN"]
        dangling(r) == [r EXCEPT !.conditions[1].param = "undefined", !.conditions[1].value = None]
    IN  UNION {{r, inlined(r), respelt(r), shortened(r), overlong(r), unscored(r), dangling(r)} : r \in seen}

DiscoveryModel ==
    /\ strays < MaxStrays /\ strays' = strays + 1
    /\ \/ \E i \in DOMAIN examined :
              \/ \E rule \in ModelRules \cup {None} : Propose(i, rule)
              \/ Simulate(i)
              \/ SkipPattern(i)
       \/ GiveUp

\* The playbook proposes a rule below the floor again and again.
Stuck ==
    /\ ~DiscoveryDone
    /\ mined[FirstOpen].kind = "UNCAPTURED_RISK"
    /\ RuleOutcome(FirstOpen, mined[FirstOpen].rule) = examined[FirstOpen]

\* In the order of hashes: any order.
DiscoveryInit(patterns) ==
    /\ mined \in SetToSeqs(patterns)
    /\ examined = [i \in DOMAIN mined |-> [status |-> "PENDING", simulated |-> FALSE, candidate |-> None]]
    /\ given_up = FALSE

=============================================================================
