----------------------------- MODULE Challenger ------------------------------
(***************************************************************************)
(* The detection challenger (src/asas/agents/challenger.py) and the        *)
(* detectors it works from (src/asas/engine/challenge.py): findings about  *)
(* the production rules are confirmed only when the evidence has been      *)
(* gathered and a deterministic check agrees.                              *)
(***************************************************************************)
EXTENDS Tools, SequencesExt

VARIABLES
    findings,       \* the candidates under review, in their order, with a status
    finished        \* the program, challenger or discovery, has given up

ChallengerVars == <<findings, finished>>

ChallengerTools ==
    {"get_episode", "get_rule", "get_subrules", "get_rule_parameters", "get_related_alerts",
     "get_event_sequence", "compare_trade_versions", "compare_trades", "replay_rule",
     "search_evidence_graph"}

\* By priority; the last three take turns.
Kinds == <<"BLIND_SPOT", "MISSING_CONTEXT", "ALTERNATIVE_EXPLANATION", "REDUNDANT_DETECTION">>
KindNumber(kind) == CHOOSE i \in DOMAIN Kinds : Kinds[i] = kind

-----------------------------------------------------------------------------
(* Candidate findings of a snapshot s with the conclusions of its episodes. *)

Alerts(s, e) == s.episodes[e].alerts
DetectionRules(s, e) == RuleIds(s, e) \ Cfg.sampling_rules

\* An alert on the rebooking of an exposure that is not new.
OriginalOf(s, e, a) ==
    {l.dst : l \in {x \in s.episodes[e].links : x.src = a.trade /\ x.kind = "REBOOK_OF"}}

BlindSpot(s, conclusions, e) ==
    \/ ClassOf(conclusions[e]) = "ANOMALOUS"
    \/ s.scores[e].band = "HIGH"

Finding(kind, e, item, needs) ==
    [kind |-> kind, episode |-> e, item |-> item, needs |-> needs, status |-> "PENDING"]

Each(tool, items) == SetToSeq({<<tool, x>> : x \in items})

Candidates(s, conclusions) ==
    LET episodes == DOMAIN s.episodes
        rules(e) == Each("get_rule", DetectionRules(s, e))
    IN  {Finding("REDUNDANT_DETECTION", e, e, << <<"get_related_alerts", e>> >>) :
             e \in {x \in episodes : Cardinality(Alerts(s, x)) >= Cfg.redundancy_min_alerts}}
        \cup
        {Finding("ALTERNATIVE_EXPLANATION", e, e, << <<"get_episode", e>> >> \o rules(e)) :
             e \in {x \in episodes : /\ DetectionRules(s, x) # {}
                                     /\ ClassOf(conclusions[x]) = "BENIGN"}}
        \cup
        (UNION {UNION {{Finding("MISSING_CONTEXT", e, a.id, << <<"compare_trades", o, a.trade>> >>) :
                            o \in OriginalOf(s, e, a)} :
                       a \in {x \in Alerts(s, e) : x.rule \in Cfg.exposure_rules}} :
                e \in episodes})
        \cup
        {Finding("BLIND_SPOT", e, e,
                 << <<"get_event_sequence", e>> >>
                 \o Each("compare_trade_versions", s.episodes[e].trades)) :
             e \in {x \in episodes : /\ DetectionRules(s, x) = {}
                                     /\ BlindSpot(s, conclusions, x)}}

\* verify_finding.
Verifies(s, conclusions, gathered, c) ==
    /\ \A i \in DOMAIN c.needs : c.needs[i] \in gathered
    /\ CASE c.kind = "REDUNDANT_DETECTION" ->
                Cardinality(Alerts(s, c.episode)) >= Cfg.redundancy_min_alerts
         [] c.kind = "ALTERNATIVE_EXPLANATION" -> ClassOf(conclusions[c.episode]) = "BENIGN"
         [] c.kind = "MISSING_CONTEXT" ->
                LET cmp == CompareTrades(s, c.needs[1][2], c.needs[1][3])
                IN  /\ cmp.same_instrument /\ cmp.same_side /\ cmp.qty_diff = 0
                    /\ cmp.price_diff # None /\ cmp.price_diff <= Cfg.rebook_price_tolerance_pct
         [] OTHER -> BlindSpot(s, conclusions, c.episode)

-----------------------------------------------------------------------------
(* Platform.challenge: which findings a run reviews. *)

\* Most outlying first, then the highest score.
Stronger(s, c, d) ==
    LET key(x) == <<-s.deviations[x.episode].outlyingness, -s.scores[x.episode].total, x.item>>
    IN  Lower(key(c), key(d))

\* Mutant: blind spots are not limited.
ChosenAllBlind(s, conclusions) ==
    LET recent == {c \in Candidates(s, conclusions) :
                       End(s, c.episode) >= s.asOf - Cfg.review_window}
        blind == {c \in recent : c.kind = "BLIND_SPOT"}
        place(c) == Cardinality({d \in recent : d.kind = c.kind /\ Stronger(s, d, c)})
        turn(c) == <<place(c), KindNumber(c.kind)>>
        earlier(c) == Cardinality({d \in recent \ blind : Lower(turn(d), turn(c))})
    IN  blind \cup {c \in recent \ blind : earlier(c) < Cfg.max_findings_per_run}

\* Blind spots have room of their own; the other kinds take turns for the rest.
Chosen(s, conclusions) ==
    LET recent == {c \in Candidates(s, conclusions) :
                       End(s, c.episode) >= s.asOf - Cfg.review_window}
        blind == {c \in recent : c.kind = "BLIND_SPOT"}
        place(c) == Cardinality({d \in recent : d.kind = c.kind /\ Stronger(s, d, c)})
        turn(c) == <<place(c), KindNumber(c.kind)>>
        earlier(c) == Cardinality({d \in recent \ blind : Lower(turn(d), turn(c))})
    IN  {c \in blind : place(c) < Cfg.max_blind_spots_per_run}
        \cup {c \in recent \ blind : earlier(c) < Cfg.max_findings_per_run}

\* start: by priority; identifiers are hashes, within a kind their order may be any.
Reviewed(s, conclusions) ==
    {order \in SetToSeqs(Chosen(s, conclusions)) :
        \A i \in DOMAIN order, j \in DOMAIN order :
            i < j => KindNumber(order[i].kind) <= KindNumber(order[j].kind)}

-----------------------------------------------------------------------------
(* The run. *)

Undecided(i) == findings[i].status = "PENDING"
ChallengerDone == finished \/ \A i \in DOMAIN findings : ~Undecided(i)

VerifiesNow(i) == Verifies(snap, context.conclusions, Bag, findings[i])

Gather(r) ==
    /\ evidence' = IF Answers(r) THEN evidence \cup {r} ELSE evidence
    /\ UNCHANGED ChallengerVars

Decide(i, accepted, status) ==
    /\ findings' = IF Undecided(i) /\ accepted THEN [findings EXCEPT ![i].status = status] ELSE findings
    /\ UNCHANGED <<evidence, finished>>

\* A confirmation has to verify. A dismissal needs no evidence, and the finding
\* stays in the report.
Confirm(i) == Decide(i, VerifiesNow(i), "CONFIRMED")
Dismiss(i) == Decide(i, TRUE, "AGENT_DISMISSED")

\* The agent is done, or a budget has run out.
Finish == finished' = TRUE /\ UNCHANGED <<evidence, findings>>

\* The first pending finding: gather what it needs, then decide it.
ChallengerPlaybook ==
    LET pending == {i \in DOMAIN findings : Undecided(i)}
        i == Min(pending)
        missing == {k \in DOMAIN findings[i].needs : findings[i].needs[k] \notin Bag}
    IN  IF pending = {} THEN Finish
        ELSE IF missing # {} THEN Gather(findings[i].needs[Min(missing)])
        ELSE Decide(i, TRUE, IF VerifiesNow(i) THEN "CONFIRMED" ELSE "AGENT_DISMISSED")

\* What a model may do instead, a bounded number of times.
ChallengerModel ==
    /\ strays < MaxStrays /\ strays' = strays + 1
    /\ \/ \E i \in DOMAIN findings :
              \/ \E k \in DOMAIN findings[i].needs : Gather(findings[i].needs[k])
              \/ Confirm(i)
              \/ Dismiss(i)
       \/ Gather(<<"simulate_candidate_rule">>)
       \/ Finish

ChallengerInit(reviewed) == findings \in reviewed /\ finished = FALSE

=============================================================================
