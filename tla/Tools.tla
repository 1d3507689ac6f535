-------------------------------- MODULE Tools --------------------------------
(***************************************************************************)
(* The tools of the agents (src/asas/agents/tools.py), and what a run has  *)
(* before it: the snapshot, the principal it acts for and the              *)
(* deterministic assessment of every episode (Platform.assessments).       *)
(* A request is the tuple of a tool and its arguments.                     *)
(***************************************************************************)
EXTENDS Hypotheses

CONSTANTS
    Worlds,         \* the data a run may find: a function to unbuilt snapshots
    MaxStrays       \* bound: steps by which the model leaves the playbook and
                    \* gets on; steps that change nothing are not bounded

VARIABLES
    task,           \* [program, world, episode, principal, allowed], fixed
    context,        \* what the run reads, fixed: the snapshot, the conclusions of
                    \* its episodes and the points of its history
    evidence,       \* the requests answered so far
    strays          \* steps of the model counted by MaxStrays

Conclusions(s) == [e \in DOMAIN s.episodes |-> Adjudicate(Assess(s, e)).conclusion]

snap == context.snapshot

-----------------------------------------------------------------------------
(* Who may see what. *)

SeesDesk(desk) == "*" \in task.principal.desks \/ desk \in task.principal.desks

CheckEpisode(s, e) == e \in DOMAIN s.episodes /\ \E d \in s.episodes[e].desks : SeesDesk(d)
CheckTrade(s, t) == t \in DOMAIN s.trades /\ SeesDesk(s.trades[t][1].desk)

KnownRule(s, rule) == \/ \E r \in s.rules : r.id = rule
                      \/ \E e \in DOMAIN s.episodes : rule \in RuleIds(s, e)

EpisodeTools ==
    {"get_episode", "get_event_sequence", "get_related_alerts", "get_related_episodes",
     "get_trader_baseline", "get_deviation_profile", "get_recurrence", "get_prior_outcomes",
     "get_peer_comparison", "find_similar_cases"}
TradeTools == {"get_trade_history", "compare_trade_versions"}

\* A lead is shown to the model, and is no evidence.
LeadOnly == {"find_similar_cases"}

\* Person data needs an entitlement of its own.
TraderKnown(s, e) == task.principal.person_data /\ s.episodes[e].trades \cap s.persons # {}

\* ToolExecutor.call: an error is an answer too, but not this one.
AnswersOn(s, r) ==
    /\ r[1] \in task.allowed
    /\ r[1] \in EpisodeTools => CheckEpisode(s, r[2])
    /\ r[1] = "get_trader_baseline" => TraderKnown(s, r[2])
    /\ r[1] \in TradeTools => CheckTrade(s, r[2])
    /\ r[1] = "compare_trades" => CheckTrade(s, r[2]) /\ CheckTrade(s, r[3])
    /\ r[1] = "get_rule" => KnownRule(s, r[2])
Answers(r) == AnswersOn(snap, r)

\* What the evaluators see.
Bag == {r \in evidence : r[1] \notin LeadOnly}

=============================================================================
