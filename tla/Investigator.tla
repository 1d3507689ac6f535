----------------------------- MODULE Investigator ----------------------------
(***************************************************************************)
(* The investigator (src/asas/agents/investigator.py): a model, or the     *)
(* deterministic playbook, proposes hypotheses on one episode, gathers     *)
(* evidence, has it evaluated, and concludes or abstains. The model        *)
(* chooses the steps; what holds is decided by the verifier.               *)
(***************************************************************************)
EXTENDS Tools

VARIABLES
    hypotheses,     \* type -> the last evaluation; PROPOSED before the first
    proposals,      \* links proposed in this run, latest last, as verified
    conclusion, abstained,
    streak,         \* steps in a row that were rejected or changed nothing
    recovering      \* the playbook finishes the run

InvestigatorVars == <<hypotheses, proposals, conclusion, abstained, streak, recovering>>

InvestigatorTools ==
    (EpisodeTools \cup TradeTools \cup {"compare_trades", "get_rule"})

episode == task.episode

\* _subject: the episode has been looked at; links verified before and here.
HasSubject == <<"get_episode", episode>> \in Bag
Proposed == {proposals[i] : i \in DOMAIN proposals}
Verified == VerifiedLinks(snap) \cup {<<p.a, p.b>> : p \in {q \in Proposed : q.status = "VERIFIED"}}

Evaluated == {h \in DOMAIN hypotheses : hypotheses[h].status # "PROPOSED"}
Evaluations == [h \in Evaluated |-> hypotheses[h]]
Pending == Applicable(snap, episode) \ Evaluated
Favoured == Adjudicate(Evaluations).conclusion

InvestigatorDone == conclusion # None \/ abstained

-----------------------------------------------------------------------------
(* The steps. *)

\* A run whose steps are rejected, or change nothing, too often in a row is
\* left to the playbook for good.
Count(stalled) ==
    /\ streak' = IF stalled THEN Min({streak + 1, Cfg.max_consecutive_rejections}) ELSE 0
    /\ recovering' = (recovering \/ streak' >= Cfg.max_consecutive_rejections)

\* Evidence and new proposals make earlier evaluations old.
Aged == [h \in DOMAIN hypotheses |-> [hypotheses[h] EXCEPT !.fresh = FALSE]]

New == [status |-> "PROPOSED", missing |-> {}, signals |-> {}, needed |-> {}, fresh |-> FALSE]

ProposeHypotheses(types) ==
    LET added == (types \cap CatalogTypes) \ DOMAIN hypotheses
    IN  /\ hypotheses' = [h \in DOMAIN hypotheses \cup added |->
                             IF h \in added THEN New ELSE hypotheses[h]]
        /\ Count(types \ CatalogTypes # {} \/ added = {})
        /\ UNCHANGED <<evidence, proposals, conclusion, abstained>>

CallTool(r) ==
    LET gained == Answers(r) /\ r \notin evidence
    IN  /\ evidence' = IF gained THEN evidence \cup {r} ELSE evidence
        /\ hypotheses' = IF gained THEN Aged ELSE hypotheses
        /\ Count(~gained)
        /\ UNCHANGED <<proposals, conclusion, abstained>>

EvaluateHypothesis(h) ==
    LET evaluated(result) ==
            [status |-> result.status, missing |-> result.missing, signals |-> result.signals,
             needed |-> Needed(h, snap, episode, Verified), fresh |-> TRUE]
        same(old, now) == old.fresh /\ old.status = now.status /\ old.missing = now.missing
    IN  /\ IF h \in DOMAIN hypotheses /\ HasSubject
           THEN /\ hypotheses' = [hypotheses EXCEPT ![h] =
                                     evaluated(Evaluate(h, snap, episode, Verified, Bag))]
                /\ Count(same(hypotheses[h], hypotheses'[h]))
           ELSE UNCHANGED hypotheses /\ Count(TRUE)
        /\ UNCHANGED <<evidence, proposals, conclusion, abstained>>

\* A like-for-like, prompt rebooking of a cancelled trade.
LikeForLike(cmp) ==
    LET within(x, bound) == x # None /\ x <= bound
    IN  /\ cmp.a_cancelled /\ cmp.same_instrument /\ cmp.same_book /\ cmp.same_side
        /\ within(cmp.qty_diff, Cfg.rebook_qty_tolerance_pct)
        /\ within(cmp.price_diff, Cfg.rebook_price_tolerance_pct)
        /\ within(cmp.after_cancel, Cfg.rebook_max_hours) /\ cmp.after_cancel >= 0
        /\ ~cmp.b_has_original
LinkVerified(a, b) == LikeForLike(CompareTrades(snap, a, b))

\* Proposing a link again moves it to the end.
ProposeLink(a, b) ==
    LET compared == <<"compare_trades", a, b>> \in Bag
        at == {i \in DOMAIN proposals : <<proposals[i].a, proposals[i].b>> = <<a, b>>}
        others == IF at = {} THEN proposals
                  ELSE SubSeq(proposals, 1, Max(at) - 1) \o SubSeq(proposals, Max(at) + 1, Len(proposals))
        status == IF LinkVerified(a, b) THEN "VERIFIED" ELSE "REJECTED"
    IN  /\ proposals' = IF compared THEN Append(others, [a |-> a, b |-> b, status |-> status])
                        ELSE proposals
        /\ hypotheses' = IF Len(proposals') > Len(proposals) THEN Aged ELSE hypotheses
        /\ Count(proposals' = proposals)
        /\ UNCHANGED <<evidence, conclusion, abstained>>

\* Mutant: hypotheses may be left unevaluated.
ConcludeEarly(h, valid) ==
    LET accepted == h \in DOMAIN hypotheses /\ HasSubject /\ Favoured = h /\ valid
    IN  /\ conclusion' = IF accepted THEN h ELSE conclusion
        /\ Count(~accepted)
        /\ UNCHANGED <<evidence, hypotheses, proposals, abstained>>

\* valid: the summary cites only evidence there is, and no other numbers.
Conclude(h, valid) ==
    LET accepted == /\ h \in DOMAIN hypotheses /\ HasSubject /\ Pending = {}
                    /\ Favoured = h /\ valid
    IN  /\ conclusion' = IF accepted THEN h ELSE conclusion
        /\ Count(~accepted)
        /\ UNCHANGED <<evidence, hypotheses, proposals, abstained>>

\* Before it has looked at the episode a run may give up at once.
Abstain ==
    LET accepted == HasSubject => Pending = {} /\ Favoured = None
    IN  /\ abstained' = (abstained \/ accepted)
        /\ Count(~accepted)
        /\ UNCHANGED <<evidence, hypotheses, proposals, conclusion>>

\* A budget has run out.
InvestigatorExhaust ==
    /\ abstained' = TRUE
    /\ UNCHANGED <<evidence, hypotheses, proposals, conclusion, streak, recovering>>

-----------------------------------------------------------------------------
(* The playbook. *)

Unlinked == {m[2] : m \in {x \in UNION {hypotheses[h].missing : h \in DOMAIN hypotheses} :
                               x[1] = "verified_rebook_link_for"}}
\* Mutant: links proposed in the run are proposed again.
OpenPairsAgain == SelectSeq(UnresolvedPairs(snap, episode), LAMBDA p : p.a \in Unlinked)

OpenPairs == SelectSeq(UnresolvedPairs(snap, episode), LAMBDA p :
                 p.a \in Unlinked /\ \A q \in Proposed : <<q.a, q.b>> # <<p.a, p.b>>)

Step(do, with) == [do |-> do, with |-> with]

\* _link_step: look for candidates that would explain a cancellation.
LinkStep(open) ==
    LET related == <<"get_related_episodes", episode>>
        compared == <<"compare_trades", open[1].a, open[1].b>>
    IN  IF Unlinked = {} THEN None
        ELSE IF related \notin Bag THEN Step("call_tool", related)
        ELSE IF open = << >> THEN None
        ELSE IF compared \notin Bag THEN Step("call_tool", compared)
        ELSE Step("propose_link", <<open[1].a, open[1].b>>)

\* Proposed hypotheses that lack evidence, or an evaluation on what they need now.
Lacking(h) == MissingRequests(h, snap, episode, Verified, Bag)
Outdated(h) == \/ hypotheses[h].status = "PROPOSED"
               \/ hypotheses[h].needed # Needed(h, snap, episode, Verified)
Due(h) == h \in DOMAIN hypotheses /\ (Lacking(h) # << >> \/ Outdated(h))
EvaluationStep(h, lacking) ==
    IF lacking # << >> THEN Step("call_tool", lacking[1]) ELSE Step("evaluate", h)

FirstOf(unproposed, link, todo) ==
    IF ~HasSubject THEN Step("call_tool", <<"get_episode", episode>>)
    ELSE IF unproposed # {} THEN Step("propose_hypotheses", unproposed)
    ELSE IF link # None THEN link
    ELSE IF todo # << >> THEN EvaluationStep(todo[1], Lacking(todo[1]))
    ELSE IF Favoured # None THEN Step("conclude", Favoured)
    ELSE Step("abstain", None)

Playbook == FirstOf(Applicable(snap, episode) \ DOMAIN hypotheses, LinkStep(OpenPairs),
                    SelectSeq(Catalog, Due))

Take(step) ==
    \/ step.do = "call_tool" /\ CallTool(step.with)
    \/ step.do = "propose_hypotheses" /\ ProposeHypotheses(step.with)
    \/ step.do = "propose_link" /\ ProposeLink(step.with[1], step.with[2])
    \/ step.do = "evaluate" /\ EvaluateHypothesis(step.with)
    \/ step.do = "conclude" /\ Conclude(step.with, TRUE)
    \/ step.do = "abstain" /\ Abstain

InvestigatorPlaybook == \E step \in {Playbook} : Take(step)

\* The trades a model looks at: those of the episode and of its open pairs;
\* no evaluation of the episode reads any other.
Near(trades, pairs) == trades \cup UNION {{pairs[i].a, pairs[i].b} : i \in DOMAIN pairs}
Nearby == Near(snap.episodes[episode].trades, UnresolvedPairs(snap, episode))

\* What it may ask for: anything about the episode, and things it may not.
Requests ==
    {<<tool, episode>> : tool \in EpisodeTools \ {"get_peer_comparison"}}
    \cup {<<tool, t>> : tool \in TradeTools, t \in Nearby}
    \cup {<<"compare_trades", p[1], p[2]>> : p \in {q \in Nearby \X Nearby : q[1] # q[2]}}
    \cup {PeerRequest(episode), <<"simulate_candidate_rule">>}

InvestigatorModel ==
    /\ ~recovering
    /\ \/ \E h \in CatalogTypes \cup {"NO_SUCH_TYPE"} : ProposeHypotheses({h})
       \/ \E r \in Requests : CallTool(r)
       \/ \E h \in CatalogTypes : EvaluateHypothesis(h)
       \/ \E a, b \in Nearby : a # b /\ ProposeLink(a, b)
       \/ \E h \in CatalogTypes, valid \in BOOLEAN : Conclude(h, valid)
       \/ Abstain
    /\ strays' = IF streak' = 0 /\ ~InvestigatorDone' THEN strays + 1 ELSE strays
    /\ strays' <= MaxStrays

InvestigatorInit ==
    /\ hypotheses = << >> /\ proposals = << >> /\ conclusion = None /\ abstained = FALSE
    /\ streak = 0 /\ recovering = FALSE

=============================================================================
