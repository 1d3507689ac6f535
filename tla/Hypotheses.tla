------------------------------ MODULE Hypotheses -----------------------------
(***************************************************************************)
(* The hypothesis catalog, its evaluators and the adjudication             *)
(* (src/asas/engine/hypotheses.py). A subject is the episode e of the      *)
(* snapshot s with the rebook links verified so far; the evidence is the   *)
(* set of requests answered, since what they show is in the snapshot.      *)
(***************************************************************************)
EXTENDS Evidence

\* In order of precedence.
Catalog ==
    <<"PERIOD_END_ROUND_TRIP", "OFF_MARKET_AMENDMENT", "REBOOK_ECONOMICS_CHANGED",
      "VERIFIED_PEER_DEVIATION", "CANCEL_REBOOK_CORRECTION", "PRICE_CORRECTION",
      "LATE_BOOKING_OPERATIONAL", "ROUTINE_EXECUTION", "RECURRING_BENIGN_CONTEXT">>

CatalogTypes == {Catalog[i] : i \in DOMAIN Catalog}
Typed == {Catalog[i] : i \in 1..3}
ResidualType == "VERIFIED_PEER_DEVIATION"
Benign == {Catalog[i] : i \in 5..8}
Context == "RECURRING_BENIGN_CONTEXT"

Class(h) == IF h \in Typed \cup {ResidualType} THEN "ANOMALOUS"
            ELSE IF h \in Benign THEN "BENIGN" ELSE "CONTEXT"

\* The fields of the contract an evaluator relies on.
HypothesisFields ==
    [h \in CatalogTypes |->
        CASE h \in Typed -> {"PRICE"}
          [] h \in {"CANCEL_REBOOK_CORRECTION", "PRICE_CORRECTION"} -> {"PRICE", "QUANTITY", "SIDE"}
          [] h = "ROUTINE_EXECUTION" -> {"NOTIONAL_USD"}
          [] OTHER -> {}]

Applicable(s, e) ==
    LET sig == s.signals[e]
        late == sig.booking_latency_hours_max
    IN  {ResidualType, Context}
        \cup (IF sig.has_amend THEN {"OFF_MARKET_AMENDMENT", "PRICE_CORRECTION"} ELSE {})
        \cup (IF sig.has_amend /\ (sig.near_period_end \/ sig.crosses_period_end)
              THEN {"PERIOD_END_ROUND_TRIP"} ELSE {})
        \cup (IF sig.has_cancel
              THEN {"REBOOK_ECONOMICS_CHANGED", "CANCEL_REBOOK_CORRECTION"} ELSE {})
        \cup (IF late # None /\ late >= Cfg.late_booking_hours
              THEN {"LATE_BOOKING_OPERATIONAL"} ELSE {})
        \cup (IF sig.n_events = 1 /\ sig.n_trades = 1 THEN {"ROUTINE_EXECUTION"} ELSE {})

-----------------------------------------------------------------------------
(* What an evaluation needs. *)

PairBefore(x, y) == \/ x[1] < y[1]
                    \/ x[1] = y[1] /\ x[2] < y[2]

\* Rebookings inside the episode, and verified links that touch it.
RebookPairs(s, e, verified) ==
    LET ep == s.episodes[e]
    IN  InOrder({<<l.dst, l.src>> : l \in RebookLinks(s, e)}
                \cup {p \in verified : p[1] \in ep.trades \/ p[2] \in ep.trades}, PairBefore)

TradeIds(s, e) == InOrder(s.episodes[e].trades, <)

PeerRequest(e) == <<"get_peer_comparison", e, "max_price_change_pct">>

Requirements(h, s, e, verified) ==
    LET trades == TradeIds(s, e)
        pairs == RebookPairs(s, e, verified)
        versions == [i \in DOMAIN trades |-> <<"compare_trade_versions", trades[i]>>]
        history == [i \in DOMAIN trades |-> <<"get_trade_history", trades[i]>>]
        rebooks == << <<"get_event_sequence", e>> >>
                   \o [i \in DOMAIN pairs |-> <<"compare_trades", pairs[i][1], pairs[i][2]>>]
    IN  CASE h \in {"PERIOD_END_ROUND_TRIP", "PRICE_CORRECTION"} -> versions
          [] h = "OFF_MARKET_AMENDMENT" -> Append(versions, PeerRequest(e))
          [] h = "CANCEL_REBOOK_CORRECTION" -> rebooks
          [] h = "REBOOK_ECONOMICS_CHANGED" -> Append(rebooks, <<"get_recurrence", e>>)
          [] h = ResidualType -> << <<"get_deviation_profile", e>> >>
          [] h = Context -> << <<"get_prior_outcomes", e>> >>
          [] OTHER -> history

Needed(h, s, e, verified) ==
    LET reqs == Requirements(h, s, e, verified) IN {reqs[i] : i \in DOMAIN reqs}

MissingRequests(h, s, e, verified, gathered) ==
    SelectSeq(Requirements(h, s, e, verified), LAMBDA r : r \notin gathered)

-----------------------------------------------------------------------------
(* The evaluators. *)

Supported == [status |-> "SUPPORTED", missing |-> {}, signals |-> {}]
Contradicted == [status |-> "CONTRADICTED", missing |-> {}, signals |-> {}]
Insufficient(missing) == [status |-> "INSUFFICIENT", missing |-> missing, signals |-> {}]

\* Contradicted if anything contradicts it, else short of what is missing.
Verdict(contradicting, missing) ==
    IF contradicting THEN Contradicted
    ELSE IF missing # {} THEN Insufficient(missing) ELSE Supported

Amends(s, t) == LET diffs == CompareVersions(s, t)
                IN  {diffs[i] : i \in {k \in DOMAIN diffs : diffs[k].type = "AMEND"}}
AllAmends(s, e) == UNION {{[trade |-> t, diff |-> d] : d \in Amends(s, t)} : t \in s.episodes[e].trades}

RoutineEval(s, e) ==
    LET vs == TradeHistory(s, TradeIds(s, e)[1])
    IN  Verdict(\/ Len(vs) # 1 \/ vs[1].type # "NEW"
                \/ vs[1].rec - vs[1].at > Cfg.routine_max_latency
                \/ s.scores[e].outliers \ Cfg.routine_allowed_outliers # {}, {})

PriceCorrectionEval(s, e) ==
    LET amends == AllAmends(s, e)
        priced == {a \in amends : a.diff.price_change # None}
    IN  IF amends = {} THEN Insufficient({<<"amendment_versions">>})
        ELSE Verdict(\E a \in priced :
                         \/ a.diff.price_change = 0
                         \/ a.diff.price_change > Cfg.price_correction_max_pct
                         \/ a.diff.economics_changed
                         \/ a.diff.after_booking > Cfg.correction_window
                         \/ a.diff.crosses_period_end,
                     {<<"price_on", a.trade, a.diff.to>> : a \in amends \ priced})

CancelledTrades(s, e) ==
    LET evs == EventSequence(s, e)
    IN  {evs[k].trade : k \in {i \in DOMAIN evs : evs[i].type = "CANCEL"}}

RebookEval(s, e, verified) ==
    LET pairs == {RebookPairs(s, e, verified)[i] : i \in DOMAIN RebookPairs(s, e, verified)}
        cancelled == CancelledTrades(s, e)
        exceeds(x, bound) == x = None \/ x > bound
        differs(p) == LET cmp == CompareTrades(s, p[1], p[2])
                      IN  \/ ~cmp.same_instrument \/ ~cmp.same_side
                          \/ exceeds(cmp.qty_diff, Cfg.rebook_qty_tolerance_pct)
                          \/ exceeds(cmp.price_diff, Cfg.rebook_price_tolerance_pct)
                          \/ exceeds(cmp.after_cancel, Cfg.rebook_max_hours)
    IN  Verdict(\E p \in pairs : p[1] \in cancelled /\ differs(p),
                {<<"verified_rebook_link_for", t>> : t \in {c \in cancelled : \A p \in pairs : p[1] # c}})

\* The source of record is never available: a late booking stays open.
LateEval == Insufficient({<<"late_booking_evidence">>})

OffMarketEval(s, e) ==
    LET changes == {a.diff.price_change : a \in {x \in AllAmends(s, e) : x.diff.price_change # None}}
        peer == s.baseline[e]["max_price_change_pct"]
    IN  IF changes = {} THEN Contradicted
        ELSE IF Max(changes) <= Cfg.off_market_min_pct THEN Contradicted
        ELSE IF ~peer.available THEN Insufficient({<<"peer_baseline_for_price_change">>})
        ELSE IF peer.percentile >= Cfg.off_market_percentile THEN Supported
        ELSE IF peer.z # None /\ peer.z >= Cfg.off_market_robust_z THEN Supported ELSE Contradicted

\* The first bump before a period end is undone, after it, by a later version.
RoundTripEval(s, e) ==
    LET bumped(t) == {d.to : d \in {x \in Amends(s, t) :
                          /\ x.price_change # None /\ x.price_change >= Cfg.round_trip_min_pct
                          /\ x.to_period_end <= Cfg.period_end_hours}}
        restored(t) == LET diffs == CompareVersions(s, t)
                       IN {diffs[i].to : i \in {k \in DOMAIN diffs :
                               diffs[k].crosses_period_end /\ diffs[k].restores_original}}
    IN  Verdict(\A t \in s.episodes[e].trades :
                    \/ bumped(t) = {} \/ restored(t) = {}
                    \/ Min(restored(t)) <= Min(bumped(t)), {})

RepriceEval(s, e, verified) ==
    LET pairs == RebookPairs(s, e, verified)
        repriced(i) == LET diff == CompareTrades(s, pairs[i][1], pairs[i][2]).price_diff
                       IN  diff # None /\ diff > Cfg.rebook_price_tolerance_pct
    IN  IF pairs = << >> THEN Insufficient({<<"verified_rebook_link">>})
        ELSE Verdict(\A i \in DOMAIN pairs : ~repriced(i), {})

DeviationEval(s, e) ==
    LET view == s.deviations[e]
    IN  IF ~view.available THEN Insufficient({<<"peer_baseline">>})
        ELSE IF view.verified = {} THEN Contradicted
        ELSE [Supported EXCEPT !.signals = view.verified]

ContextEval(s, e) ==
    LET prior == PriorOutcomes(s, e)
    IN  Verdict(prior.escalated > 0,
                IF prior.cleared >= Cfg.context_min_cleared THEN {} ELSE {<<"curated_history">>})

EvaluatorOf(h, s, e, verified) ==
    CASE h = "PERIOD_END_ROUND_TRIP" -> RoundTripEval(s, e)
      [] h = "OFF_MARKET_AMENDMENT" -> OffMarketEval(s, e)
      [] h = "REBOOK_ECONOMICS_CHANGED" -> RepriceEval(s, e, verified)
      [] h = ResidualType -> DeviationEval(s, e)
      [] h = "CANCEL_REBOOK_CORRECTION" -> RebookEval(s, e, verified)
      [] h = "PRICE_CORRECTION" -> PriceCorrectionEval(s, e)
      [] h = "LATE_BOOKING_OPERATIONAL" -> LateEval
      [] h = "ROUTINE_EXECUTION" -> RoutineEval(s, e)
      [] h = Context -> ContextEval(s, e)

\* Absence of evidence is never support: what is missing is said instead.
Evaluate(h, s, e, verified, gathered) ==
    LET unavailable == HypothesisFields[h] \cap s.unavailable
        missing == Needed(h, s, e, verified) \ gathered
    IN  IF h \notin Applicable(s, e) THEN Contradicted
        ELSE IF unavailable # {} THEN Insufficient({<<"FIELD_UNAVAILABLE", f>> : f \in unavailable})
        ELSE IF missing # {} THEN Insufficient(missing)
        ELSE EvaluatorOf(h, s, e, verified)

-----------------------------------------------------------------------------
(* The verdict over the evaluations made, a function of the hypotheses. *)

With(results, status) == {h \in DOMAIN results : results[h].status = status}

First(types) == Catalog[Min({i \in DOMAIN Catalog : Catalog[i] \in types})]

Covers(types) == UNION {Cfg.explains[h] : h \in types \cap DOMAIN Cfg.explains}

\* Verified deviations: explained by a benign hypothesis that holds, pending on
\* one that may, or neither.
DeviationSplit(results) ==
    LET supported == With(results, "SUPPORTED")
        deviating == IF ResidualType \in supported THEN results[ResidualType].signals ELSE {}
        covered == Covers(supported \cap Benign)
        could == Covers(With(results, "INSUFFICIENT") \cap Benign)
    IN  [explained |-> deviating \cap covered, pending |-> (deviating \cap could) \ covered,
         unexplained |-> deviating \ (covered \cup could)]

\* Typed anomaly > unexplained deviation > benign, with nothing missing > none.
Adjudicate(results) ==
    LET supported == With(results, "SUPPORTED")
        open == With(results, "INSUFFICIENT") \ {Context}
        favoured ==
            IF supported \cap Typed # {} THEN First(supported \cap Typed)
            ELSE IF DeviationSplit(results).unexplained # {} THEN ResidualType
            ELSE IF supported \cap Benign # {} /\ open = {} THEN First(supported \cap Benign)
            ELSE None
    IN  [conclusion |-> favoured,
         adverse |-> \E h \in With(results, "CONTRADICTED") : Class(h) = "CONTEXT",
         reason |-> IF favoured # None THEN None
                    ELSE IF open # {} THEN "INSUFFICIENT_EVIDENCE" ELSE "NO_SUPPORTED_EXPLANATION"]

ClassOf(type) == IF type = None THEN None ELSE Class(type)

\* assess: every applicable hypothesis on all its evidence.
Results(s, e, verified) ==
    [h \in Applicable(s, e) |-> Evaluate(h, s, e, verified, Needed(h, s, e, verified))]
Assess(s, e) == Results(s, e, VerifiedLinks(s))

=============================================================================
