------------------------------- MODULE Scoring -------------------------------
(***************************************************************************)
(* The attention score of an episode (src/asas/engine/scoring.py) and the  *)
(* snapshot everything else reads (src/asas/engine/snapshot.py). Scores    *)
(* are in hundredths.                                                      *)
(***************************************************************************)
EXTENDS Deviation, Rules

RuleIds(s, e) == {a.rule : a \in s.episodes[e].alerts}

RuleWeight(rule) == IF rule \in DOMAIN Cfg.rule_weight THEN Cfg.rule_weight[rule]
                    ELSE Cfg.unknown_rule_weight

\* Signals above the outlier percentile of the first level with enough peers.
Outliers(s, e) ==
    {n \in Cfg.outlier_signals : /\ Reference(s, e, 0) # {}
                                 /\ s.baseline[e][n].available
                                 /\ s.baseline[e][n].percentile >= Cfg.outlier_percentile}

Degraded(s, e) ==
    IF Reference(s, e, 0) = {} THEN {<<"NO_BASELINE">>}
    ELSE {<<"PEER_FALLBACK_GLOBAL", n>> : n \in {m \in Cfg.outlier_signals :
              s.baseline[e][m].available /\ s.baseline[e][m].level = "global"}}

Total(s, e) ==
    LET sig == s.signals[e]
        w == Cfg.score_weights
        above(n) == (100 * (s.baseline[e][n].percentile - Cfg.outlier_percentile))
                        \div (100 - Cfg.outlier_percentile)
        rarity == IF sig.signature_rarity_pct = None THEN 0
                  ELSE IF sig.signature_rarity_pct >= Cfg.rarity_min_pct
                  THEN sig.signature_rarity_pct ELSE 0
        notional == IF sig.notional_usd_max = None THEN 0 ELSE sig.notional_usd_max
    IN  (w.detections * MapThenSumSet(LAMBDA r : RuleWeight(r), RuleIds(s, e))) \div 100
        + (w.outliers * MapThenSumSet(above, Outliers(s, e))) \div 100
        + (w.rarity * rarity) \div 100
        + (IF notional >= Cfg.materiality THEN w.materiality ELSE 0)
        + w.data_quality * Cardinality(s.episodes[e].flags \cap Cfg.quality_flags_scored)
        + (w.outlyingness * s.deviations[e].outlyingness) \div 100

Overrides(s, e) ==
    LET notional == s.signals[e].notional_usd_max
    IN  (IF \E a \in s.episodes[e].alerts : a.id \in s.rfi_open THEN {"OPEN_RFI"} ELSE {})
        \cup (IF notional # None /\ notional >= Cfg.override_materiality
              THEN {"ABOVE_MATERIALITY"} ELSE {})
        \cup (IF s.episodes[e].books \cap Cfg.watchlist_books # {} THEN {"WATCHLIST_BOOK"} ELSE {})

ScoreEpisode(s, e) ==
    LET total == Total(s, e)
        band == IF total >= Cfg.band_high THEN "HIGH"
                ELSE IF total >= Cfg.band_elevated THEN "ELEVATED" ELSE "NORMAL"
    IN  [total |-> total, band |-> band, outliers |-> Outliers(s, e), degraded |-> Degraded(s, e),
         bucket |-> IF Overrides(s, e) # {} THEN "B0"
                    ELSE CASE band = "HIGH" -> "B1" [] band = "ELEVATED" -> "B2" [] OTHER -> "B3"]

\* The order of the queue: bucket, then score, then age.
QueueBefore(s, x, y) ==
    LET bucket == [B0 |-> 0, B1 |-> 1, B2 |-> 2, B3 |-> 3]
        key(e) == <<bucket[s.scores[e].bucket], -s.scores[e].total, Start(s, e), e>>
    IN  Lower(key(x), key(y))

\* build_snapshot, once the episodes are linked. The baselines are frozen with it.
Compared == Cfg.outlier_signals \cup {"max_price_change_pct"}

Signalled(s) == [s EXCEPT !.signals = SignalsOf(s), !.unavailable = Unavailable(s)]
Frozen(s) == [s EXCEPT !.baseline =
                 [e \in DOMAIN s.episodes |-> [n \in Compared |-> Compare(s, e, n)]]]
Profiled(s) == [s EXCEPT !.deviations = [e \in DOMAIN s.episodes |-> DeviationProfile(s, e)]]
Scored(s) == [s EXCEPT !.scores = [e \in DOMAIN s.episodes |-> ScoreEpisode(s, e)],
                       !.detected = {e \in DOMAIN s.episodes : Detected(s.rules, s.signals[e])}]

BuildSnapshot(s) == Scored(Profiled(Frozen(Signalled(s))))

=============================================================================
