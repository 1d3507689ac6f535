------------------------------ MODULE MCPrograms -----------------------------
(***************************************************************************)
(* Small data for Programs: two earlier months and the current one, one    *)
(* desk with most of the trades, a second one with a rebooking.            *)
(***************************************************************************)
EXTENDS Programs

Thresholds ==
    [period_hours |-> 100, period_end_cutoff_hours |-> 5, evaluation_delay |-> 10,
     round_trip_min_pct |-> 50, round_trip_tolerance_pct |-> 5, signature_max_tokens |-> 4,
     recurrence_window |-> 200, baseline_lookback |-> 200, peer_levels |-> <<"book", "desk", "global">>,
     min_peer_n |-> 3, mad_scale |-> 148, meanad_scale |-> 125,
     unavailable_fields |-> {}, min_field_coverage |-> 50,
     screen_percentile |-> 90, screen_robust_z |-> 35, screen_mode |-> "any", z_cap |-> 100,
     tails |-> [max_price_change_pct |-> "upper", notional_usd_max |-> "both"],
     anomaly_signals |-> {"max_price_change_pct", "notional_usd_max"},
     anomaly_levels |-> {"book", "desk"}, self_level |-> "book", self_min_n |-> 3,
     stability_shift |-> 30, min_confirming_levels |-> 1, require_stability |-> FALSE,
     quality_exclusions |-> [max_price_change_pct |-> {"PRICE_GAP"}, notional_usd_max |-> {}],
     bands |-> [notional_usd_max |-> {500, 2000}],
     joint_min_item_support |-> 2, joint_max_order |-> 2, joint_min_reference |-> 3,
     joint_max_support |-> 0,
     anomaly_high |-> 60, anomaly_medium |-> 30,
     weights |-> [peer_deviation |-> 40, breadth |-> 10, self_history |-> 10, joint_rarity |-> 10],
     max_conditions |-> 4, severities |-> {"LOW", "MEDIUM"}, candidate_severity |-> "MEDIUM",
     rule_weight |-> [R100 |-> 20, R200 |-> 10, R400 |-> 30], unknown_rule_weight |-> 10,
     outlier_signals |-> {"booking_latency_hours_max"}, outlier_percentile |-> 90,
     score_weights |-> [detections |-> 100, outliers |-> 50, rarity |-> 20, materiality |-> 10,
                        data_quality |-> 5, outlyingness |-> 50],
     rarity_min_pct |-> 80, materiality |-> 2000, override_materiality |-> 9000,
     quality_flags_scored |-> {"PRICE_GAP"}, watchlist_books |-> {"B2"},
     band_high |-> 60, band_elevated |-> 30,
     max_items |-> 8, context_lookback |-> 200, late_booking_hours |-> 4,
     routine_max_latency |-> 2, routine_allowed_outliers |-> {},
     price_correction_max_pct |-> 35, correction_window |-> 1,
     rebook_qty_tolerance_pct |-> 0, rebook_price_tolerance_pct |-> 5, rebook_max_hours |-> 2,
     off_market_min_pct |-> 50, off_market_percentile |-> 90, off_market_robust_z |-> 35,
     period_end_hours |-> 5, context_min_cleared |-> 2,
     explains |-> [PRICE_CORRECTION |-> {"max_price_change_pct"}],
     max_consecutive_rejections |-> 2,
     redundancy_min_alerts |-> 2, exposure_rules |-> {"R400"}, sampling_rules |-> {"R900"},
     review_window |-> 70, max_blind_spots_per_run |-> 1, max_findings_per_run |-> 3,
     shadow_window |-> 40, replay_window |-> 200,
     min_support |-> 2, max_itemset |-> 2, ignored_items |-> {<<"flag", "lifecycle_valid">>},
     min_risk_rate |-> 80, max_rule_coverage |-> 20, min_escalated_labels |-> 2,
     min_curated_cleared |-> 2, min_benign_rate |-> 80, max_patterns_per_kind |-> 3,
     max_volume_growth |-> 150, min_candidate_precision |-> 80, pattern_sample |-> 3,
     max_redundant_coverage |-> 80]

-----------------------------------------------------------------------------
(* Trades. *)

V(t, k, type, price, at) ==
    [trade |-> t, version |-> k, type |-> type, price |-> price, qty |-> 10, side |-> "BUY",
     notional |-> 10 * price, instrument |-> "I1", desk |-> "D1", book |-> "B1",
     at |-> at, rec |-> at, original |-> None]

Late(t, price, at, rec) == <<[V(t, 1, "NEW", price, at) EXCEPT !.rec = rec]>>
Single(t, price, at) == <<V(t, 1, "NEW", price, at)>>
Amended(t, price, at, to) == <<V(t, 1, "NEW", price, at), V(t, 2, "AMEND", to, at + 1)>>
Cancelled(t, price, at) == <<V(t, 1, "NEW", price, at), V(t, 2, "CANCEL", price, at + 1)>>
OnDesk(vs, desk, book) == [i \in DOMAIN vs |-> [vs[i] EXCEPT !.desk = desk, !.book = book]]
Rebooking(vs, t) == [vs EXCEPT ![1].original = t]

Alert(id, rule, t, at) == [id |-> id, rule |-> rule, trade |-> t, rec |-> at]

Episode(trades, alerts) ==
    [trades |-> trades, links |-> {}, flags |-> {}, alerts |-> alerts, desk |-> "D1",
     desks |-> {"D1"}, book |-> "B1", books |-> {"B1"}, product |-> "P1"]

Outcome(alert, label, at) == [alert |-> alert, quality |-> "CURATED", label |-> label, decided |-> at]

Rule(id, signal, op, value) ==
    [id |-> id, severity |-> "MEDIUM", parameters |-> [threshold |-> [is |-> value, spelt |-> "plainly"]],
     conditions |-> <<[signal |-> signal, op |-> op, value |-> None, param |-> "threshold"]>>]

\* Routine bookings that were cleared, amendments that were escalated, and in
\* the current month: a cancellation (6) whose rebooking (7) was not linked, a
\* prompt amendment of a large trade (8) and of a usual one (9), a linked
\* rebooking on two desks (10).
Base ==
    [asOf |-> 260, historical |-> FALSE,
     trades |-> << Single(1, 100, 110), Single(2, 101, 120), Single(3, 99, 130),
                   Amended(4, 100, 140, 120), Amended(5, 100, 150, 121),
                   Cancelled(6, 100, 210), Single(7, 100, 212),
                   Amended(8, 500, 220, 505), Amended(9, 100, 225, 101),
                   Cancelled(10, 100, 230),
                   OnDesk(Rebooking(Single(11, 100, 232), 10), "D2", "B2") >>,
     episodes |-> << Episode({1}, {Alert(1, "R100", 1, 110)}), Episode({2}, {Alert(2, "R100", 2, 120)}),
                     Episode({3}, {}), Episode({4}, {Alert(4, "R900", 4, 142)}),
                     Episode({5}, {Alert(5, "R900", 5, 152)}),
                     Episode({6}, {Alert(6, "R100", 6, 211), Alert(7, "R400", 6, 211)}),
                     Episode({7}, {}), Episode({8}, {}), Episode({9}, {Alert(9, "R100", 9, 226)}),
                     [Episode({10, 11}, {Alert(10, "R400", 11, 232)}) EXCEPT
                         !.links = {[src |-> 11, dst |-> 10, kind |-> "REBOOK_OF"],
                                    [src |-> 10, dst |-> 11, kind |-> "SHARED_URN"]}, !.desks = {"D1", "D2"}, !.books = {"B1", "B2"}] >>,
     proposals |-> {}, unresolved |-> <<[a |-> 6, b |-> 7]>>,
     outcomes |-> {Outcome(1, "CLEARED", 115), Outcome(2, "CLEARED", 125),
                   Outcome(4, "ESCALATED", 145), Outcome(5, "ESCALATED", 155)},
     persons |-> {8}, rfi_open |-> {}, rules |-> {Rule("R100", "n_trades", "ge", 9)},
     bulk |-> {}, signals |-> << >>, unavailable |-> {}, baseline |-> << >>, deviations |-> << >>, scores |-> << >>,
     detected |-> {}]

Empty == [Base EXCEPT !.trades = << >>, !.episodes = << >>, !.unresolved = << >>, !.outcomes = {},
                      !.persons = {}]

\* Routine bookings that could be cleared in bulk, escalated amendments on one
\* desk, and on another amendments of which one was cleared though it is as far
\* from the market. A rule of production caught an escalated cancellation: sound
\* on history, it would be a proposal if it were not known.
Recurring ==
    LET two(vs) == OnDesk(vs, "D2", "B2")
        flagged(t) == Episode({t}, {Alert(t, "R900", t, 219)})
        abroad(t) == [flagged(t) EXCEPT !.desk = "D2", !.desks = {"D2"}, !.book = "B2", !.books = {"B2"}]
    IN  [Empty EXCEPT
          !.trades = << Single(1, 150, 203), Single(2, 150, 204), Single(3, 150, 205),
                        Amended(4, 100, 140, 120), Amended(5, 300, 150, 360), Amended(6, 300, 160, 360),
                        two(Amended(7, 100, 206, 160)), two(Amended(8, 100, 207, 160)),
                        two(Amended(9, 100, 208, 160)), Cancelled(10, 100, 170) >>,
          !.episodes = [t \in 1..10 |-> IF t \in 7..9 THEN abroad(t) ELSE flagged(t)],
          !.outcomes = {Outcome(t, IF t \in {1, 2, 9} THEN "CLEARED" ELSE "ESCALATED", 219) :
                            t \in 1..10 \ {3}},
          !.rules = @ \cup {Rule("R200", "n_cancels", "ge", 1)}]

\* A cancellation with two candidates for its rebooking, one at another price; a
\* price that goes up before the end of the month and back after it; a booking
\* that is recorded late.
Pairs ==
    [Empty EXCEPT
      !.trades = << Cancelled(1, 100, 210), Single(2, 150, 211), Single(3, 100, 212),
                    << V(4, 1, "NEW", 100, 190), V(4, 2, "AMEND", 180, 198), V(4, 3, "AMEND", 100, 202) >>,
                    Late(5, 100, 220, 227) >>,
      !.episodes = [t \in 1..5 |-> Episode({t}, {})],
      !.unresolved = << [a |-> 1, b |-> 2], [a |-> 1, b |-> 3] >>]

\* Most versions come without a price.
Sparse ==
    LET unpriced(vs) == [i \in DOMAIN vs |-> [vs[i] EXCEPT !.price = None, !.notional = None]]
    IN  [Empty EXCEPT
          !.trades = << unpriced(Cancelled(1, 100, 210)), Single(2, 100, 212),
                        unpriced(Single(3, 100, 140)) >>,
          !.episodes = [t \in 1..3 |-> Episode({t}, {})],
          !.unresolved = << [a |-> 1, b |-> 2] >>]

Data == [base |-> Base, recurring |-> Recurring, pairs |-> Pairs, sparse |-> Sparse]

-----------------------------------------------------------------------------
(* Runs. *)

Anyone == [desks |-> {"*"}, person_data |-> TRUE]
FirstDesk == [desks |-> {"D1"}, person_data |-> FALSE]

Run(program, tools, world, e, principal) ==
    [program |-> program, world |-> world, episode |-> e, principal |-> principal, allowed |-> tools]

Investigations == {<<"base", 6>>, <<"base", 8>>, <<"base", 9>>, <<"base", 10>>,
                   <<"recurring", 7>>, <<"pairs", 1>>, <<"pairs", 4>>, <<"sparse", 1>>}

Runs ==
    {Run("investigator", InvestigatorTools, x[1], x[2], Anyone) : x \in Investigations}
    \cup {Run("investigator", InvestigatorTools, "base", 10, FirstDesk)}
    \cup {Run("challenger", ChallengerTools, w, 0, p) :
               w \in {"base", "recurring"}, p \in {Anyone, FirstDesk}}
    \cup {Run("discovery", DiscoveryTools, w, 0, Anyone) : w \in {"base", "recurring"}}

-----------------------------------------------------------------------------
(* What the pure parts compute on the data above. *)

\* Another alert, of whatever rule, never moves an episode back in the queue
\* (engine/scoring.py score_episode, queue_key).
AlertsMoveForward ==
    \A w \in DOMAIN Contexts : \A e \in DOMAIN Contexts[w].snapshot.episodes :
        \A rule \in {"R100", "R400", "R777"} :
            LET before == Contexts[w].snapshot
                t == CHOOSE t \in before.episodes[e].trades : TRUE
                alerted == [before EXCEPT !.episodes[e].alerts = @ \cup {Alert(99, rule, t, before.asOf)}]
                after == [alerted EXCEPT !.scores[e] = ScoreEpisode(alerted, e)]
            IN  \A x, y \in DOMAIN before.episodes :
                    y # e /\ QueueBefore(before, x, y) => QueueBefore(after, x, y)
ASSUME AlertsMoveForward

\* Explaining more of what is unusual about a case never makes it more unusual,
\* by value or by band, and explaining nothing changes nothing
\* (engine/deviation.py residual).
ExplainingLowers ==
    \A w \in DOMAIN Contexts : \A e \in DOMAIN Contexts[w].snapshot.episodes :
        LET profile == Contexts[w].snapshot.deviations[e]
            rank(total) == CHOOSE i \in 1..4 : <<"NONE", "LOW", "MEDIUM", "HIGH">>[i] = BandOf(total)
            worth(keep) == Residual(profile, keep)
        IN  /\ worth(profile.verified) = profile.outlyingness
            /\ \A fewer, more \in SUBSET profile.verified : fewer \subseteq more =>
                   worth(fewer) <= worth(more) /\ rank(worth(fewer)) <= rank(worth(more))
ASSUME ExplainingLowers

\* The rule made of a pattern still fires on all of the pattern and is no less
\* precise than it; added to the rules of production it loses no detection. The
\* scope made of a pattern takes in all that the pattern explains
\* (engine/discovery.py synthesize_rule, evolution/replay.py).
CandidatesCoverPatterns ==
    \A w \in DOMAIN Contexts :
        LET s == Contexts[w].snapshot
            points == Contexts[w].points
            group(p) == {x \in points : x.episode \in p.members}
            fires(p) == {x \in points : Fires(p.rule, x.signals)}
            change(p) == ReplayDetection(p.rule, s.rules, points)
            scopes(p) == {[type |-> p.type, desk |-> d] : d \in p.desks}
        IN  \A p \in Patterns(s, points) :
                IF p.kind = "UNCAPTURED_RISK"
                THEN /\ ValidRule(p.rule) /\ group(p) \subseteq fires(p)
                     /\ Precision(fires(p)) >= Precision(group(p))
                     /\ change(p).lost = {}
                     /\ change(p).added_positive + p.detected >= p.escalated
                ELSE \A scope \in scopes(p) :
                         ReplayBulk(scope, points).would_be_bulk >= p.evidence
ASSUME CandidatesCoverPatterns

=============================================================================
