------------------------------ MODULE Deviation ------------------------------
(***************************************************************************)
(* Verified deviations of an episode from its peers                        *)
(* (src/asas/engine/deviation.py, items.py) and the fields the data does   *)
(* carry (src/asas/engine/capabilities.py). Robust z are in tenths,        *)
(* strengths and outlyingness in hundredths.                               *)
(***************************************************************************)
EXTENDS Signals

SignalFields ==
    [max_price_change_pct |-> {"PRICE"}, rebook_price_change_pct |-> {"PRICE"},
     price_round_trip |-> {"PRICE"}, max_qty_change_pct |-> {"QUANTITY"},
     notional_usd_max |-> {"NOTIONAL_USD"}]

FieldOf == [PRICE |-> "price", QUANTITY |-> "qty", SIDE |-> "side", NOTIONAL_USD |-> "notional"]

\* detect: fields too few versions carry, and those declared unreliable.
Unavailable(s) ==
    LET versions == UNION {{s.trades[t][i] : i \in DOMAIN s.trades[t]} : t \in DOMAIN s.trades}
        with(f) == {v \in versions : v[FieldOf[f]] # None}
    IN  Cfg.unavailable_fields \cup
        {f \in DOMAIN FieldOf :
            100 * Cardinality(with(f)) < Cfg.min_field_coverage * Cardinality(versions)}

MissingFor(name, unavailable) ==
    IF name \in DOMAIN SignalFields THEN SignalFields[name] \cap unavailable ELSE {}

-----------------------------------------------------------------------------
(* Signals against their peers. *)

Screened(percentile, z, tail) ==
    LET upper == <<percentile >= Cfg.screen_percentile, z >= Cfg.screen_robust_z>>
        lower == <<percentile <= 100 - Cfg.screen_percentile, -z >= Cfg.screen_robust_z>>
        passes(test) == IF Cfg.screen_mode = "all" THEN test[1] /\ test[2] ELSE test[1] \/ test[2]
    IN  \/ tail \in {"upper", "both"} /\ passes(upper)
        \/ tail \in {"lower", "both"} /\ passes(lower)

\* A constant population: any departure from it is maximal.
Marked(z, x, median2) ==
    IF z # None THEN z
    ELSE IF 2 * x > median2 THEN Cfg.z_cap
    ELSE IF 2 * x < median2 THEN -Cfg.z_cap ELSE 0

Stat(n, percentile, z, tail) == [n |-> n, z |-> z, deviant |-> Screened(percentile, z, tail)]
PeerStat(f, x, tail) ==
    Stat(Size(f), PercentileOf(f, x), Marked(RobustZ(f, x), x, Median2(f)), tail)

\* The levels at which e can be compared in a window, with the comparison.
Stats(s, e, name, levels, shift) ==
    LET f(level) == Population(s.signals, Reference(s, e, shift), level, name, e)
    IN  [level \in {l \in levels : Size(f(l)) > 0} |->
            PeerStat(f(level), s.signals[e][name], Cfg.tails[name])]

Deviant(stats) == {l \in DOMAIN stats : stats[l].deviant}
Populous(stats) == {l \in DOMAIN stats : stats[l].n >= Cfg.min_peer_n}

Strength(stats, levels) ==
    IF levels = {} THEN 0
    ELSE Min({(100 * Min({Abs(stats[l].z) : l \in levels})) \div Cfg.z_cap, 100})

\* Why a deviation is not trusted: too few levels, not stable, poor data.
Doubts(s, e, name, stats) ==
    LET confirming == Deviant(stats) \cap Populous(stats)
        unconfirmed(later) == IF Populous(later) = {} THEN Cfg.require_stability
                              ELSE Populous(later) \cap Deviant(later) = {}
    IN  {r \in {"LEVELS", "UNSTABLE", "DATA_QUALITY"} :
            CASE r = "LEVELS" -> Cardinality(confirming) < Cfg.min_confirming_levels
              [] r = "UNSTABLE" -> unconfirmed(Stats(s, e, name, Cfg.anomaly_levels, Cfg.stability_shift))
              [] OTHER -> s.episodes[e].flags \cap Cfg.quality_exclusions[name] # {}}

\* None when the signal is absent or no level finds it unusual.
Judged(stats, own, doubts) ==
    IF Deviant(stats) = {} THEN None
    ELSE [verified |-> doubts = {},
          own |-> \E l \in Deviant(own) : own[l].n >= Cfg.self_min_n,
          strength |-> IF doubts = {} THEN Strength(stats, Deviant(stats) \cap Populous(stats))
                       ELSE 0]

SignalDeviation(s, e, name) ==
    LET stats == Stats(s, e, name, Cfg.anomaly_levels, 0)
    IN  IF s.signals[e][name] = None THEN None
        ELSE Judged(stats, Stats(s, e, name, {Cfg.self_level}, 0), Doubts(s, e, name, stats))

-----------------------------------------------------------------------------
(* Combinations of common facts that others do not show together. *)

Band(cuts, x) == Cardinality({c \in cuts : x >= c})

EpisodeItems(sig) ==
    {<<"sig", sig.sequence_signature>>, <<"desk", sig.desk>>}
    \cup {<<"flag", f>> : f \in {g \in FlagSignals : sig[g]}}
    \cup {<<"band", <<n, Band(Cfg.bands[n], sig[n])>>>> :
            n \in {m \in DOMAIN Cfg.bands : sig[m] # None}}

\* What describes behaviour, not organisation.
InformativeItems(sig) ==
    {i \in EpisodeItems(sig) : i[1] # "desk" /\ i # <<"flag", "lifecycle_valid">>}

\* The other episodes of the window that show all of a combination.
Support(s, e, combo) ==
    Cardinality({o \in Reference(s, e, 0) \ {e} : combo \subseteq InformativeItems(s.signals[o])})

\* The rarest combination of items that are common one by one.
JointRarity(s, e) ==
    LET common == {i \in InformativeItems(s.signals[e]) :
                       Support(s, e, {i}) >= Cfg.joint_min_item_support}
        combos == UNION {kSubset(k, common) : k \in 2..Cfg.joint_max_order}
        best == Min({Support(s, e, c) : c \in combos})
    IN  IF combos = {} THEN FALSE
        ELSE /\ Cardinality(Reference(s, e, 0) \ {e}) >= Cfg.joint_min_reference
             /\ best <= Cfg.joint_max_support

-----------------------------------------------------------------------------
(* How far out an episode is, over the deviations in keep. *)

BandOf(total) ==
    IF total >= Cfg.anomaly_high THEN "HIGH"
    ELSE IF total >= Cfg.anomaly_medium THEN "MEDIUM"
    ELSE IF total > 0 THEN "LOW" ELSE "NONE"

Outlyingness(deviations, joint, keep) ==
    LET chosen == {n \in DOMAIN deviations \cap keep : deviations[n].verified}
        own == {n \in chosen : deviations[n].own}
        w == Cfg.weights
    IN  (w.peer_deviation * MapThenSumSet(LAMBDA n : deviations[n].strength, chosen)) \div 100
        + w.breadth * (IF chosen = {} THEN 0 ELSE Cardinality(chosen) - 1)
        + w.self_history * Cardinality(own)
        + (IF joint /\ "joint" \in keep THEN w.joint_rarity ELSE 0)

Profile(available, screened, found, joint) ==
    LET deviations == [n \in {m \in DOMAIN found : found[m] # None} |-> found[n]]
        verified == {n \in DOMAIN deviations : deviations[n].verified}
                    \cup (IF joint THEN {"joint"} ELSE {})
    IN  [available |-> available, screened |-> screened, deviations |-> deviations, joint |-> joint,
         verified |-> verified, outlyingness |-> Outlyingness(deviations, joint, verified)]

DeviationProfile(s, e) ==
    LET available == Reference(s, e, 0) # {}
        screened == {n \in Cfg.anomaly_signals : MissingFor(n, s.unavailable) = {}}
    IN  Profile(available, screened,
                [n \in IF available THEN screened ELSE {} |-> SignalDeviation(s, e, n)],
                available /\ JointRarity(s, e))

\* What is left when the explained deviations are taken out.
Residual(profile, unexplained) ==
    Outlyingness(profile.deviations, profile.joint, unexplained \cap profile.verified)

=============================================================================
