------------------------------- MODULE Signals -------------------------------
(***************************************************************************)
(* Episode signals and frozen peer baselines (src/asas/engine/signals.py), *)
(* as operators on a snapshot s. A trade is the sequence of its versions.  *)
(* Times are hours; percentages are in tenths, medians doubled and scales  *)
(* in quarters, so that everything stays an integer.                       *)
(***************************************************************************)
EXTENDS Integers, Sequences, FiniteSets, FiniteSetsExt

CONSTANTS
    Cfg,        \* the thresholds of asas.toml, by their names
    None        \* an absent value

FlagSignals ==
    {"near_period_end", "crosses_period_end", "price_round_trip", "has_amend", "has_cancel",
     "has_rebook_link", "lifecycle_valid"}

LifecycleIssues == {"NO_LIFECYCLE", "FIRST_EVENT_NOT_NEW", "VERSION_GAP", "EVENTS_AFTER_CANCEL"}

Abs(x) == IF x < 0 THEN -x ELSE x
PctChange(old, new) == (1000 * Abs(new - old)) \div Abs(old)
Comparable(old, new) == old \notin {None, 0} /\ new # None

\* Months.
Period(hour) == hour \div Cfg.period_hours
ToPeriodEnd(hour) == (Period(hour) + 1) * Cfg.period_hours - hour

\* The elements of S, first to last.
InOrder(S, Before(_, _)) ==
    [i \in 1..Cardinality(S) |-> CHOOSE x \in S : Cardinality({y \in S : Before(y, x)}) = i - 1]

\* The order of two tuples of numbers.
Lower(a, b) == \E i \in DOMAIN a : a[i] < b[i] /\ \A j \in 1..(i - 1) : a[j] = b[j]

Largest(S) == IF S = {} THEN None ELSE Max(S)
Smallest(S) == IF S = {} THEN None ELSE Min(S)

-----------------------------------------------------------------------------
(* One episode. *)

Versions(s, e) == UNION {{s.trades[t][i] : i \in DOMAIN s.trades[t]} : t \in s.episodes[e].trades}
Start(s, e) == Min({v.at : v \in Versions(s, e)})
End(s, e) == Max({v.at : v \in Versions(s, e)})

\* A replay looks at an episode some time after its end, everything else at the
\* time of the snapshot.
EvalTime(s, e) == IF s.historical THEN Min({End(s, e) + Cfg.evaluation_delay, s.asOf}) ELSE s.asOf

\* Versions recorded by then.
Seen(s, t, now) == SelectSeq(s.trades[t], LAMBDA v : v.rec <= now)

Earlier(x, y) ==
    \/ x.at < y.at
    \/ x.at = y.at /\ x.trade < y.trade
    \/ x.at = y.at /\ x.trade = y.trade /\ x.version < y.version

EventsOf(s, e, now) ==
    InOrder({v \in Versions(s, e) : v.rec <= now}, Earlier)

Steps(vs) == {<<vs[i - 1], vs[i]>> : i \in 2..Len(vs)}

Changes(pairs, field) ==
    {PctChange(p[1][field], p[2][field]) :
        p \in {q \in pairs : Comparable(q[1][field], q[2][field]) /\ q[2].type # "CANCEL"}}

\* Moved away from the first price and, later, back.
RoundTrip(vs) ==
    LET change(k) == PctChange(vs[1].price, vs[k].price)
        priced == {k \in 2..Len(vs) : Comparable(vs[1].price, vs[k].price) /\ vs[k].type # "CANCEL"}
        moved == {k \in priced : change(k) >= Cfg.round_trip_min_pct}
    IN  \E i \in moved, j \in priced \ moved : i < j /\ change(j) <= Cfg.round_trip_tolerance_pct

Live(vs) == SelectSeq(vs, LAMBDA v : v.type # "CANCEL")
LastLive(vs) == Live(vs)[Len(Live(vs))]

\* From the booking to the first amendment.
FirstAmend(vs) ==
    LET amends == {i \in DOMAIN vs : vs[i].type = "AMEND"}
    IN  IF amends = {} \/ vs[1].type # "NEW" THEN {} ELSE {vs[Min(amends)].at - vs[1].at}

\* The change from the last open version of the cancelled trade to its rebooking.
RebookMoves(s, rebooks, now) ==
    LET pairs == {<<LastLive(Seen(s, l.dst, now)), Seen(s, l.src, now)[1]>> :
                      l \in {x \in rebooks : Live(Seen(s, x.dst, now)) # << >>}}
    IN  {PctChange(p[1].price, p[2].price) : p \in {q \in pairs : Comparable(q[1].price, q[2].price)}}

\* A rebooking is linked by the feed or by an agent; a shared key says less.
RebookLinks(s, e) == {l \in s.episodes[e].links : l.kind \in {"REBOOK_OF", "AGENT_LINK"}}

BaseSignals(s, e) ==
    LET ep == s.episodes[e]
        now == EvalTime(s, e)
        evs == EventsOf(s, e, now)
        at == DOMAIN evs
        members == {t \in ep.trades : Seen(s, t, now) # << >>}
        alerts == {a \in ep.alerts : a.rec <= now}
        histories == {Seen(s, t, now) : t \in members}
        pairs == UNION {Steps(vs) : vs \in histories}
        rebooks == {l \in RebookLinks(s, e) : {l.src, l.dst} \subseteq members}
        count(x) == Cardinality({k \in at : evs[k].type = x})
        toEnd == Smallest({ToPeriodEnd(evs[k].at) : k \in at})
        token(v) == IF v.type = "NEW" /\ \E l \in rebooks : l.src = v.trade THEN "REBOOK" ELSE v.type
    IN [n_trades |-> Cardinality(members), n_events |-> Len(evs), n_amends |-> count("AMEND"),
        n_cancels |-> count("CANCEL"), n_alerts |-> Cardinality(alerts),
        n_rules_fired |-> Cardinality({a.rule : a \in alerts}),
        max_price_change_pct |-> Largest(Changes(pairs, "price")),
        max_qty_change_pct |-> Largest(Changes(pairs, "qty")),
        booking_latency_hours_max |-> Largest({evs[k].rec - evs[k].at : k \in at}),
        notional_usd_max |-> Largest({evs[k].notional : k \in at} \ {None}),
        hours_to_period_end_min |-> toEnd,
        hours_first_amend |-> Smallest(UNION {FirstAmend(vs) : vs \in histories}),
        rebook_price_change_pct |-> Largest(RebookMoves(s, rebooks, now)),
        near_period_end |-> toEnd # None /\ toEnd <= Cfg.period_end_cutoff_hours,
        crosses_period_end |->
            \E vs \in histories : \E i, j \in DOMAIN vs : Period(vs[i].at) # Period(vs[j].at),
        price_round_trip |-> \E vs \in histories : Comparable(vs[1].price, 0) /\ RoundTrip(vs),
        has_amend |-> count("AMEND") > 0, has_cancel |-> count("CANCEL") > 0,
        has_rebook_link |-> rebooks # {}, lifecycle_valid |-> ep.flags \cap LifecycleIssues = {},
        sequence_signature |->
            [k \in 1..Min({Len(evs), Cfg.signature_max_tokens}) |-> token(evs[k])],
        desk |-> ep.desk, book |-> ep.book, desk_product |-> <<ep.desk, ep.product>>]

\* Earlier episodes with this signature in the same book: history only.
Recurrence(s, base, e) ==
    Cardinality({o \in DOMAIN s.episodes :
        /\ base[o].sequence_signature = base[e].sequence_signature
        /\ base[o].book = base[e].book
        /\ End(s, o) >= Start(s, e) - Cfg.recurrence_window /\ End(s, o) < Start(s, e)})

\* The window of a period ends where the period starts, or some days earlier.
Reference(s, e, shift) ==
    LET stop == Period(EvalTime(s, e)) * Cfg.period_hours - shift
    IN  {o \in DOMAIN s.episodes : End(s, o) >= stop - Cfg.baseline_lookback /\ End(s, o) < stop}

\* How rare the signature is in the window of the peers.
Rarity(s, base, e) ==
    LET ref == Reference(s, e, 0)
        same == {o \in ref : base[o].sequence_signature = base[e].sequence_signature}
    IN  IF ref = {} THEN None ELSE 100 - (100 * Cardinality(same)) \div Cardinality(ref)

\* compute_signals: of all episodes, given what each shows on its own.
Completed(s, base) ==
    [e \in DOMAIN s.episodes |->
        [n \in DOMAIN base[e] \cup {"book_signature_recurrence", "signature_rarity_pct"} |->
            CASE n = "book_signature_recurrence" -> Recurrence(s, base, e)
              [] n = "signature_rarity_pct" -> Rarity(s, base, e)
              [] OTHER -> base[e][n]]]

SignalsOf(s) == Completed(s, [e \in DOMAIN s.episodes |-> BaseSignals(s, e)])

-----------------------------------------------------------------------------
(* Peers. *)

SameKey(sig, level, o, e) == level = "global" \/ sig[o][level] = sig[e][level]

\* The values of a signal among the episodes of a window that share a level.
Population(sig, ref, level, name, e) ==
    LET pop == {o \in ref : SameKey(sig, level, o, e) /\ sig[o][name] # None}
    IN  [o \in pop |-> sig[o][name]]

Size(f) == Cardinality(DOMAIN f)

Sorted(f) ==
    LET Before(x, y) == \/ f[x] < f[y]
                        \/ f[x] = f[y] /\ x < y
        order == InOrder(DOMAIN f, Before)
    IN  [i \in DOMAIN order |-> f[order[i]]]

\* Doubled; v is sorted.
Middle2(v) == LET mid == Len(v) \div 2
              IN  IF Len(v) % 2 = 1 THEN 2 * v[mid + 1] ELSE v[mid] + v[mid + 1]
Median2(f) == Middle2(Sorted(f))

\* The MAD, or the mean absolute deviation when most values are the same.
Departures(f, median2) == [o \in DOMAIN f |-> Abs(2 * f[o] - median2)]
ScaleOf(dev, mad2) ==
    IF mad2 # 0 THEN (Cfg.mad_scale * mad2) \div 100
    ELSE (2 * Cfg.meanad_scale * MapThenSumSet(LAMBDA o : dev[o], DOMAIN dev)) \div (100 * Size(dev))
RobustScale(f, median2) == LET dev == Departures(f, median2) IN ScaleOf(dev, Median2(dev))

\* Mid-rank: ties share the middle of their ranks.
PercentileOf(f, x) ==
    LET below == Cardinality({o \in DOMAIN f : f[o] < x})
        equal == Cardinality({o \in DOMAIN f : f[o] = x})
    IN  (100 * (2 * below + equal)) \div (2 * Size(f))

\* In tenths; None in a population without spread.
ZOf(x, median2, scale) == IF scale = 0 THEN None ELSE (10 * (4 * x - 2 * median2)) \div scale
RobustZ(f, x) == LET median2 == Median2(f) IN ZOf(x, median2, RobustScale(f, median2))

\* Baseline.compare: the first level with enough peers.
Against(f, x, level) ==
    [available |-> TRUE, level |-> level, percentile |-> PercentileOf(f, x), z |-> RobustZ(f, x)]

Compare(s, e, name) ==
    LET pop(i) == Population(s.signals, Reference(s, e, 0), Cfg.peer_levels[i], name, e)
        enough == {i \in DOMAIN Cfg.peer_levels : Size(pop(i)) >= Cfg.min_peer_n}
    IN  IF s.signals[e][name] = None \/ enough = {} THEN [available |-> FALSE]
        ELSE Against(pop(Min(enough)), s.signals[e][name], Cfg.peer_levels[Min(enough)])

=============================================================================
