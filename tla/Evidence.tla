------------------------------- MODULE Evidence ------------------------------
(***************************************************************************)
(* The evidence functions behind the agents' tools                         *)
(* (src/asas/engine/evidence.py): what of a snapshot a view shows. A       *)
(* snapshot is frozen, so a view is a function of it.                      *)
(***************************************************************************)
EXTENDS Scoring

\* _bound: no view shows more than max_items of anything.
Bounded(seq) == SubSeq(seq, 1, Min({Len(seq), Cfg.max_items}))

\* A change of version: what it changed, how late it came.
VersionDiff(vs, i) ==
    LET old == vs[i - 1]
        new == vs[i]
        open == new.type # "CANCEL"
    IN  [type |-> new.type, to |-> i,
         price_change |-> IF open /\ Comparable(old.price, new.price)
                          THEN PctChange(old.price, new.price) ELSE None,
         economics_changed |-> (open /\ old.qty # new.qty) \/ old.side # new.side
                               \/ old.instrument # new.instrument,
         after_booking |-> new.at - vs[1].at,
         to_period_end |-> ToPeriodEnd(new.at),
         crosses_period_end |-> Period(new.at) # Period(old.at),
         restores_original |->
             /\ new.type = "AMEND" /\ Comparable(vs[1].price, new.price)
             /\ old.price # vs[1].price
             /\ PctChange(vs[1].price, new.price) <= Cfg.round_trip_tolerance_pct]

CompareVersions(s, t) ==
    LET vs == s.trades[t]
    IN  Bounded([i \in 1..(Len(vs) - 1) |-> VersionDiff(vs, i + 1)])

TradeHistory(s, t) == Bounded(s.trades[t])

\* All versions, those recorded later too.
EventSequence(s, e) == Bounded(InOrder(Versions(s, e), Earlier))

CompareTrades(s, a, b) ==
    LET vs == s.trades[a]
        cancels == {i \in DOMAIN vs : vs[i].type = "CANCEL"}
        live == {i \in DOMAIN vs : vs[i].type # "CANCEL"}
        last == IF live # {} THEN vs[Max(live)] ELSE vs[1]
        first == s.trades[b][1]
        diff(f) == IF Comparable(last[f], first[f]) THEN PctChange(last[f], first[f]) ELSE None
    IN  [a_cancelled |-> cancels # {}, same_instrument |-> last.instrument = first.instrument,
         same_book |-> last.book = first.book, same_side |-> last.side = first.side,
         qty_diff |-> diff("qty"), price_diff |-> diff("price"),
         after_cancel |-> IF cancels = {} THEN None ELSE first.at - vs[Min(cancels)].at,
         b_has_original |-> \E i \in DOMAIN s.trades[b] : s.trades[b][i].original # None]

\* Curated outcomes of earlier episodes with this pattern; raw ones are ignored.
PriorOutcomes(s, e) ==
    LET before == {o \in DOMAIN s.episodes :
                       /\ End(s, o) >= Start(s, e) - Cfg.context_lookback /\ End(s, o) < Start(s, e)
                       /\ s.signals[o].book = s.signals[e].book
                       /\ s.signals[o].sequence_signature = s.signals[e].sequence_signature}
        alerts == UNION {{a.id : a \in s.episodes[o].alerts} : o \in before}
        judged(label) == {o \in s.outcomes :
                              /\ o.alert \in alerts /\ o.decided < s.asOf
                              /\ o.quality = "CURATED" /\ (o.label = "ESCALATED") = label}
    IN  [escalated |-> Cardinality(judged(TRUE)), cleared |-> Cardinality(judged(FALSE))]

\* Pairs that linking left open and that touch this episode.
UnresolvedPairs(s, e) ==
    Bounded(SelectSeq(s.unresolved, LAMBDA p : p.a \in s.episodes[e].trades
                                               \/ p.b \in s.episodes[e].trades))

VerifiedLinks(s) == {<<p.a, p.b>> : p \in {q \in s.proposals : q.status # "REJECTED"}}

\* ESCALATED if any curated outcome of the episode is.
CuratedLabel(s, e) ==
    LET labels == {o.label : o \in {x \in s.outcomes : /\ x.quality = "CURATED"
                                       /\ \E a \in s.episodes[e].alerts : a.id = x.alert}}
    IN  IF labels = {} THEN None ELSE IF "ESCALATED" \in labels THEN "ESCALATED" ELSE "CLEARED"

=============================================================================
