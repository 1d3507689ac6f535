------------------------------- MODULE Linking -------------------------------
(***************************************************************************)
(* build_episodes() (src/asas/engine/linking.py): trades that belong to    *)
(* one story become one episode. Strong lineage first, then the links a    *)
(* human confirmed, then shared keys; every join after the first stage is  *)
(* guarded. Pairs that look like an untagged cancel and rebook are left    *)
(* for the investigator.                                                   *)
(*                                                                         *)
(* Trades, keys and times are numbers: only their order and their          *)
(* differences are looked at. An alternate id may be the id of a trade.    *)
(***************************************************************************)
EXTENDS Integers, Sequences, FiniteSets, SequencesExt, FiniteSetsExt

CONSTANTS
    MaxSpan,        \* linking.max_span_hours
    MediumGap,      \* linking.medium_max_gap_hours
    MaxFanout,      \* linking.max_key_fanout
    RebookWindow,   \* linking.rebook_window_hours
    MaxCandidates,  \* linking.residue_max_candidates
    Degenerate,     \* the keys that mean nothing ("N/A", "TBC", ...)
    NoKey           \* a field that is not filled

LinkingAssumption ==
    /\ {MaxSpan, MediumGap, MaxFanout, RebookWindow, MaxCandidates} \subseteq Nat
    /\ Degenerate \subseteq Nat /\ NoKey \notin Nat

EventTypes == {"NEW", "AMEND", "CANCEL"}

\* The elements of S, first to last.
InOrder(S, Before(_, _)) ==
    [i \in 1..Cardinality(S) |-> CHOOSE x \in S : Cardinality({y \in S : Before(y, x)}) = i - 1]

-----------------------------------------------------------------------------
(* What is known of a trade. *)

\* The versions of a trade, in order.
History(events, t) ==
    SetToSortSeq({e \in events : e.trade = t},
                 LAMBDA a, b : a.version < b.version \/ (a.version = b.version /\ a.time < b.time))

ByTrade(events) == {e.trade : e \in events}

TradeIds(events, alerts) == ByTrade(events) \cup {a.trade : a \in alerts}

\* A trade known only by its alerts has their times, and no instrument.
Times(events, alerts, t) ==
    IF t \in ByTrade(events) THEN {e.time : e \in {x \in events : x.trade = t}}
    ELSE {a.time : a \in {x \in alerts : x.trade = t}}

LifecycleIssues(events, t) ==
    LET h == History(events, t)
        cancelled == {i \in DOMAIN h : h[i].type = "CANCEL"}
    IN  IF h = << >> THEN {"NO_LIFECYCLE"}
        ELSE {x \in {"FIRST_EVENT_NOT_NEW", "VERSION_GAP", "EVENTS_AFTER_CANCEL"} :
                \/ x = "FIRST_EVENT_NOT_NEW" /\ h[1].type # "NEW"
                \/ x = "VERSION_GAP" /\ \E i \in DOMAIN h : h[i].version # h[1].version + i - 1
                \/ x = "EVENTS_AFTER_CANCEL" /\ cancelled # {} /\ Min(cancelled) # Len(h)}

\* The lineage a trade states: the first of its versions that states one.
Original(events, t) ==
    LET stated == SelectSeq(History(events, t), LAMBDA e : e.original # NoKey)
    IN  IF stated = << >> THEN NoKey ELSE stated[1].original

Link(src, dst, kind, tier) == [src |-> src, dst |-> dst, kind |-> kind, tier |-> tier]

-----------------------------------------------------------------------------
(* The union of trades into episodes, link by link.                        *)

Unlinked(events, alerts) ==
    LET ids == TradeIds(events, alerts)
    IN  [root |-> [t \in ids |-> t],
         lo |-> [t \in ids |-> Min(Times(events, alerts, t))],
         hi |-> [t \in ids |-> Max(Times(events, alerts, t))],
         instruments |-> [t \in ids |-> IF t \in ByTrade(events)
                                        THEN {History(events, t)[1].instrument} ELSE {}],
         accepted |-> << >>, rejected |-> {}, flags |-> {}]

\* attempt(): a link inside an episode is kept; one between two must keep the
\* span of both together and, unless strong, their instruments the same.
Attempt(s, link) ==
    LET a == s.root[link.src]
        b == s.root[link.dst]
        root == Min({a, b})
        lo == Min({s.lo[a], s.lo[b]})
        hi == Max({s.hi[a], s.hi[b]})
        reason == IF hi - lo > MaxSpan THEN "OVER_SPAN"
                  ELSE IF link.tier # "S" /\ s.instruments[a] # s.instruments[b]
                  THEN "CROSS_INSTRUMENT" ELSE ""
    IN  IF a = b THEN [s EXCEPT !.accepted = Append(@, link)]
        ELSE IF reason # ""
        THEN [s EXCEPT !.rejected = @ \cup {<<link, reason>>},
                       !.flags = @ \cup {<<link.src, reason>>, <<link.dst, reason>>}]
        ELSE [s EXCEPT !.accepted = Append(@, link),
                       !.root = [t \in DOMAIN @ |-> IF @[t] \in {a, b} THEN root ELSE @[t]],
                       !.lo[root] = lo, !.hi[root] = hi,
                       !.instruments[root] = s.instruments[a] \cup s.instruments[b]]

\* Links, one after the other.
AttemptAll(s, links) ==
    LET after[n \in 0..Len(links)] == IF n = 0 THEN s ELSE Attempt(after[n - 1], links[n])
    IN  after[Len(links)]

Flagged(s, fs) == [s EXCEPT !.flags = @ \cup fs]

-----------------------------------------------------------------------------
(* Stage 1: strong lineage; then what humans confirmed.                    *)

Lineage(events, s) ==
    LET stated == {t \in ByTrade(events) : Original(events, t) \notin {NoKey, t}}
        degenerate == {t \in stated : Original(events, t) \in Degenerate}
        strong == {t \in stated \ degenerate : Original(events, t) \in ByTrade(events)}
        order == InOrder(strong, <)
        links == [i \in DOMAIN order |->
                    Link(order[i], Original(events, order[i]), "REBOOK_OF", "S")]
    IN  AttemptAll(Flagged(s, (degenerate \X {"DEGENERATE_ORIGINAL_TRADE_ID"})
                              \cup ((stated \ (degenerate \cup strong))
                                      \X {"DANGLING_ORIGINAL_TRADE_ID"})), links)

PairBefore(a, b) == a[1] < b[1] \/ (a[1] = b[1] /\ a[2] < b[2])

\* confirmed: pairs <<trade_b, trade_a>> of CANONICAL agent links.
Overlay(confirmed, s) ==
    LET known == {c \in confirmed : {c[1], c[2]} \subseteq DOMAIN s.root}
        order == InOrder(known, PairBefore)
    IN  AttemptAll(s, [i \in DOMAIN order |-> Link(order[i][1], order[i][2], "AGENT_LINK", "A")])

-----------------------------------------------------------------------------
(* Stage 2: shared keys, unless a key is shared by too many.               *)

KeyOf(name, e) == IF name = "URN_REF" THEN e.urn ELSE e.alt

\* Who shares key v: an alternate id also names the trade whose id it is.
Members(events, name, v) ==
    LET sharing == {t \in ByTrade(events) : KeyOf(name, History(events, t)[1]) = v}
    IN  IF sharing # {} /\ name = "ALTERNATE_TRADE_ID" /\ v \in ByTrade(events)
        THEN sharing \cup {v} ELSE sharing

MediumOf(events, alerts, name, s, v) ==
    LET members == Members(events, name, v)
        anchor == Min(members)
        first(t) == Min(Times(events, alerts, t))
        near == {t \in members \ {anchor} :
                   first(t) - first(anchor) \in (0 - MediumGap)..MediumGap}
        link(t) == Link(t, anchor, name, "M")
        far == {<<link(t), "OVER_GAP">> : t \in members \ (near \cup {anchor})}
        order == InOrder(near, <)
    IN  IF Cardinality(members) > MaxFanout
        THEN Flagged(s, members \X {"HUB_DEMOTED"})
        ELSE AttemptAll([s EXCEPT !.rejected = @ \cup far],
                        [i \in DOMAIN order |-> link(order[i])])

SharedKey(events, alerts, name, s) ==
    LET keys == {KeyOf(name, History(events, t)[1]) : t \in ByTrade(events)} \ {NoKey}
        useless == {t \in ByTrade(events) : KeyOf(name, History(events, t)[1]) \in Degenerate}
        order == InOrder(keys \ Degenerate, <)
        after[n \in 0..Len(order)] ==
            IF n = 0 THEN Flagged(s, useless \X {"DEGENERATE_KEY"})
                     ELSE MediumOf(events, alerts, name, after[n - 1], order[n])
    IN  after[Len(order)]

\* Mutant: what humans confirmed is joined first.
LinkedOverlayFirst(events, alerts, confirmed) ==
    LET lineage == Lineage(events, Overlay(confirmed, Unlinked(events, alerts)))
        urn == SharedKey(events, alerts, "URN_REF", lineage)
    IN  SharedKey(events, alerts, "ALTERNATE_TRADE_ID", urn)

Linked(events, alerts, confirmed) ==
    LET lineage == Lineage(events, Unlinked(events, alerts))
        urn == SharedKey(events, alerts, "URN_REF", Overlay(confirmed, lineage))
    IN  SharedKey(events, alerts, "ALTERNATE_TRADE_ID", urn)

-----------------------------------------------------------------------------
(* Episodes and residue. *)

EpisodeOf(s, t) == {u \in DOMAIN s.root : s.root[u] = s.root[t]}

Episodes(s) == {EpisodeOf(s, t) : t \in DOMAIN s.root}

Quality(events, s, episode) ==
    UNION {LifecycleIssues(events, t) \cup {f[2] : f \in {x \in s.flags : x[1] = t}} :
            t \in episode}

\* Cancelled trades without a lineage link, and the like trades of other
\* episodes that were booked within the window after: pairs for the agent.
Residue(events, s) ==
    LET lineage == {l \in ToSet(s.accepted) : l.kind = "REBOOK_OF"}
        rebooked == {l.src : l \in lineage} \cup {l.dst : l \in lineage}
        isCancel(e) == e.type = "CANCEL"
        cancelOf(t) == SelectSeq(History(events, t), isCancel)
        lastOf(t) == LET open == SelectSeq(History(events, t), LAMBDA e : e.type # "CANCEL")
                     IN  IF Len(History(events, t)) > 1 THEN Last(open) ELSE History(events, t)[1]
        starts == {t \in ByTrade(events) :
                     History(events, t)[1].type = "NEW" /\ Original(events, t) = NoKey}
        cancelled == {t \in ByTrade(events) \ rebooked : cancelOf(t) # << >>}
        gap(t, u) == History(events, u)[1].time - cancelOf(t)[1].time
        like(t) == {u \in starts \ EpisodeOf(s, t) :
                      /\ gap(t, u) \in 0..RebookWindow
                      /\ History(events, u)[1].instrument = lastOf(t).instrument
                      /\ History(events, u)[1].economics = lastOf(t).economics}
        best(t) == {u \in like(t) :
                      Cardinality({v \in like(t) : gap(t, v) < gap(t, u)
                                                   \/ (gap(t, v) = gap(t, u) /\ v < u)})
                         < MaxCandidates}
    IN  UNION {{<<t, u>> : u \in best(t)} : t \in cancelled}

-----------------------------------------------------------------------------
(* What any order of rows, keys and confirmations must leave true.         *)

\* No link that was accepted leads from X to a trade outside.
NoLinkLeaves(s, X) == \A l \in ToSet(s.accepted) : l.src \in X <=> l.dst \in X

\* Two trades share an episode exactly when accepted links join them: when no
\* set of trades that no link leaves holds one without the other.
JoinedByLinks(s) ==
    \A t, u \in DOMAIN s.root :
        s.root[t] = s.root[u] <=>
            \A X \in SUBSET DOMAIN s.root : NoLinkLeaves(s, X) => (t \in X <=> u \in X)

\* No chain of links stretches an episode: however many links were accepted
\* one after the other, the episode as a whole stays within the span.
SpanIsBounded(events, alerts, s) ==
    \A e \in Episodes(s) :
        Cardinality(e) > 1 =>
            LET times == UNION {Times(events, alerts, t) : t \in e}
            IN  Max(times) - Min(times) <= MaxSpan

\* Only lineage brings two instruments into one episode.
InstrumentsStayApart(events, s) ==
    \A e \in Episodes(s) :
        (\A l \in ToSet(s.accepted) : l.tier = "S" => l.src \notin e)
        => \A t, u \in e \cap ByTrade(events) :
              History(events, t)[1].instrument = History(events, u)[1].instrument

\* Neither a confirmation nor a shared key can displace lineage: a strong link
\* is kept with them if it is kept without them.
LineageStands(events, alerts, confirmed) ==
    LET alone == Lineage(events, Unlinked(events, alerts))
        all == Linked(events, alerts, confirmed)
        strong(s) == {l \in ToSet(s.accepted) : l.tier = "S"}
    IN  strong(all) = strong(alone)

=============================================================================
