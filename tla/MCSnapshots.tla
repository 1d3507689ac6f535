----------------------------- MODULE MCSnapshots -----------------------------
(***************************************************************************)
(* A small instance of Snapshots for TLC, and linking over all small       *)
(* books of trades.                                                        *)
(***************************************************************************)
EXTENDS Snapshots

CONSTANTS t1, t2, ivan, ada

Event(trade, version, time, type, original, urn, alt) ==
    [trade |-> trade, version |-> version, time |-> time, type |-> type, original |-> original,
     urn |-> urn, alt |-> alt, instrument |-> 1, economics |-> 1, book |-> 1, desk |-> 1]

EventRow(at, e) == [table |-> "trade_events", key |-> <<e.trade, e.version>>, time |-> at, data |-> e]

AlertRow(at, id, trade) ==
    [table |-> "alerts", key |-> <<id>>, time |-> at,
     data |-> [alert |-> id, trade |-> trade, time |-> at, version |-> NoKey, subrule |-> 1]]

\* A trade that is cancelled, its untagged rebooking, a tagged rebooking of the
\* latter, an alert on each cancelled trade; and the first row sent once more,
\* changed in place.
First == {EventRow(1, Event(1, 1, 1, "NEW", NoKey, NoKey, NoKey)),
          EventRow(2, Event(1, 2, 2, "CANCEL", NoKey, NoKey, NoKey)), AlertRow(1, 1, 1)}
Second == {EventRow(2, Event(2, 1, 3, "NEW", NoKey, NoKey, NoKey)),
           EventRow(2, Event(3, 1, 4, "NEW", 2, NoKey, NoKey)), AlertRow(2, 2, 4)}
Corrected == {EventRow(1, Event(1, 1, 0, "NEW", NoKey, NoKey, NoKey))}

SmallBatches == {Second, Corrected}

\* The other tables are read the same way; nothing below depends on them.
ThreeTables == <<"trade_events", "alerts", "outcomes">>

Symmetry == Permutations(Threads)

SmallProposals == {[a |-> 1, b |-> 2, at |-> 2, status |-> "VERIFIED"]}

-----------------------------------------------------------------------------
(* Linking, on every book of three trades with these times and references. *)

SomeTrade(t, time, original, urn, alt, instrument) ==
    [Event(t, 1, time, "NEW", original, urn, alt) EXCEPT !.instrument = instrument]

SmallBooks ==
    {{SomeTrade(1, 1, NoKey, x, NoKey, 1), SomeTrade(2, t, o, x, a, i), SomeTrade(3, u, p, y, 1, 1)} :
        t \in {1, 3}, u \in {2, 4}, o \in {NoKey, 1, 9}, p \in {NoKey, 2}, i \in {1, 2},
        x \in {NoKey, 7, 9}, y \in {7, 8}, a \in {NoKey, 3}}

ASSUME LinkingIsSound ==
    \A events \in SmallBooks, confirmed \in SUBSET {<<3, 1>>, <<2, 4>>} :
        LET alerts == {[alert |-> 1, trade |-> 4, time |-> 2, version |-> NoKey, subrule |-> 1]}
            s == Linked(events, alerts, confirmed)
        IN  /\ JoinedByLinks(s)
            /\ SpanIsBounded(events, alerts, s)
            /\ InstrumentsStayApart(events, s)
            /\ LineageStands(events, alerts, confirmed)
            /\ \A pair \in Residue(events, s) : pair[2] \notin EpisodeOf(s, pair[1])

=============================================================================
