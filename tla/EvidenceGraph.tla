---------------------------- MODULE EvidenceGraph ----------------------------
(***************************************************************************)
(* build_graph() and neighborhood() (src/asas/engine/graph.py): what is    *)
(* known of trades, alerts, rules and outcomes as nodes and typed edges,   *)
(* and the part of it an agent may look at. A node is <<kind, id>>, an     *)
(* edge <<source, target, kind, status>>.                                  *)
(***************************************************************************)
EXTENDS Linking

Edge(src, dst, kind) == <<src, dst, kind, "CANONICAL">>

\* Trades with their versions, books, desks and instruments.
TradeNodes(events) ==
    (UNION {{<<"trade", e.trade>>, <<"version", <<e.trade, e.version>>>>} : e \in events})
    \cup UNION {LET f == History(events, t)[1]
                IN  {<<"book", f.book>>, <<"desk", f.desk>>, <<"instrument", f.instrument>>} :
                t \in ByTrade(events)}

TradeEdges(events) ==
    {Edge(<<"version", <<e.trade, e.version>>>>, <<"trade", e.trade>>, "VERSION_OF") : e \in events}
    \cup UNION {LET f == History(events, t)[1]
                IN  {Edge(<<"trade", t>>, <<"book", f.book>>, "BOOKED_IN"),
                     Edge(<<"book", f.book>>, <<"desk", f.desk>>, "PART_OF"),
                     Edge(<<"trade", t>>, <<"instrument", f.instrument>>, "TRADES")} :
                t \in ByTrade(events)}

EpisodeEdges(events, s) ==
    {Edge(<<"trade", t>>, <<"episode", EpisodeOf(s, t)>>, "MEMBER_OF") : t \in ByTrade(events)}
    \cup {Edge(<<"trade", l.src>>, <<"trade", l.dst>>, l.kind) : l \in ToSet(s.accepted)}
    \cup {<<<<"trade", r[1].src>>, <<"trade", r[1].dst>>, r[1].kind, "REJECTED">> : r \in s.rejected}

\* An alert points at the version it names, else at its trade, if it is known.
Target(events, a) ==
    IF a.version # NoKey /\ a.trade \in ByTrade(events)
    THEN <<"version", <<a.trade, a.version>>>> ELSE <<"trade", a.trade>>

AlertEdges(events, alerts) ==
    {Edge(<<"alert", a.alert>>, Target(events, a), "ALERT_ON") :
        a \in {x \in alerts : Target(events, x) \in TradeNodes(events)}}
    \cup {Edge(<<"alert", a.alert>>, <<"subrule", a.subrule>>, "FIRED_BY") : a \in alerts}

\* Outcomes of alerts nobody has seen yet are left out.
Judged(alerts, outcomes) == {o \in outcomes : \E a \in alerts : a.alert = o.alert}

OutcomeEdges(alerts, outcomes) ==
    {Edge(<<"outcome", o>>, <<"alert", o.alert>>, "OUTCOME_OF") : o \in Judged(alerts, outcomes)}

\* Mutant: a proposed link is drawn whether its trades are known or not.
AllProposals(events, proposals) ==
    {<<<<"trade", p.b>>, <<"trade", p.a>>, "AGENT_LINK", p.status>> : p \in proposals}

ProposalEdges(events, proposals) ==
    {<<<<"trade", p.b>>, <<"trade", p.a>>, "AGENT_LINK", p.status>> :
        p \in {x \in proposals : {x.a, x.b} \subseteq ByTrade(events)}}

\* rules: the subrules of the policy; s: the episodes; proposals: all links
\* agents have proposed, whatever became of them.
BuildGraph(rules, events, alerts, outcomes, s, proposals) ==
    [node |-> TradeNodes(events)
              \cup {<<"rule", r>> : r \in rules} \cup {<<"subrule", r>> : r \in rules}
              \cup {<<"episode", e>> : e \in Episodes(s)}
              \cup {<<"alert", a.alert>> : a \in alerts}
              \cup {<<"subrule", a.subrule>> : a \in alerts}
              \cup {<<"outcome", o>> : o \in Judged(alerts, outcomes)},
     edge |-> TradeEdges(events) \cup EpisodeEdges(events, s)
              \cup {Edge(<<"subrule", r>>, <<"rule", r>>, "SUBRULE_OF") : r \in rules}
              \cup AlertEdges(events, alerts) \cup OutcomeEdges(alerts, outcomes)
              \cup ProposalEdges(events, proposals)]

-----------------------------------------------------------------------------
(* neighborhood(): breadth first, to a depth, up to a number of nodes.     *)

Ends(e) == {e[1], e[2]}

\* The elements of S one by one; some order of the edges of a node is as good
\* as another.
Listed(S) ==
    LET left[n \in 0..Cardinality(S)] ==
            IF n = 0 THEN S ELSE left[n - 1] \ {CHOOSE x \in left[n - 1] : TRUE}
    IN  [n \in 1..Cardinality(S) |-> CHOOSE x \in left[n - 1] : TRUE]

\* One turn of the loop: of the nodes around the i-th node found, those are
\* found now for which there is room.
Visit(g, depth, limit, q, i) ==
    LET here == q.found[i]
        around == {e \in g.edge : here.node \in Ends(e)}
        others == Listed((UNION {Ends(e) : e \in around}) \ {q.found[j].node : j \in DOMAIN q.found})
        room == Min({limit - Len(q.found), Len(others)})
    IN  IF i > Len(q.found) \/ here.depth >= depth THEN q
        ELSE [found |-> q.found \o [k \in 1..room |-> [node |-> others[k], depth |-> here.depth + 1]],
              kept |-> q.kept \cup around,
              truncated |-> q.truncated \/ room < Len(others)]

\* What has been found after some turns.
Walk(g, root, depth, limit, turns) ==
    LET after[n \in 0..turns] ==
            IF n = 0 THEN [found |-> <<[node |-> root, depth |-> 0]>>, kept |-> {}, truncated |-> FALSE]
            ELSE Visit(g, depth, limit, after[n - 1], n)
    IN  after[turns]

Neighborhood(g, root, depth, limit) ==
    LET q == Walk(g, root, depth, limit, limit)
        seen == {q.found[j].node : j \in DOMAIN q.found}
    IN  IF root \notin g.node THEN [node |-> {}, edge |-> {}, truncated |-> FALSE]
        ELSE [node |-> seen, edge |-> {e \in q.kept : Ends(e) \subseteq seen},
              truncated |-> q.truncated]

\* No edge leads to something that is not in the graph: neighborhood() would
\* raise on it.
IsClosed(g) == \A e \in g.edge : Ends(e) \subseteq g.node

\* The nodes that share an edge with one of these.
Around(g, nodes) == UNION {Ends(e) : e \in {x \in g.edge : Ends(x) \cap nodes # {}}}

\* The reference: all nodes at most depth edges away.
Within(g, root, depth) ==
    LET near[d \in 0..depth] == IF d = 0 THEN {root} ELSE near[d - 1] \cup Around(g, near[d - 1])
    IN  near[depth]

\* What an agent is shown is near, is not more than it may see, and it is told
\* whenever that is not all.
ShowsWhatIsNear(g, root, depth, limit) ==
    LET n == Neighborhood(g, root, depth, limit)
    IN  /\ n.node \subseteq Within(g, root, depth)
        /\ Cardinality(n.node) <= limit
        /\ ~n.truncated <=> n.node = Within(g, root, depth)

=============================================================================
