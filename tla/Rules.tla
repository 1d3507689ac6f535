-------------------------------- MODULE Rules --------------------------------
(***************************************************************************)
(* The rule language (src/asas/engine/rules.py) and the replay of rules    *)
(* on history (src/asas/evolution/replay.py). A condition compares a       *)
(* signal with a value written in it or with a parameter of the rule; a    *)
(* written value says what it is and how it is spelt ("40" is "40.0"). A   *)
(* point of history has the signals, the curated label and the assessment  *)
(* of an episode.                                                          *)
(***************************************************************************)
EXTENDS Signals

NumericSignals ==
    {"n_trades", "n_events", "n_amends", "n_cancels", "n_alerts", "n_rules_fired",
     "max_price_change_pct", "max_qty_change_pct", "notional_usd_max",
     "booking_latency_hours_max", "hours_to_period_end_min", "hours_first_amend",
     "rebook_price_change_pct", "book_signature_recurrence", "signature_rarity_pct"}
LabelSignals == {"sequence_signature", "desk", "book", "desk_product"}

Equality == {"eq", "ne"}
Order == {"gt", "ge", "lt", "le"}

\* What a condition compares with: a parameter of the rule, or its own value.
Target(rule, c) == IF c.param = None THEN c.value.is ELSE rule.parameters[c.param].is

\* validate_rule: what a condition on a signal may ask. A number written as
\* anything else is None.
ValidCondition(rule, c) ==
    /\ (c.value = None) # (c.param = None)
    /\ c.param # None => c.param \in DOMAIN rule.parameters
    /\ \/ c.signal \in NumericSignals /\ c.op \in Equality \cup Order /\ Target(rule, c) # None
       \/ c.signal \in FlagSignals /\ c.op \in Equality /\ Target(rule, c) \in BOOLEAN
       \/ c.signal \in LabelSignals /\ c.op \in Equality \cup {"in"}

ValidRule(rule) ==
    /\ Len(rule.conditions) \in 1..Cfg.max_conditions
    /\ rule.severity \in Cfg.severities
    /\ \A i \in DOMAIN rule.conditions : ValidCondition(rule, rule.conditions[i])

\* A condition on an absent signal does not hold, whatever it asks.
Holds(rule, c, sig) ==
    LET x == sig[c.signal]
        y == Target(rule, c)
    IN  /\ x # None
        /\ CASE c.op = "eq" -> x = y
             [] c.op = "ne" -> x # y
             [] c.op = "gt" -> x > y
             [] c.op = "ge" -> x >= y
             [] c.op = "lt" -> x < y
             [] c.op = "le" -> x <= y
             [] OTHER -> x \in y

\* evaluate_rule, evaluate_ruleset.
Fires(rule, sig) == \A i \in DOMAIN rule.conditions : Holds(rule, rule.conditions[i], sig)
Detected(rules, sig) == \E r \in rules : Fires(r, sig)

-----------------------------------------------------------------------------
(* Replay. *)

Escalated(points) == {p \in points : p.label = "ESCALATED"}
Cleared(points) == {p \in points : p.label = "CLEARED"}

\* The labelled precision in percent; None when nothing labelled fires.
Precision(fired) ==
    LET tp == Cardinality(Escalated(fired))
        fp == Cardinality(Cleared(fired))
    IN  IF tp + fp = 0 THEN None ELSE (100 * tp) \div (tp + fp)

Metrics(points, rules) ==
    LET fired == {p \in points : Detected(rules, p.signals)}
        missed == Escalated(points) \ fired
        tp == Cardinality(Escalated(fired))
    IN  [fires |-> Cardinality(fired), tp |-> tp, fn |-> Cardinality(missed),
         precision |-> Precision(fired),
         recall |-> IF tp + Cardinality(missed) = 0 THEN None
                    ELSE (100 * tp) \div (tp + Cardinality(missed))]

\* A candidate replaces the rule of the same id.
Combined(rule, rules) == {r \in rules : r.id # rule.id} \cup {rule}

ReplayDetection(rule, rules, points) ==
    LET before == {p \in points : Detected(rules, p.signals)}
        after == {p \in points : Detected(Combined(rule, rules), p.signals)}
    IN  [added |-> after \ before, lost |-> before \ after,
         added_positive |-> Cardinality(Escalated(after \ before)),
         lost_positive |-> Cardinality(Escalated(before \ after)),
         growth |-> IF before = {} THEN None
                    ELSE (100 * (Cardinality(after) - Cardinality(before))) \div Cardinality(before)]

BulkMembers(scope, points) ==
    {p \in points : /\ p.class = "BENIGN" /\ p.type = scope.type
                    /\ scope.desk \in {"*", p.desk}}

ReplayBulk(scope, points) ==
    LET members == BulkMembers(scope, points)
    IN  [would_be_bulk |-> Cardinality(members), cleared |-> Cardinality(Cleared(members)),
         escalated |-> Cardinality(Escalated(members)),
         unlabelled |-> Cardinality({p \in members : p.label = None})]

=============================================================================
