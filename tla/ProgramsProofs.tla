---------------------------- MODULE ProgramsProofs ---------------------------
(***************************************************************************)
(* Proofs about the agent programs, for any data, any thresholds, any      *)
(* principals and any steps of a model.                                    *)
(***************************************************************************)
EXTENDS Programs, Induction, FiniteSetTheorems, SequenceTheorems, TLAPS

-----------------------------------------------------------------------------
(* Orders. *)

Preceding(S, R, x) == {y \in S : <<y, x>> \in R}

\* The elements fewer than n others precede.
Firsts(S, R, n) == {x \in S : Cardinality(Preceding(S, R, x)) < n}

Orders(R, S) ==
    /\ \A x \in S : <<x, x>> \notin R
    /\ \A x \in S, y \in S : x = y \/ <<x, y>> \in R \/ <<y, x>> \in R
    /\ \A x \in S, y \in S, z \in S : <<x, y>> \in R /\ <<y, z>> \in R => <<x, z>> \in R

\* In a finite set under a total order each place is taken by one element.
LEMMA RanksAreTaken ==
    ASSUME NEW S, IsFiniteSet(S), NEW R, Orders(R, S)
    PROVE  /\ Cardinality(S) \in Nat
           /\ \A x \in S : Cardinality(Preceding(S, R, x)) \in 0..(Cardinality(S) - 1)
           /\ \A i \in 0..(Cardinality(S) - 1) :
                \E x \in S : Cardinality(Preceding(S, R, x)) = i
           /\ \A x \in S, y \in S :
                Cardinality(Preceding(S, R, x)) = Cardinality(Preceding(S, R, y)) => x = y
  <1> DEFINE size == Cardinality(S)
             rank == [x \in S |-> Cardinality(Preceding(S, R, x))]
             ranks == 0..(size - 1)
  <1> USE DEF Orders
  <1>1. size \in Nat
    BY FS_CardinalityType
  <1>2. ASSUME NEW x \in S
        PROVE  /\ Preceding(S, R, x) \subseteq S \ {x} /\ IsFiniteSet(Preceding(S, R, x))
               /\ Cardinality(Preceding(S, R, x)) \in ranks
    <2>1. Preceding(S, R, x) \subseteq S \ {x}
      BY DEF Preceding
    <2>2. IsFiniteSet(S \ {x}) /\ Cardinality(S \ {x}) = size - 1
      BY FS_RemoveElement
    <2>3. IsFiniteSet(Preceding(S, R, x)) /\ Cardinality(Preceding(S, R, x)) <= size - 1
      BY <2>1, <2>2, FS_Subset
    <2>4. Cardinality(Preceding(S, R, x)) \in Nat
      BY <2>3, FS_CardinalityType
    <2> QED BY <1>1, <2>1, <2>3, <2>4
  <1>3. ASSUME NEW x \in S, NEW y \in S, <<x, y>> \in R
        PROVE  Cardinality(Preceding(S, R, x)) # Cardinality(Preceding(S, R, y))
    <2>1. Preceding(S, R, x) \subseteq Preceding(S, R, y) /\ x \in Preceding(S, R, y)
          /\ x \notin Preceding(S, R, x)
      BY <1>3 DEF Preceding
    <2> QED BY <1>2, <2>1, FS_Subset
  <1>4. \A x \in S, y \in S : rank[x] = rank[y] => x = y
    BY <1>3
  <1>5. rank \in Injection(S, ranks)
    BY <1>2, <1>4 DEF Injection, IsInjective
  <1>6. IsFiniteSet(ranks) /\ Cardinality(ranks) = size
    <2> HIDE DEF size
    <2>1. 0 \in Int /\ size - 1 \in Int
      BY <1>1
    <2>2. /\ IsFiniteSet(0..(size - 1))
          /\ Cardinality(0..(size - 1)) = IF 0 > size - 1 THEN 0 ELSE size - 1 - 0 + 1
      BY <2>1, FS_Interval
    <2> QED BY <1>1, <2>2
  <1>7. rank \in Surjection(S, ranks)
    <2> HIDE DEF rank, ranks
    <2> QED BY <1>5, <1>6, FS_Injection
  <1>8. \A i \in ranks : \E x \in S : Cardinality(Preceding(S, R, x)) = i
    BY <1>7 DEF Surjection
  <1> QED BY <1>1, <1>2, <1>4, <1>8

PairOrder(S) == {q \in S \X S : PairBefore(q[1], q[2])}

\* InOrder lists a set of pairs of numbers whole, and nothing else.
LEMMA PairsInOrder ==
    ASSUME NEW S, IsFiniteSet(S), S \subseteq Int \X Int
    PROVE  LET seq == InOrder(S, PairBefore)
           IN  /\ {seq[i] : i \in DOMAIN seq} = S
               /\ seq = << >> <=> S = {}
  <1> DEFINE R == PairOrder(S)
             seq == InOrder(S, PairBefore)
             size == Cardinality(S)
  <1>1. \A x \in S, y \in S : <<x, y>> \in R <=> PairBefore(x, y)
    BY DEF PairOrder
  <1>2. \A x \in S, y \in S :
          /\ PairBefore(x, y) <=> (x[1] < y[1] \/ (x[1] = y[1] /\ x[2] < y[2]))
          /\ x[1] \in Int /\ x[2] \in Int /\ y[1] \in Int /\ y[2] \in Int
          /\ x[1] = y[1] /\ x[2] = y[2] => x = y
    BY DEF PairBefore
  <1>3. Orders(R, S)
    <2> HIDE DEF R
    <2> QED BY <1>1, <1>2 DEF Orders
  <1> HIDE DEF R
  <1>4. /\ size \in Nat
        /\ \A x \in S : Cardinality(Preceding(S, R, x)) \in 0..(size - 1)
        /\ \A i \in 0..(size - 1) : \E x \in S : Cardinality(Preceding(S, R, x)) = i
        /\ \A x \in S, y \in S :
             Cardinality(Preceding(S, R, x)) = Cardinality(Preceding(S, R, y)) => x = y
    BY <1>3, RanksAreTaken
  <1>5. \A x \in S : {y \in S : PairBefore(y, x)} = Preceding(S, R, x)
    BY <1>1 DEF Preceding
  <1>6. seq = [i \in 1..size |-> CHOOSE x \in S : Cardinality({y \in S : PairBefore(y, x)}) = i - 1]
    BY DEF InOrder
  <1>7. DOMAIN seq = 1..size
    BY <1>6
  <1>8. \A i \in 1..size : seq[i] \in S /\ Cardinality(Preceding(S, R, seq[i])) = i - 1
    <2> TAKE i \in 1..size
    <2>1. PICK x \in S : Cardinality(Preceding(S, R, x)) = i - 1
      BY <1>4
    <2>2. Cardinality({y \in S : PairBefore(y, x)}) = i - 1
      BY <2>1, <1>5
    <2>3. seq[i] = CHOOSE z \in S : Cardinality({y \in S : PairBefore(y, z)}) = i - 1
      BY <1>6
    <2>4. seq[i] \in S /\ Cardinality({y \in S : PairBefore(y, seq[i])}) = i - 1
      BY <2>2, <2>3, Zenon
    <2> QED BY <2>4, <1>5
  <1>9. \A x \in S : \E i \in 1..size : seq[i] = x
    <2> TAKE x \in S
    <2>1. Cardinality(Preceding(S, R, x)) + 1 \in 1..size
      BY <1>4
    <2>2. seq[Cardinality(Preceding(S, R, x)) + 1] = x
      BY <1>4, <1>8, <2>1
    <2> QED BY <2>1, <2>2
  <1>10. seq = << >> <=> size = 0
    BY <1>4, <1>6
  <1>11. size = 0 <=> S = {}
    BY FS_EmptySet
  <1>12. {seq[i] : i \in DOMAIN seq} = S
    <2> HIDE DEF seq, size
    <2> QED BY <1>7, <1>8, <1>9
  <1> QED BY <1>10, <1>11, <1>12

LEMMA MaxIsIn ==
    ASSUME NEW n \in Nat, NEW S, S \subseteq 1..n, S # {}
    PROVE  Max(S) \in S
  <1> DEFINE T == {n - x : x \in S}
  <1>1. T \subseteq Nat /\ T # {}
    <2>1. \A x \in S : x \in 1..n /\ n - x \in Nat
      OBVIOUS
    <2> QED BY <2>1
  <1>2. PICK y \in T : \A z \in T : y <= z
    BY <1>1, LeastNumber
  <1>3. PICK x \in S : y = n - x
    OBVIOUS
  <1>4. \A z \in S : x >= z
    <2> TAKE z \in S
    <2>1. n - z \in T /\ x \in Int /\ z \in Int
      OBVIOUS
    <2>2. y <= n - z
      BY <1>2, <2>1
    <2> QED BY <1>3, <2>1, <2>2
  <1> QED BY <1>4, Zenon DEF Max

LEMMA MinIsIn ==
    ASSUME NEW S, S \subseteq Nat, S # {}
    PROVE  Min(S) \in S /\ \A x \in S : Min(S) <= x
  <1>1. PICK x \in S : \A z \in S : x <= z
    BY LeastNumber
  <1> QED BY <1>1, Zenon DEF Min

-----------------------------------------------------------------------------
(* What a snapshot keeps of the data. *)

LEMMA SnapshotKeeps ==
    ASSUME NEW d, {"trades", "episodes", "proposals", "rules", "bulk", "historical"} \subseteq DOMAIN d,
           NEW how
    PROVE  LET s == BuildSnapshot([d EXCEPT !.historical = how])
           IN  /\ DOMAIN s = DOMAIN d
               /\ s.trades = d.trades /\ s.episodes = d.episodes /\ s.proposals = d.proposals
               /\ s.rules = d.rules /\ s.bulk = d.bulk
  BY DEF BuildSnapshot, Scored, Profiled, Frozen, Signalled

LEMMA ContextIsData ==
    ASSUME NEW w \in DOMAIN Worlds
    PROVE  IsData(Contexts[w].snapshot)
  <1> DEFINE s == BuildSnapshot([Worlds[w] EXCEPT !.historical = FALSE])
  <1>1. IsData(Worlds[w])
    BY ProgramsAssumption
  <1>2. Contexts[w].snapshot = s
    BY DEF Contexts, ContextOf
  <1>3. /\ DOMAIN s = DOMAIN Worlds[w]
        /\ s.trades = Worlds[w].trades /\ s.episodes = Worlds[w].episodes
        /\ s.proposals = Worlds[w].proposals
    BY <1>1, SnapshotKeeps DEF IsData
  <1> HIDE DEF s
  <1>4. IsData(s)
    BY <1>1, <1>3 DEF IsData
  <1> QED BY <1>2, <1>4

-----------------------------------------------------------------------------
(* Comparing two trades. *)

LEMMA ChangeIsNumber ==
    ASSUME NEW x, NEW y, {x, y} \subseteq Int \cup {None}, Comparable(x, y)
    PROVE  PctChange(x, y) \in Int
  <1>1. x \in Int /\ x # 0 /\ y \in Int
    BY DEF Comparable
  <1>2. Abs(x) \in Nat \ {0} /\ Abs(y - x) \in Nat
    BY <1>1 DEF Abs
  <1>3. 1000 * Abs(y - x) \in Nat
    BY <1>2
  <1> QED BY <1>2, <1>3 DEF PctChange

LEMMA ComparisonIsNumber ==
    ASSUME NEW s, IsData(s), NEW a \in DOMAIN s.trades, NEW b \in DOMAIN s.trades
    PROVE  LET cmp == CompareTrades(s, a, b)
           IN  {cmp.qty_diff, cmp.price_diff, cmp.after_cancel} \subseteq Int \cup {None}
  <1> DEFINE vs == s.trades[a]
             cancels == {i \in DOMAIN vs : vs[i].type = "CANCEL"}
             live == {i \in DOMAIN vs : vs[i].type # "CANCEL"}
             last == IF live # {} THEN vs[Max(live)] ELSE vs[1]
             first == s.trades[b][1]
             diff(f) == IF Comparable(last[f], first[f]) THEN PctChange(last[f], first[f]) ELSE None
             after == IF cancels = {} THEN None ELSE first.at - vs[Min(cancels)].at
             cmp == CompareTrades(s, a, b)
  <1>1. /\ Len(vs) \in Nat /\ DOMAIN vs = 1..Len(vs) /\ 1 \in DOMAIN vs
        /\ \A i \in DOMAIN vs : IsVersion(vs[i])
        /\ 1 \in DOMAIN s.trades[b] /\ IsVersion(first)
    <2>1. \A t \in DOMAIN s.trades :
            /\ Len(s.trades[t]) \in Nat /\ DOMAIN s.trades[t] = 1..Len(s.trades[t])
            /\ 1 \in DOMAIN s.trades[t] /\ \A i \in DOMAIN s.trades[t] : IsVersion(s.trades[t][i])
      <3> TAKE t \in DOMAIN s.trades
      <3> DEFINE seq == s.trades[t]
      <3>1. seq \in Seq(Range(seq)) /\ seq # << >> /\ \A i \in DOMAIN seq : IsVersion(seq[i])
        BY DEF IsData
      <3>2. Len(seq) \in Nat /\ DOMAIN seq = 1..Len(seq) /\ 1 \in DOMAIN seq
        <4> HIDE DEF seq
        <4> QED BY <3>1
      <3> QED BY <3>1, <3>2
    <2> QED BY <2>1
  <1> HIDE DEF vs, first
  <1>2. IsVersion(last)
    <2>1. live # {} => Max(live) \in live
      BY <1>1, MaxIsIn
    <2> HIDE DEF live
    <2>2. live \subseteq DOMAIN vs
      BY DEF live
    <2> QED BY <1>1, <2>1, <2>2
  <1>3. \A f \in {"qty", "price"} : diff(f) \in Int \cup {None}
    <2> HIDE DEF last
    <2>1. {last.price, last.qty, first.price, first.qty} \subseteq Int \cup {None}
      BY <1>1, <1>2 DEF IsVersion
    <2> TAKE f \in {"qty", "price"}
    <2>2. {last[f], first[f]} \subseteq Int \cup {None}
      BY <2>1
    <2> QED BY <2>2, ChangeIsNumber
  <1>4. after \in Int \cup {None}
    <2>1. cancels # {} => Min(cancels) \in cancels
      <3>1. cancels \subseteq Nat
        BY <1>1
      <3> HIDE DEF cancels
      <3> QED BY <3>1, MinIsIn
    <2> HIDE DEF cancels
    <2>2. cancels \subseteq DOMAIN vs
      BY DEF cancels
    <2> QED BY <1>1, <2>1, <2>2 DEF IsVersion
  <1>5. cmp.qty_diff = diff("qty") /\ cmp.price_diff = diff("price") /\ cmp.after_cancel = after
    BY DEF CompareTrades, vs, first
  <1> HIDE DEF diff, after, cmp
  <1>6. {cmp.qty_diff, cmp.price_diff, cmp.after_cancel} \subseteq Int \cup {None}
    BY <1>3, <1>4, <1>5
  <1> QED BY <1>6 DEF cmp

\* A comparison by which a rebooking neither differs from what it replaces nor
\* reprices it.
Alike(cmp) ==
    /\ cmp.same_instrument /\ cmp.same_side
    /\ cmp.qty_diff # None /\ ~ (cmp.qty_diff > Cfg.rebook_qty_tolerance_pct)
    /\ cmp.price_diff # None /\ ~ (cmp.price_diff > Cfg.rebook_price_tolerance_pct)
    /\ cmp.after_cancel # None /\ ~ (cmp.after_cancel > Cfg.rebook_max_hours)

LEMMA VerifiedIsAlike ==
    ASSUME NEW s, IsData(s), NEW a \in DOMAIN s.trades, NEW b \in DOMAIN s.trades,
           LikeForLike(CompareTrades(s, a, b))
    PROVE  Alike(CompareTrades(s, a, b))
  <1> DEFINE cmp == CompareTrades(s, a, b)
  <1>1. {cmp.qty_diff, cmp.price_diff, cmp.after_cancel} \subseteq Int \cup {None}
    BY ComparisonIsNumber
  <1>2. LikeForLike(cmp)
    OBVIOUS
  <1> HIDE DEF cmp
  <1>3. Alike(cmp)
    BY <1>1, <1>2, ProgramsAssumption DEF LikeForLike, Alike
  <1> QED BY <1>3 DEF cmp

-----------------------------------------------------------------------------
(* Evaluations: what has been settled stays so. *)

Verdicts == {"SUPPORTED", "CONTRADICTED", "INSUFFICIENT"}

Settles == {"SUPPORTED", "CONTRADICTED"}

\* Links that may have been verified, and those that were verified later.
AreLinks(V) == IsFiniteSet(V) /\ V \subseteq Int \X Int

Extends(s, V, W) ==
    /\ AreLinks(V) /\ AreLinks(W) /\ V \subseteq W
    /\ \A p \in W \ V : Alike(CompareTrades(s, p[1], p[2]))

PairsOf(s, e, V) ==
    {<<l.dst, l.src>> : l \in RebookLinks(s, e)}
    \cup {p \in V : p[1] \in s.episodes[e].trades \/ p[2] \in s.episodes[e].trades}

LEMMA RebookPairsAre ==
    ASSUME NEW s, IsData(s), NEW e \in DOMAIN s.episodes, NEW V, AreLinks(V)
    PROVE  /\ {RebookPairs(s, e, V)[i] : i \in DOMAIN RebookPairs(s, e, V)} = PairsOf(s, e, V)
           /\ RebookPairs(s, e, V) = << >> <=> PairsOf(s, e, V) = {}
  <1> DEFINE links == RebookLinks(s, e)
             inside == {<<l.dst, l.src>> : l \in links}
             touching == {p \in V : p[1] \in s.episodes[e].trades \/ p[2] \in s.episodes[e].trades}
  <1>1. IsFiniteSet(links) /\ \A l \in links : {l.src, l.dst} \subseteq Int
    <2>1. /\ IsFiniteSet(s.episodes[e].links) /\ links \subseteq s.episodes[e].links
          /\ \A l \in s.episodes[e].links : {l.src, l.dst} \subseteq Int
      BY DEF IsData, RebookLinks
    <2> HIDE DEF links
    <2> QED BY <2>1, FS_Subset
  <1>2. IsFiniteSet(inside) /\ inside \subseteq Int \X Int
    <2>1. \A l \in links : <<l.dst, l.src>> \in Int \X Int
      BY <1>1
    <2> DEFINE pair == [l \in links |-> <<l.dst, l.src>>]
    <2>2. pair \in Surjection(links, inside)
      BY DEF Surjection
    <2> HIDE DEF links, pair
    <2>3. IsFiniteSet(inside)
      BY <1>1, <2>2, FS_Surjection
    <2> QED BY <2>1, <2>3
  <1>3. IsFiniteSet(touching) /\ touching \subseteq Int \X Int
    <2>1. touching \subseteq V
      OBVIOUS
    <2> HIDE DEF touching
    <2> QED BY <2>1, FS_Subset DEF AreLinks
  <1>4. PairsOf(s, e, V) = inside \cup touching
    BY DEF PairsOf
  <1> HIDE DEF inside, touching
  <1>5. IsFiniteSet(PairsOf(s, e, V)) /\ PairsOf(s, e, V) \subseteq Int \X Int
    BY <1>2, <1>3, <1>4, FS_Union
  <1>6. RebookPairs(s, e, V) = InOrder(PairsOf(s, e, V), PairBefore)
    BY DEF RebookPairs, PairsOf
  <1> DEFINE seq == InOrder(PairsOf(s, e, V), PairBefore)
  <1>7. {seq[i] : i \in DOMAIN seq} = PairsOf(s, e, V) /\ (seq = << >> <=> PairsOf(s, e, V) = {})
    BY <1>5, PairsInOrder
  <1> HIDE DEF seq
  <1>8. RebookPairs(s, e, V) = seq
    BY <1>6 DEF seq
  <1> QED BY <1>7, <1>8

LEMMA VerdictIs ==
    ASSUME NEW contradicting, NEW missing
    PROVE  /\ Verdict(contradicting, missing).status \in Verdicts
           /\ Verdict(contradicting, missing).status \in Settles /\ contradicting =>
                Verdict(contradicting, missing) = Contradicted
  BY DEF Verdict, Verdicts, Settles, Supported, Contradicted, Insufficient

LEMMA NewLinksKeepCorrection ==
    ASSUME NEW s, IsData(s), NEW e \in DOMAIN s.episodes, NEW V, NEW W, Extends(s, V, W),
           RebookEval(s, e, V).status \in Settles
    PROVE  RebookEval(s, e, W) = RebookEval(s, e, V)
  <1> DEFINE cancelled == CancelledTrades(s, e)
             exceeds(x, bound) == x = None \/ x > bound
             differs(p) == LET cmp == CompareTrades(s, p[1], p[2])
                           IN  \/ ~cmp.same_instrument \/ ~cmp.same_side
                               \/ exceeds(cmp.qty_diff, Cfg.rebook_qty_tolerance_pct)
                               \/ exceeds(cmp.price_diff, Cfg.rebook_price_tolerance_pct)
                               \/ exceeds(cmp.after_cancel, Cfg.rebook_max_hours)
             contradicted(P) == \E p \in P : p[1] \in cancelled /\ differs(p)
             missing(P) == {<<"verified_rebook_link_for", t>> :
                               t \in {c \in cancelled : \A p \in P : p[1] # c}}
             before == PairsOf(s, e, V)
             after == PairsOf(s, e, W)
  <1>1. /\ RebookEval(s, e, V) = Verdict(contradicted(before), missing(before))
        /\ RebookEval(s, e, W) = Verdict(contradicted(after), missing(after))
    <2>1. /\ {RebookPairs(s, e, V)[i] : i \in DOMAIN RebookPairs(s, e, V)} = before
          /\ {RebookPairs(s, e, W)[i] : i \in DOMAIN RebookPairs(s, e, W)} = after
      BY RebookPairsAre DEF Extends
    <2> HIDE DEF before, after
    <2> QED BY <2>1, Zenon DEF RebookEval
  <1>2. before \subseteq after
    BY DEF PairsOf, Extends
  <1>3. \A p \in after \ before : ~ differs(p)
    <2>1. after \ before \subseteq W \ V
      BY DEF PairsOf
    <2>2. \A p \in W \ V : Alike(CompareTrades(s, p[1], p[2]))
      BY DEF Extends
    <2>3. \A p : Alike(CompareTrades(s, p[1], p[2])) => ~ differs(p)
      BY DEF Alike
    <2> HIDE DEF before, after, differs
    <2> QED BY <2>1, <2>2, <2>3
  <1> HIDE DEF before, after, differs, cancelled
  <1>4. contradicted(before) <=> contradicted(after)
    BY <1>2, <1>3
  <1>5. missing(before) = {} => missing(after) = {}
    BY <1>2
  <1>6. contradicted(before) \/ missing(before) = {}
    <2>1. ~ contradicted(before) /\ missing(before) # {} =>
            Verdict(contradicted(before), missing(before)).status = "INSUFFICIENT"
      BY DEF Verdict, Insufficient
    <2> HIDE DEF contradicted, missing
    <2> QED BY <1>1, <2>1 DEF Settles
  <1> HIDE DEF contradicted, missing
  <1> QED BY <1>1, <1>4, <1>5, <1>6 DEF Verdict

LEMMA NewLinksKeepReprice ==
    ASSUME NEW s, IsData(s), NEW e \in DOMAIN s.episodes, NEW V, NEW W, Extends(s, V, W),
           RepriceEval(s, e, V).status \in Settles
    PROVE  RepriceEval(s, e, W) = RepriceEval(s, e, V)
  <1> DEFINE repriced(p) == LET diff == CompareTrades(s, p[1], p[2]).price_diff
                            IN  diff # None /\ diff > Cfg.rebook_price_tolerance_pct
             before == PairsOf(s, e, V)
             after == PairsOf(s, e, W)
             verdict(P) == IF P = {} THEN Insufficient({<<"verified_rebook_link">>})
                           ELSE Verdict(\A p \in P : ~ repriced(p), {})
  <1>1. ASSUME NEW X, AreLinks(X)
        PROVE  RepriceEval(s, e, X) = verdict(PairsOf(s, e, X))
    <2> DEFINE pairs == RebookPairs(s, e, X)
               P == PairsOf(s, e, X)
    <2>1. {pairs[i] : i \in DOMAIN pairs} = P /\ (pairs = << >> <=> P = {})
      BY <1>1, RebookPairsAre
    <2>2. RepriceEval(s, e, X) = IF pairs = << >> THEN Insufficient({<<"verified_rebook_link">>})
                                 ELSE Verdict(\A i \in DOMAIN pairs : ~ repriced(pairs[i]), {})
      BY Zenon DEF RepriceEval
    <2> HIDE DEF pairs, P, repriced
    <2>3. (\A i \in DOMAIN pairs : ~ repriced(pairs[i])) <=> (\A p \in P : ~ repriced(p))
      BY <2>1
    <2>4. Verdict(\A i \in DOMAIN pairs : ~ repriced(pairs[i]), {})
            = Verdict(\A p \in P : ~ repriced(p), {})
      BY <2>3 DEF Verdict
    <2>5. RepriceEval(s, e, X) = verdict(P)
      BY <2>1, <2>2, <2>4
    <2> QED BY <2>5 DEF P
  <1>2. before \subseteq after
    BY DEF PairsOf, Extends
  <1>3. \A p \in after \ before : ~ repriced(p)
    <2>1. after \ before \subseteq W \ V
      BY DEF PairsOf
    <2>2. \A p \in W \ V : Alike(CompareTrades(s, p[1], p[2]))
      BY DEF Extends
    <2>3. \A p : Alike(CompareTrades(s, p[1], p[2])) => ~ repriced(p)
      BY DEF Alike
    <2> HIDE DEF before, after, repriced
    <2> QED BY <2>1, <2>2, <2>3
  <1>4. RepriceEval(s, e, V) = verdict(before) /\ RepriceEval(s, e, W) = verdict(after)
    BY <1>1 DEF Extends
  <1> HIDE DEF before, after, repriced
  <1>5. before # {}
    <2>1. verdict({}).status = "INSUFFICIENT"
      BY DEF Insufficient
    <2> HIDE DEF verdict
    <2> QED BY <1>4, <2>1 DEF Settles
  <1>6. (\A p \in before : ~ repriced(p)) <=> (\A p \in after : ~ repriced(p))
    BY <1>2, <1>3
  <1>7. Verdict(\A p \in before : ~ repriced(p), {}) = Verdict(\A p \in after : ~ repriced(p), {})
    BY <1>6 DEF Verdict
  <1>8. verdict(after) = verdict(before)
    BY <1>2, <1>5, <1>7
  <1> HIDE DEF verdict
  <1> QED BY <1>4, <1>8

LEMMA EvaluatorsAnswer ==
    ASSUME NEW h \in CatalogTypes, NEW s, NEW e, NEW V
    PROVE  EvaluatorOf(h, s, e, V).status \in Verdicts
  <1>1. RoutineEval(s, e).status \in Verdicts
    BY VerdictIs, Zenon DEF RoutineEval
  <1>2. PriceCorrectionEval(s, e).status \in Verdicts
    <2>1. \/ PriceCorrectionEval(s, e) = Insufficient({<<"amendment_versions">>})
          \/ \E c, m : PriceCorrectionEval(s, e) = Verdict(c, m)
      BY Zenon DEF PriceCorrectionEval
    <2> QED BY <2>1, VerdictIs DEF Insufficient, Verdicts
  <1>3. RebookEval(s, e, V).status \in Verdicts
    BY VerdictIs, Zenon DEF RebookEval
  <1>4. LateEval.status \in Verdicts
    BY DEF LateEval, Insufficient, Verdicts
  <1>5. OffMarketEval(s, e).status \in Verdicts
    <2>1. \/ OffMarketEval(s, e) \in {Contradicted, Supported}
          \/ \E m : OffMarketEval(s, e) = Insufficient(m)
      BY DEF OffMarketEval
    <2> QED BY <2>1 DEF Contradicted, Supported, Insufficient, Verdicts
  <1>6. RoundTripEval(s, e).status \in Verdicts
    BY VerdictIs, Zenon DEF RoundTripEval
  <1>7. RepriceEval(s, e, V).status \in Verdicts
    <2>1. \/ RepriceEval(s, e, V) = Insufficient({<<"verified_rebook_link">>})
          \/ \E c, m : RepriceEval(s, e, V) = Verdict(c, m)
      BY Zenon DEF RepriceEval
    <2> QED BY <2>1, VerdictIs DEF Insufficient, Verdicts
  <1>8. DeviationEval(s, e).status \in Verdicts
    BY DEF DeviationEval, Contradicted, Supported, Insufficient, Verdicts
  <1>9. ContextEval(s, e).status \in Verdicts
    BY VerdictIs, Zenon DEF ContextEval
  <1> QED BY <1>1, <1>2, <1>3, <1>4, <1>5, <1>6, <1>7, <1>8, <1>9
          DEF EvaluatorOf, CatalogTypes, Catalog, ResidualType, Context

LEMMA EvaluateAnswers ==
    ASSUME NEW h \in CatalogTypes, NEW s, NEW e, NEW V, NEW G
    PROVE  /\ Evaluate(h, s, e, V, G).status \in Verdicts
           /\ h \notin Applicable(s, e) => Evaluate(h, s, e, V, G).status = "CONTRADICTED"
  BY EvaluatorsAnswer DEF Evaluate, Contradicted, Insufficient, Verdicts

\* All the evidence on a hypothesis, given the links.
Full(h, s, e, V) == Evaluate(h, s, e, V, Needed(h, s, e, V))

\* What was evaluated on the evidence at hand is right if it settles anything.
LEMMA PartIsEnough ==
    ASSUME NEW h \in CatalogTypes, NEW s, NEW e, NEW V, NEW G,
           Evaluate(h, s, e, V, G).status \in Settles
    PROVE  Evaluate(h, s, e, V, G) = Full(h, s, e, V)
  <1>1. Needed(h, s, e, V) \ Needed(h, s, e, V) = {}
    OBVIOUS
  <1> QED BY <1>1 DEF Evaluate, Full, Insufficient, Settles

LEMMA NewLinksKeep ==
    ASSUME NEW s, IsData(s), NEW e \in DOMAIN s.episodes, NEW V, NEW W, Extends(s, V, W),
           NEW h \in CatalogTypes, Full(h, s, e, V).status \in Settles
    PROVE  Full(h, s, e, W) = Full(h, s, e, V)
  <1>1. Needed(h, s, e, V) \ Needed(h, s, e, V) = {} /\ Needed(h, s, e, W) \ Needed(h, s, e, W) = {}
    OBVIOUS
  <1>2. CASE h \notin Applicable(s, e) \/ HypothesisFields[h] \cap s.unavailable # {}
    BY <1>2 DEF Full, Evaluate
  <1>3. CASE h \in Applicable(s, e) /\ HypothesisFields[h] \cap s.unavailable = {}
    <2>1. /\ Full(h, s, e, V) = EvaluatorOf(h, s, e, V)
          /\ Full(h, s, e, W) = EvaluatorOf(h, s, e, W)
      BY <1>1, <1>3 DEF Full, Evaluate
    <2>2. CASE h = "REBOOK_ECONOMICS_CHANGED"
      <3>1. \A X : EvaluatorOf(h, s, e, X) = RepriceEval(s, e, X)
        BY <2>2 DEF EvaluatorOf, ResidualType, Context
      <3> QED BY <2>1, <3>1, NewLinksKeepReprice
    <2>3. CASE h = "CANCEL_REBOOK_CORRECTION"
      <3>1. \A X : EvaluatorOf(h, s, e, X) = RebookEval(s, e, X)
        BY <2>3 DEF EvaluatorOf, ResidualType, Context
      <3> QED BY <2>1, <3>1, NewLinksKeepCorrection
    <2>4. CASE h \notin {"REBOOK_ECONOMICS_CHANGED", "CANCEL_REBOOK_CORRECTION"}
      <3>1. EvaluatorOf(h, s, e, W) = EvaluatorOf(h, s, e, V)
        BY <2>4 DEF EvaluatorOf, ResidualType, Context, CatalogTypes, Catalog
      <3> QED BY <2>1, <3>1
    <2> QED BY <2>2, <2>3, <2>4
  <1> QED BY <1>2, <1>3

-----------------------------------------------------------------------------
(* Adjudication. *)

LEMMA CatalogIs ==
    /\ DOMAIN Catalog = 1..9
    /\ Typed = {"PERIOD_END_ROUND_TRIP", "OFF_MARKET_AMENDMENT", "REBOOK_ECONOMICS_CHANGED"}
    /\ Benign = {"CANCEL_REBOOK_CORRECTION", "PRICE_CORRECTION",
                 "LATE_BOOKING_OPERATIONAL", "ROUTINE_EXECUTION"}
    /\ CatalogTypes = Typed \cup Benign \cup {ResidualType, Context}
    /\ ResidualType \notin Typed \cup Benign /\ Context \notin Typed \cup Benign
    /\ ResidualType # Context
  BY DEF Typed, Benign, ResidualType, Context, CatalogTypes, Catalog

LEMMA ClassesAre ==
    /\ \A h \in Typed \cup {ResidualType} : Class(h) = "ANOMALOUS"
    /\ \A h \in Benign : Class(h) = "BENIGN"
  BY CatalogIs DEF Class, ResidualType

LEMMA FirstIsIn ==
    ASSUME NEW T, T \subseteq CatalogTypes, T # {}
    PROVE  First(T) \in T
  <1> DEFINE places == {i \in DOMAIN Catalog : Catalog[i] \in T}
  <1>1. places \subseteq Nat
    BY CatalogIs
  <1>2. places # {}
    BY DEF CatalogTypes
  <1>3. First(T) = Catalog[Min(places)]
    BY DEF First
  <1>4. \A i \in places : Catalog[i] \in T
    OBVIOUS
  <1> HIDE DEF places
  <1> QED BY <1>1, <1>2, <1>3, <1>4, MinIsIn

Deviating(results) ==
    IF ResidualType \in With(results, "SUPPORTED") THEN results[ResidualType].signals ELSE {}

\* Which class a verdict has, without naming the hypothesis.
LEMMA VerdictClass ==
    ASSUME NEW results, DOMAIN results \subseteq CatalogTypes, None \notin CatalogTypes
    PROVE  LET supported == With(results, "SUPPORTED")
               open == With(results, "INSUFFICIENT") \ {Context}
               unexplained == Deviating(results) \ (Covers(supported \cap Benign) \cup
                                  Covers(With(results, "INSUFFICIENT") \cap Benign))
               anomalous == supported \cap Typed # {} \/ unexplained # {}
               benign == ~ anomalous /\ supported \cap Benign # {} /\ open = {}
               verdict == Adjudicate(results).conclusion
           IN  /\ anomalous => ClassOf(verdict) = "ANOMALOUS" /\ verdict # None
               /\ benign => ClassOf(verdict) = "BENIGN" /\ verdict # None
               /\ ~ anomalous /\ ~ benign => verdict = None
  <1> DEFINE supported == With(results, "SUPPORTED")
             open == With(results, "INSUFFICIENT") \ {Context}
             unexplained == Deviating(results) \ (Covers(supported \cap Benign) \cup
                                Covers(With(results, "INSUFFICIENT") \cap Benign))
             verdict == Adjudicate(results).conclusion
  <1>1. verdict = IF supported \cap Typed # {} THEN First(supported \cap Typed)
                  ELSE IF unexplained # {} THEN ResidualType
                  ELSE IF supported \cap Benign # {} /\ open = {} THEN First(supported \cap Benign)
                  ELSE None
    BY Zenon DEF Adjudicate, DeviationSplit, Deviating
  <1>2. supported \subseteq CatalogTypes
    BY DEF With
  <1> HIDE DEF supported, open, unexplained, verdict
  <1>3. /\ supported \cap Typed # {} => First(supported \cap Typed) \in Typed
        /\ supported \cap Benign # {} => First(supported \cap Benign) \in Benign
    BY <1>2, FirstIsIn
  <1>4. Typed \cup Benign \cup {ResidualType} \subseteq CatalogTypes
    BY CatalogIs
  <1>5. /\ supported \cap Typed # {} => ClassOf(verdict) = "ANOMALOUS" /\ verdict # None
        /\ supported \cap Typed = {} /\ unexplained # {} => ClassOf(verdict) = "ANOMALOUS" /\ verdict # None
        /\ supported \cap Typed = {} /\ unexplained = {} /\ supported \cap Benign # {} /\ open = {} =>
             ClassOf(verdict) = "BENIGN" /\ verdict # None
        /\ supported \cap Typed = {} /\ unexplained = {} /\ ~ (supported \cap Benign # {} /\ open = {}) =>
             verdict = None
    BY <1>1, <1>3, <1>4, ClassesAre DEF ClassOf
  <1> QED BY <1>5 DEF supported, open, unexplained, verdict

\* A verdict over evaluations that have become old is of the class of the
\* verdict over all the evidence of today, if nothing settled has changed.
LEMMA OldResultsDecide ==
    ASSUME NEW old, NEW now, None \notin CatalogTypes,
           DOMAIN now \subseteq DOMAIN old, DOMAIN old \subseteq CatalogTypes,
           \A h \in DOMAIN old : old[h].status \in Verdicts,
           \A h \in DOMAIN old \ DOMAIN now : old[h].status = "CONTRADICTED",
           \A h \in DOMAIN now : old[h].status \in Settles =>
               now[h].status = old[h].status /\ now[h].signals = old[h].signals,
           Adjudicate(old).conclusion # None
    PROVE  ClassOf(Adjudicate(now).conclusion) = ClassOf(Adjudicate(old).conclusion)
  <1> DEFINE supported(r) == With(r, "SUPPORTED")
             insufficient(r) == With(r, "INSUFFICIENT")
             open(r) == insufficient(r) \ {Context}
             explained(r) == Covers(supported(r) \cap Benign) \cup Covers(insufficient(r) \cap Benign)
             unexplained(r) == Deviating(r) \ explained(r)
             anomalous(r) == supported(r) \cap Typed # {} \/ unexplained(r) # {}
             benign(r) == ~ anomalous(r) /\ supported(r) \cap Benign # {} /\ open(r) = {}
             verdict(r) == Adjudicate(r).conclusion
  <1>1. \A r \in {old, now} :
          /\ anomalous(r) => ClassOf(verdict(r)) = "ANOMALOUS" /\ verdict(r) # None
          /\ benign(r) => ClassOf(verdict(r)) = "BENIGN" /\ verdict(r) # None
          /\ ~ anomalous(r) /\ ~ benign(r) => verdict(r) = None
    BY VerdictClass
  <1>2. supported(old) \subseteq supported(now)
    BY DEF With, Verdicts, Settles
  <1>3. supported(now) \cup insufficient(now) \subseteq supported(old) \cup insufficient(old)
    BY DEF With, Verdicts, Settles
  <1>4. Deviating(old) \subseteq Deviating(now)
    <2>1. ResidualType \in supported(old) =>
            ResidualType \in supported(now) /\ now[ResidualType].signals = old[ResidualType].signals
      BY <1>2 DEF With, Settles
    <2> QED BY <2>1 DEF Deviating
  <1>5. explained(now) \subseteq explained(old)
    <2> HIDE DEF supported, insufficient
    <2> QED BY <1>3 DEF Covers
  <1>6. anomalous(old) => anomalous(now)
    <2> HIDE DEF supported, explained
    <2> QED BY <1>2, <1>4, <1>5
  <1>7. ASSUME open(old) = {}
        PROVE  /\ supported(now) \ {Context} = supported(old) \ {Context}
               /\ insufficient(now) \subseteq {Context}
    BY <1>7 DEF With, Verdicts, Settles
  <1>8. benign(old) => benign(now)
    <2> SUFFICES ASSUME benign(old) PROVE benign(now)
      OBVIOUS
    <2>1. supported(now) \ {Context} = supported(old) \ {Context} /\ open(now) = {}
      BY <1>7
    <2>2. supported(now) \cap Benign = supported(old) \cap Benign
          /\ supported(now) \cap Typed = supported(old) \cap Typed
          /\ (ResidualType \in supported(now) <=> ResidualType \in supported(old))
      BY <2>1, CatalogIs
    <2>3. Deviating(now) = Deviating(old)
      BY <2>2 DEF Deviating, With, Settles
    <2>4. insufficient(now) \cap Benign = {} /\ insufficient(old) \cap Benign = {}
      BY <1>7, CatalogIs
    <2>5. explained(now) = explained(old)
      BY <2>2, <2>4
    <2> HIDE DEF supported, explained, open
    <2> QED BY <2>1, <2>2, <2>3, <2>5
  <1> HIDE DEF anomalous, benign, verdict
  <1>9. ClassOf(verdict(now)) = ClassOf(verdict(old)) \/ verdict(old) = None
    BY <1>1, <1>6, <1>8
  <1> QED BY <1>9 DEF verdict

-----------------------------------------------------------------------------
(* The investigator: what a run may rely on. *)

RunIsFixed == task \in Tasks /\ context = Contexts[task.world]

EvidenceOK == \A r \in evidence : Answers(r)

\* A proposed link is between trades of the snapshot, and as the verifier finds it.
ProposalsOK ==
    /\ proposals \in Seq(Range(proposals))
    /\ \A p \in Proposed :
         /\ {p.a, p.b} \subseteq DOMAIN snap.trades
         /\ p.status = IF LinkVerified(p.a, p.b) THEN "VERIFIED" ELSE "REJECTED"

\* An evaluation may be old, but not what it has settled.
HypothesisOK(h) ==
    LET result == hypotheses[h]
        now == Full(h, snap, episode, Verified)
    IN  /\ DOMAIN result = DOMAIN New /\ result.status \in Statuses
        /\ result.status # "PROPOSED" => episode \in DOMAIN snap.episodes
        /\ h \notin Applicable(snap, episode) => result.status \in {"PROPOSED", "CONTRADICTED"}
        /\ result.status \in Settles => result.status = now.status /\ result.signals = now.signals

HypothesesOK == DOMAIN hypotheses \subseteq CatalogTypes /\ \A h \in DOMAIN hypotheses : HypothesisOK(h)

InvestigatorOK ==
    /\ RunIsFixed /\ EvidenceOK /\ ProposalsOK /\ HypothesesOK
    /\ conclusion \in CatalogTypes \cup {None} /\ ConclusionHolds

LEMMA SnapshotIsData ==
    ASSUME RunIsFixed PROVE IsData(snap)
  BY ContextIsData, ProgramsAssumption DEF RunIsFixed, snap

LEMMA VerifiedAreLinks ==
    ASSUME RunIsFixed, ProposalsOK PROVE AreLinks(Verified)
  <1> DEFINE trusted == {q \in snap.proposals : q.status # "REJECTED"}
             accepted == {q \in Proposed : q.status = "VERIFIED"}
             pairs(S) == {<<p.a, p.b>> : p \in S}
  <1>1. IsFiniteSet(trusted) /\ \A p \in trusted : {p.a, p.b} \subseteq Int
    <2>1. IsFiniteSet(snap.proposals) /\ \A p \in snap.proposals : {p.a, p.b} \subseteq Int
      BY SnapshotIsData DEF IsData
    <2>2. trusted \subseteq snap.proposals
      OBVIOUS
    <2> QED BY <2>1, <2>2, FS_Subset
  <1>2. IsFiniteSet(accepted) /\ \A p \in accepted : {p.a, p.b} \subseteq Int
    <2>1. DOMAIN snap.trades \subseteq Int
      BY SnapshotIsData DEF IsData
    <2>2. Len(proposals) \in Nat /\ DOMAIN proposals = 1..Len(proposals)
      BY DEF ProposalsOK
    <2> DEFINE listed == [i \in 1..Len(proposals) |-> proposals[i]]
    <2>3. listed \in Surjection(1..Len(proposals), Proposed)
      BY <2>2 DEF Surjection, Proposed
    <2>4. IsFiniteSet(1..Len(proposals))
      BY <2>2, FS_Interval
    <2> HIDE DEF listed
    <2>5. IsFiniteSet(Proposed)
      BY <2>3, <2>4, FS_Surjection
    <2>6. accepted \subseteq Proposed
      OBVIOUS
    <2>7. IsFiniteSet(accepted)
      BY <2>5, <2>6, FS_Subset
    <2> QED BY <2>1, <2>6, <2>7 DEF ProposalsOK
  <1>3. ASSUME NEW S, IsFiniteSet(S), \A p \in S : {p.a, p.b} \subseteq Int
        PROVE  IsFiniteSet(pairs(S)) /\ pairs(S) \subseteq Int \X Int
    <2> DEFINE pair == [p \in S |-> <<p.a, p.b>>]
               image == pairs(S)
    <2>1. pair \in Surjection(S, image)
      BY DEF Surjection
    <2>2. image \subseteq Int \X Int
      BY <1>3
    <2> HIDE DEF pair, image
    <2>3. IsFiniteSet(image)
      BY <1>3, <2>1, FS_Surjection
    <2> QED BY <2>2, <2>3 DEF image
  <1>4. Verified = pairs(trusted) \cup pairs(accepted)
    BY DEF Verified, VerifiedLinks
  <1> HIDE DEF trusted, accepted
  <1>5. /\ IsFiniteSet(pairs(trusted)) /\ pairs(trusted) \subseteq Int \X Int
        /\ IsFiniteSet(pairs(accepted)) /\ pairs(accepted) \subseteq Int \X Int
    BY <1>1, <1>2, <1>3
  <1> HIDE DEF pairs
  <1>6. IsFiniteSet(pairs(trusted) \cup pairs(accepted))
    BY <1>5, FS_Union
  <1> QED BY <1>4, <1>5, <1>6 DEF AreLinks

LEMMA SubjectIsKnown ==
    ASSUME EvidenceOK, HasSubject
    PROVE  episode \in DOMAIN snap.episodes
  BY DEF EvidenceOK, HasSubject, Bag, Answers, AnswersOn, EpisodeTools, CheckEpisode

\* The step of a run leaves alone what the run is about.
Frame == UNCHANGED <<task, context>>

LEMMA FrameKeeps ==
    ASSUME Frame
    PROVE  /\ snap' = snap /\ episode' = episode
           /\ RunIsFixed => RunIsFixed'
           /\ \A r : Answers(r)' <=> Answers(r)
           /\ proposals' = proposals => Verified' = Verified
           /\ proposals' = proposals /\ ProposalsOK => ProposalsOK'
  <1>1. snap' = snap /\ episode' = episode /\ task' = task /\ context' = context
    BY DEF Frame, snap, episode
  <1>2. \A r : Answers(r)' <=> Answers(r)
    BY <1>1 DEF Answers, AnswersOn, CheckEpisode, CheckTrade, SeesDesk, TraderKnown, KnownRule
  <1>3. proposals' = proposals => Verified' = Verified /\ Proposed' = Proposed
    BY <1>1 DEF Verified, Proposed
  <1>4. proposals' = proposals /\ ProposalsOK => ProposalsOK'
    BY <1>1, <1>3 DEF ProposalsOK, LinkVerified
  <1> QED BY <1>1, <1>2, <1>3, <1>4 DEF RunIsFixed

\* What has been found stays right while only like-for-like links are added.
LEMMA HypothesisStays ==
    ASSUME Frame, RunIsFixed, Extends(snap, Verified, Verified'),
           NEW h \in CatalogTypes, HypothesisOK(h),
           DOMAIN hypotheses'[h] = DOMAIN hypotheses[h],
           hypotheses'[h].status = hypotheses[h].status,
           hypotheses'[h].signals = hypotheses[h].signals
    PROVE  HypothesisOK(h)'
  <1> DEFINE before == Full(h, snap, episode, Verified)
             after == Full(h, snap, episode, Verified')
  <1>1. snap' = snap /\ episode' = episode
    BY FrameKeeps
  <1>2. hypotheses[h].status \in Settles => after = before
    <2> SUFFICES ASSUME hypotheses[h].status \in Settles PROVE after = before
      OBVIOUS
    <2>1. before.status \in Settles /\ episode \in DOMAIN snap.episodes
      BY DEF HypothesisOK, Settles
    <2> QED BY <2>1, NewLinksKeep, SnapshotIsData
  <1>3. /\ DOMAIN hypotheses[h] = DOMAIN New /\ hypotheses[h].status \in Statuses
        /\ hypotheses[h].status # "PROPOSED" => episode \in DOMAIN snap.episodes
        /\ h \notin Applicable(snap, episode) => hypotheses[h].status \in {"PROPOSED", "CONTRADICTED"}
        /\ hypotheses[h].status \in Settles =>
             hypotheses[h].status = before.status /\ hypotheses[h].signals = before.signals
    BY DEF HypothesisOK
  <1> HIDE DEF before, after
  <1>4. /\ DOMAIN hypotheses'[h] = DOMAIN New /\ hypotheses'[h].status \in Statuses
        /\ hypotheses'[h].status # "PROPOSED" => episode \in DOMAIN snap.episodes
        /\ h \notin Applicable(snap, episode) => hypotheses'[h].status \in {"PROPOSED", "CONTRADICTED"}
        /\ hypotheses'[h].status \in Settles =>
             hypotheses'[h].status = after.status /\ hypotheses'[h].signals = after.signals
    BY <1>2, <1>3
  <1> QED BY <1>1, <1>4 DEF after, HypothesisOK, Statuses, New

LEMMA LinksStay ==
    ASSUME Frame, RunIsFixed, ProposalsOK, proposals' = proposals
    PROVE  Verified' = Verified /\ Extends(snap, Verified, Verified')
  <1>1. Verified' = Verified
    BY FrameKeeps
  <1> QED BY <1>1, VerifiedAreLinks DEF Extends

LEMMA HypothesesStay ==
    ASSUME Frame, InvestigatorOK, hypotheses' = hypotheses, proposals' = proposals
    PROVE  HypothesesOK'
  <1>1. Extends(snap, Verified, Verified') /\ RunIsFixed /\ HypothesesOK
    BY LinksStay DEF InvestigatorOK
  <1>2. ASSUME NEW h \in DOMAIN hypotheses PROVE HypothesisOK(h)'
    BY <1>1, HypothesisStays DEF HypothesesOK
  <1> QED BY <1>1, <1>2 DEF HypothesesOK

LEMMA EvidenceGrows ==
    ASSUME Frame, EvidenceOK, \A r \in evidence' : r \in evidence \/ Answers(r)
    PROVE  EvidenceOK'
  BY FrameKeeps DEF EvidenceOK

LEMMA Proposing ==
    ASSUME InvestigatorOK, Frame, conclusion = None, NEW types, ProposeHypotheses(types)
    PROVE  InvestigatorOK'
  <1> DEFINE added == (types \cap CatalogTypes) \ DOMAIN hypotheses
  <1>1. /\ hypotheses' = [h \in DOMAIN hypotheses \cup added |->
                             IF h \in added THEN New ELSE hypotheses[h]]
        /\ evidence' = evidence /\ proposals' = proposals /\ conclusion' = None
    BY DEF ProposeHypotheses
  <1> HIDE DEF added
  <1>2. RunIsFixed' /\ ProposalsOK' /\ EvidenceOK'
    BY <1>1, FrameKeeps, EvidenceGrows DEF InvestigatorOK
  <1>3. ASSUME NEW h \in DOMAIN hypotheses PROVE HypothesisOK(h)'
    <2>1. hypotheses'[h] = hypotheses[h]
      BY <1>1, <1>3 DEF added
    <2> QED BY <1>1, <1>3, <2>1, HypothesisStays, LinksStay DEF InvestigatorOK, HypothesesOK
  <1>4. ASSUME NEW h \in added PROVE HypothesisOK(h)'
    <2>1. hypotheses'[h] = New
      BY <1>1, <1>4
    <2>2. New.status = "PROPOSED" /\ New' = New
      BY DEF New
    <2> QED BY <2>1, <2>2 DEF HypothesisOK, Statuses, Settles
  <1>5. HypothesesOK'
    <2>1. DOMAIN hypotheses' = DOMAIN hypotheses \cup added
      BY <1>1
    <2>2. DOMAIN hypotheses \cup added \subseteq CatalogTypes
      BY DEF added, InvestigatorOK, HypothesesOK
    <2> QED BY <1>3, <1>4, <2>1, <2>2 DEF HypothesesOK
  <1> QED BY <1>1, <1>2, <1>5 DEF InvestigatorOK, ConclusionHolds

LEMMA AgedIs ==
    ASSUME HypothesesOK, NEW h \in DOMAIN hypotheses
    PROVE  /\ h \in DOMAIN Aged /\ DOMAIN Aged[h] = DOMAIN hypotheses[h]
           /\ Aged[h].status = hypotheses[h].status /\ Aged[h].signals = hypotheses[h].signals
  <1>1. DOMAIN hypotheses[h] = DOMAIN New
    BY DEF HypothesesOK, HypothesisOK
  <1>2. Aged[h] = [hypotheses[h] EXCEPT !.fresh = FALSE]
    BY DEF Aged
  <1> QED BY <1>1, <1>2 DEF Aged, New

LEMMA Calling ==
    ASSUME InvestigatorOK, Frame, conclusion = None, NEW r, CallTool(r)
    PROVE  InvestigatorOK'
  <1>1. /\ hypotheses' \in {Aged, hypotheses} /\ proposals' = proposals /\ conclusion' = None
        /\ \A q \in evidence' : q \in evidence \/ Answers(q)
    BY DEF CallTool
  <1>2. RunIsFixed' /\ ProposalsOK' /\ EvidenceOK'
    BY <1>1, FrameKeeps, EvidenceGrows DEF InvestigatorOK
  <1>3. HypothesesOK'
    <2>1. DOMAIN hypotheses' = DOMAIN hypotheses
      BY <1>1 DEF Aged
    <2>2. ASSUME NEW h \in DOMAIN hypotheses PROVE HypothesisOK(h)'
      BY <1>1, <2>2, AgedIs, HypothesisStays, LinksStay DEF InvestigatorOK, HypothesesOK
    <2> QED BY <2>1, <2>2 DEF InvestigatorOK, HypothesesOK
  <1> QED BY <1>1, <1>2, <1>3 DEF InvestigatorOK, ConclusionHolds

LEMMA Evaluating ==
    ASSUME InvestigatorOK, Frame, conclusion = None, NEW h, EvaluateHypothesis(h)
    PROVE  InvestigatorOK'
  <1>1. evidence' = evidence /\ proposals' = proposals /\ conclusion' = None
    BY DEF EvaluateHypothesis
  <1>2. RunIsFixed' /\ ProposalsOK' /\ EvidenceOK'
    BY <1>1, FrameKeeps, EvidenceGrows DEF InvestigatorOK
  <1>3. HypothesesOK'
    <2>1. CASE ~ (h \in DOMAIN hypotheses /\ HasSubject)
      <3>1. hypotheses' = hypotheses
        BY <2>1 DEF EvaluateHypothesis
      <3> QED BY <1>1, <3>1, HypothesesStay
    <2>2. CASE h \in DOMAIN hypotheses /\ HasSubject
      <3> DEFINE result == Evaluate(h, snap, episode, Verified, Bag)
                 found == [status |-> result.status, missing |-> result.missing,
                           signals |-> result.signals,
                           needed |-> Needed(h, snap, episode, Verified), fresh |-> TRUE]
      <3>1. hypotheses' = [hypotheses EXCEPT ![h] = found]
        BY <2>2 DEF EvaluateHypothesis
      <3>2. hypotheses'[h] = found /\ DOMAIN hypotheses' = DOMAIN hypotheses
            /\ \A g \in DOMAIN hypotheses \ {h} : hypotheses'[g] = hypotheses[g]
        BY <2>2, <3>1
      <3>3. /\ result.status \in Verdicts
            /\ h \notin Applicable(snap, episode) => result.status = "CONTRADICTED"
            /\ result.status \in Settles => result = Full(h, snap, episode, Verified)
        <4>1. h \in CatalogTypes
          BY <2>2 DEF InvestigatorOK, HypothesesOK
        <4> QED BY <4>1, EvaluateAnswers, PartIsEnough
      <3>4. episode \in DOMAIN snap.episodes
        BY <2>2, SubjectIsKnown DEF InvestigatorOK
      <3>5. /\ DOMAIN found = DOMAIN New /\ found.status = result.status
            /\ found.signals = result.signals
        BY DEF New
      <3> HIDE DEF result, found
      <3>6. HypothesisOK(h)'
        <4>1. snap' = snap /\ episode' = episode /\ Verified' = Verified
          BY <1>1, FrameKeeps
        <4> QED BY <3>2, <3>3, <3>4, <3>5, <4>1
                DEF HypothesisOK, Statuses, Verdicts, Settles, New
      <3>7. ASSUME NEW g \in DOMAIN hypotheses \ {h} PROVE HypothesisOK(g)'
        BY <1>1, <3>2, <3>7, HypothesisStays, LinksStay DEF InvestigatorOK, HypothesesOK
      <3> QED BY <3>2, <3>6, <3>7 DEF InvestigatorOK, HypothesesOK
    <2> QED BY <2>1, <2>2
  <1> QED BY <1>1, <1>2, <1>3 DEF InvestigatorOK, ConclusionHolds

\* A sequence without one of its places.
LEMMA WithoutOne ==
    ASSUME NEW S, NEW q \in Seq(S), NEW m \in 1..Len(q)
    PROVE  LET rest == SubSeq(q, 1, m - 1) \o SubSeq(q, m + 1, Len(q))
           IN  rest \in Seq(S) /\ \A i \in DOMAIN q \ {m} : \E j \in DOMAIN rest : rest[j] = q[i]
  <1> DEFINE n == Len(q)
             left == SubSeq(q, 1, m - 1)
             right == SubSeq(q, m + 1, n)
             rest == left \o right
  <1>1. n \in Nat /\ m \in 1..n /\ DOMAIN q = 1..n
    OBVIOUS
  <1>2. left \in Seq(S) /\ Len(left) = m - 1 /\ \A i \in 1..(m - 1) : left[i] = q[i]
    BY <1>1
  <1>3. right \in Seq(S) /\ Len(right) = n - m /\ \A i \in 1..(n - m) : right[i] = q[m + i]
    <2>1. m + 1 \in Int /\ n \in Int /\ \A i \in (m + 1)..n : q[i] \in S
      BY <1>1
    <2>2. /\ right \in Seq(S)
          /\ Len(right) = IF m + 1 <= n THEN n - (m + 1) + 1 ELSE 0
          /\ \A i \in 1..(n - (m + 1) + 1) : right[i] = q[m + 1 + i - 1]
      BY <2>1, SubSeqProperties
    <2> HIDE DEF right
    <2>3. \A i \in 1..(n - m) : i \in 1..(n - (m + 1) + 1) /\ m + 1 + i - 1 = m + i
      BY <1>1
    <2>4. Len(right) = n - m
      <3> HIDE DEF n
      <3>1. (IF m + 1 <= n THEN n - (m + 1) + 1 ELSE 0) = n - m
        BY <1>1
      <3> QED BY <2>2, <3>1
    <2>5. \A i \in 1..(n - m) : right[i] = q[m + i]
      <3> TAKE i \in 1..(n - m)
      <3>1. right[i] = q[m + 1 + i - 1] /\ m + 1 + i - 1 = m + i
        BY <2>2, <2>3
      <3> QED BY <3>1
    <2> QED BY <2>2, <2>4, <2>5
  <1> HIDE DEF left, right, n
  <1>4. /\ rest \in Seq(S) /\ DOMAIN rest = 1..(n - 1)
        /\ \A i \in 1..(m - 1) : rest[i] = left[i]
        /\ \A i \in 1..(n - m) : rest[m - 1 + i] = right[i]
    <2>1. /\ rest \in Seq(S) /\ Len(rest) = Len(left) + Len(right)
          /\ \A i \in 1..(Len(left) + Len(right)) :
               rest[i] = IF i <= Len(left) THEN left[i] ELSE right[i - Len(left)]
      BY <1>2, <1>3, ConcatProperties
    <2> HIDE DEF rest
    <2>2. Len(rest) = n - 1 /\ DOMAIN rest = 1..(n - 1)
      BY <1>1, <1>2, <1>3, <2>1
    <2>3. \A i \in 1..(m - 1) : rest[i] = left[i]
      BY <1>1, <1>2, <1>3, <2>1
    <2>4. \A i \in 1..(n - m) : m - 1 + i \in 1..(n - 1) /\ m - 1 + i > m - 1 /\ m - 1 + i - (m - 1) = i
      BY <1>1
    <2>5. \A i \in 1..(n - m) : rest[m - 1 + i] = right[i]
      BY <1>1, <1>2, <1>3, <2>1, <2>4
    <2> QED BY <2>1, <2>2, <2>3, <2>5
  <1> HIDE DEF rest
  <1>5. ASSUME NEW i \in DOMAIN q \ {m} PROVE \E j \in DOMAIN rest : rest[j] = q[i]
    <2>1. CASE i < m
      <3>1. i \in 1..(m - 1) /\ i \in 1..(n - 1)
        BY <1>1, <2>1
      <3> QED BY <1>2, <1>4, <3>1
    <2>2. CASE i > m
      <3>1. i - m \in 1..(n - m) /\ i - 1 \in 1..(n - 1) /\ m - 1 + (i - m) = i - 1 /\ m + (i - m) = i
        BY <1>1, <2>2
      <3> QED BY <1>3, <1>4, <3>1
    <2> QED BY <1>1, <2>1, <2>2
  <1> QED BY <1>4, <1>5 DEF rest, left, right, n

LEMMA RangeIsEnough ==
    ASSUME NEW S, NEW q \in Seq(S)
    PROVE  q \in Seq(Range(q)) /\ Range(q) \subseteq S
  <1>1. Len(q) \in Nat /\ DOMAIN q = 1..Len(q) /\ q = [i \in 1..Len(q) |-> q[i]]
    OBVIOUS
  <1>2. \A i \in 1..Len(q) : q[i] \in S /\ q[i] \in Range(q)
    BY <1>1 DEF Range
  <1> QED BY <1>1, <1>2 DEF Range

LEMMA ComparedAreTrades ==
    ASSUME EvidenceOK, NEW a, NEW b, <<"compare_trades", a, b>> \in Bag
    PROVE  {a, b} \subseteq DOMAIN snap.trades
  BY DEF EvidenceOK, Bag, Answers, AnswersOn, CheckTrade

LEMMA Linking ==
    ASSUME InvestigatorOK, Frame, conclusion = None, NEW a, NEW b, ProposeLink(a, b)
    PROVE  InvestigatorOK'
  <1> DEFINE at == {i \in DOMAIN proposals : <<proposals[i].a, proposals[i].b>> = <<a, b>>}
             rest == SubSeq(proposals, 1, Max(at) - 1)
                     \o SubSeq(proposals, Max(at) + 1, Len(proposals))
             others == IF at = {} THEN proposals ELSE rest
             found == [a |-> a, b |-> b,
                       status |-> IF LinkVerified(a, b) THEN "VERIFIED" ELSE "REJECTED"]
             compared == <<"compare_trades", a, b>> \in Bag
  <1>1. /\ proposals' = IF compared THEN Append(others, found) ELSE proposals
        /\ hypotheses' \in {Aged, hypotheses}
        /\ evidence' = evidence /\ conclusion' = None
    BY DEF ProposeLink
  <1>2. snap' = snap /\ episode' = episode /\ RunIsFixed' /\ EvidenceOK'
    BY <1>1, FrameKeeps, EvidenceGrows DEF InvestigatorOK
  <1>3. compared => {a, b} \subseteq DOMAIN snap.trades
    BY ComparedAreTrades DEF InvestigatorOK
  <1>4. proposals \in Seq(Range(proposals)) /\ Proposed = Range(proposals)
        /\ \A p \in Proposed :
             /\ {p.a, p.b} \subseteq DOMAIN snap.trades
             /\ p.status = IF LinkVerified(p.a, p.b) THEN "VERIFIED" ELSE "REJECTED"
    BY DEF InvestigatorOK, ProposalsOK, Proposed, Range
  <1>5. /\ others \in Seq(Proposed)
        /\ \A p \in Proposed : p \in Range(others) \/ (p.a = a /\ p.b = b)
    <2>1. CASE at = {}
      BY <1>4, <2>1
    <2>2. CASE at # {}
      <3>1. Len(proposals) \in Nat /\ DOMAIN proposals = 1..Len(proposals)
        BY <1>4
      <3>2. Max(at) \in at
        BY <3>1, <2>2, MaxIsIn
      <3>3. Max(at) \in 1..Len(proposals) /\ proposals[Max(at)].a = a /\ proposals[Max(at)].b = b
        BY <3>1, <3>2
      <3>4. /\ rest \in Seq(Proposed)
            /\ \A i \in DOMAIN proposals \ {Max(at)} :
                 \E j \in DOMAIN rest : rest[j] = proposals[i]
        BY <1>4, <3>3, WithoutOne
      <3> HIDE DEF at, rest
      <3>5. \A p \in Proposed : p \in Range(rest) \/ (p.a = a /\ p.b = b)
        BY <3>3, <3>4 DEF Proposed, Range
      <3> QED BY <2>2, <3>4, <3>5
    <2> QED BY <2>1, <2>2
  <1> HIDE DEF others
  <1>6. compared => /\ proposals' \in Seq(Proposed \cup {found})
                    /\ found \in Range(proposals') /\ Range(others) \subseteq Range(proposals')
    <2> SUFFICES ASSUME compared
                 PROVE  /\ Append(others, found) \in Seq(Proposed \cup {found})
                        /\ found \in Range(Append(others, found))
                        /\ Range(others) \subseteq Range(Append(others, found))
      BY <1>1
    <2> HIDE DEF found
    <2> DEFINE both == Append(others, found)
    <2>1. others \in Seq(Proposed \cup {found})
      BY <1>5
    <2>2. /\ both \in Seq(Proposed \cup {found}) /\ Len(both) = Len(others) + 1
          /\ DOMAIN both = 1..(Len(others) + 1) /\ both[Len(others) + 1] = found
          /\ \A i \in 1..Len(others) : both[i] = others[i]
      BY <2>1
    <2> HIDE DEF both
    <2>3. Len(others) \in Nat /\ DOMAIN others = 1..Len(others)
      BY <2>1
    <2>4. found \in Range(both) /\ Range(others) \subseteq Range(both)
      BY <2>2, <2>3 DEF Range
    <2> QED BY <2>2, <2>4 DEF both
  <1>7. /\ proposals' \in Seq(Range(proposals')) /\ Proposed' = Range(proposals')
        /\ Proposed' \subseteq Proposed \cup {found}
        /\ ~ compared => Proposed' = Proposed
        /\ compared => found \in Proposed'
        /\ \A p \in Proposed : p \in Proposed' \/ (compared /\ p.a = a /\ p.b = b)
    <2>1. Proposed' = Range(proposals')
      BY DEF Proposed, Range
    <2>2. CASE compared
      BY <1>5, <1>6, <2>1, <2>2, RangeIsEnough
    <2>3. CASE ~ compared
      BY <1>1, <1>4, <2>1, <2>3
    <2> QED BY <2>2, <2>3
  <1>8. /\ found.a = a /\ found.b = b
        /\ found.status = IF LinkVerified(a, b) THEN "VERIFIED" ELSE "REJECTED"
    OBVIOUS
  <1> HIDE DEF found, compared
  <1>9. \A p \in Proposed' :
          /\ {p.a, p.b} \subseteq DOMAIN snap.trades
          /\ p.status = IF LinkVerified(p.a, p.b) THEN "VERIFIED" ELSE "REJECTED"
    BY <1>3, <1>4, <1>7, <1>8
  <1>10. ProposalsOK'
    BY <1>2, <1>7, <1>9 DEF ProposalsOK, LinkVerified
  <1>11. Extends(snap, Verified, Verified')
    <2>1. AreLinks(Verified)
      BY VerifiedAreLinks DEF InvestigatorOK
    <2>2. Verified \subseteq Verified'
      BY <1>2, <1>4, <1>7, <1>8 DEF Verified
    <2>3. \A p \in Verified' \ Verified : compared /\ p = <<a, b>> /\ LinkVerified(a, b)
      BY <1>2, <1>4, <1>7, <1>8 DEF Verified
    <2>4. compared /\ LinkVerified(a, b) => Alike(CompareTrades(snap, a, b))
      BY <1>3, VerifiedIsAlike, SnapshotIsData DEF InvestigatorOK, LinkVerified
    <2>5. compared => <<a, b>> \in Int \X Int
      BY <1>3, SnapshotIsData DEF InvestigatorOK, IsData
    <2>6. AreLinks(Verified')
      <3>1. Verified' \subseteq Verified \cup {<<a, b>>}
        BY <2>3
      <3>2. IsFiniteSet(Verified \cup {<<a, b>>})
        BY <2>1, FS_AddElement DEF AreLinks
      <3>3. IsFiniteSet(Verified')
        BY <3>1, <3>2, FS_Subset
      <3> QED BY <2>1, <2>3, <2>5, <3>3 DEF AreLinks
    <2> QED BY <2>1, <2>2, <2>3, <2>4, <2>6 DEF Extends
  <1>12. HypothesesOK'
    <2>1. DOMAIN hypotheses' = DOMAIN hypotheses
      BY <1>1 DEF Aged
    <2>2. ASSUME NEW h \in DOMAIN hypotheses PROVE HypothesisOK(h)'
      BY <1>1, <1>11, <2>2, AgedIs, HypothesisStays DEF InvestigatorOK, HypothesesOK
    <2> QED BY <2>1, <2>2 DEF InvestigatorOK, HypothesesOK
  <1> QED BY <1>1, <1>2, <1>10, <1>12 DEF InvestigatorOK, ConclusionHolds

\* A step that leaves the findings of the investigation alone.
LEMMA Apart ==
    ASSUME InvestigatorOK, Frame, \A r \in evidence' : r \in evidence \/ Answers(r),
           hypotheses' = hypotheses, proposals' = proposals, conclusion' = conclusion
    PROVE  InvestigatorOK'
  <1>1. RunIsFixed' /\ ProposalsOK' /\ EvidenceOK'
    BY FrameKeeps, EvidenceGrows DEF InvestigatorOK
  <1>2. HypothesesOK'
    BY HypothesesStay
  <1>3. snap' = snap /\ episode' = episode /\ Verified' = Verified
    BY FrameKeeps
  <1> QED BY <1>1, <1>2, <1>3 DEF InvestigatorOK, ConclusionHolds

\* An accepted conclusion is favoured by evaluations of all that applies.
LEMMA Concluding ==
    ASSUME InvestigatorOK, Frame, conclusion = None, NEW h, NEW valid, Conclude(h, valid)
    PROVE  InvestigatorOK'
  <1>1. evidence' = evidence /\ hypotheses' = hypotheses /\ proposals' = proposals
    BY DEF Conclude
  <1>2. CASE conclusion' = conclusion
    BY <1>1, <1>2, Apart
  <1>3. CASE conclusion' # conclusion
    <2> DEFINE old == Evaluations
               now == Results(snap, episode, Verified)
    <2>1. /\ conclusion' = h /\ h \in DOMAIN hypotheses /\ Pending = {}
          /\ Adjudicate(old).conclusion = h
      BY <1>3 DEF Conclude, Favoured
    <2>2. /\ DOMAIN hypotheses \subseteq CatalogTypes
          /\ \A g \in DOMAIN hypotheses : HypothesisOK(g)
      BY DEF InvestigatorOK, HypothesesOK
    <2>3. h \in CatalogTypes /\ h # None /\ None \notin CatalogTypes
      BY <2>1, <2>2, ProgramsAssumption
    <2>4. /\ DOMAIN old = Evaluated /\ DOMAIN now = Applicable(snap, episode)
          /\ \A g \in DOMAIN old : old[g] = hypotheses[g]
          /\ \A g \in DOMAIN now : now[g] = Full(g, snap, episode, Verified)
      BY DEF Evaluations, Results, Full
    <2>5. /\ Evaluated \subseteq DOMAIN hypotheses
          /\ \A g \in Evaluated : hypotheses[g].status # "PROPOSED"
          /\ Applicable(snap, episode) \subseteq Evaluated
      BY <2>1 DEF Evaluated, Pending
    <2> HIDE DEF old, now
    <2>6. /\ DOMAIN now \subseteq DOMAIN old /\ DOMAIN old \subseteq CatalogTypes
          /\ \A g \in DOMAIN old : old[g].status \in Verdicts
          /\ \A g \in DOMAIN old \ DOMAIN now : old[g].status = "CONTRADICTED"
          /\ \A g \in DOMAIN now : old[g].status \in Settles =>
               now[g].status = old[g].status /\ now[g].signals = old[g].signals
      BY <2>2, <2>4, <2>5 DEF HypothesisOK, Statuses, Verdicts, Settles
    <2>7. ClassOf(Adjudicate(now).conclusion) = ClassOf(Adjudicate(old).conclusion)
      BY <2>1, <2>3, <2>6, OldResultsDecide
    <2>8. Class(h) = ClassOf(Adjudicate(now).conclusion)
      BY <2>1, <2>3, <2>7 DEF ClassOf
    <2>9. snap' = snap /\ episode' = episode /\ Verified' = Verified
      BY <1>1, FrameKeeps
    <2>10. ConclusionHolds'
      BY <2>1, <2>8, <2>9 DEF ConclusionHolds, now
    <2>11. RunIsFixed' /\ ProposalsOK' /\ EvidenceOK' /\ HypothesesOK'
      BY <1>1, FrameKeeps, EvidenceGrows, HypothesesStay DEF InvestigatorOK
    <2> QED BY <2>1, <2>3, <2>10, <2>11 DEF InvestigatorOK
  <1> QED BY <1>2, <1>3

LEMMA StepTaken ==
    ASSUME InvestigatorOK, Frame, conclusion = None, NEW step, Take(step)
    PROVE  InvestigatorOK'
  <1>1. CASE CallTool(step.with)
    BY <1>1, Calling
  <1>2. CASE ProposeHypotheses(step.with)
    BY <1>2, Proposing
  <1>3. CASE ProposeLink(step.with[1], step.with[2])
    BY <1>3, Linking
  <1>4. CASE EvaluateHypothesis(step.with)
    BY <1>4, Evaluating
  <1>5. CASE Conclude(step.with, TRUE)
    BY <1>5, Concluding
  <1>6. CASE Abstain
    BY <1>6, Apart DEF Abstain
  <1> QED BY <1>1, <1>2, <1>3, <1>4, <1>5, <1>6 DEF Take

LEMMA StepByModel ==
    ASSUME InvestigatorOK, Frame, conclusion = None, InvestigatorModel
    PROVE  InvestigatorOK'
  <1>1. CASE \E h \in CatalogTypes \cup {"NO_SUCH_TYPE"} : ProposeHypotheses({h})
    BY <1>1, Proposing
  <1>2. CASE \E r \in Requests : CallTool(r)
    BY <1>2, Calling
  <1>3. CASE \E h \in CatalogTypes : EvaluateHypothesis(h)
    BY <1>3, Evaluating
  <1>4. CASE \E a, b \in Nearby : a # b /\ ProposeLink(a, b)
    BY <1>4, Linking
  <1>5. CASE \E h \in CatalogTypes, valid \in BOOLEAN : Conclude(h, valid)
    BY <1>5, Concluding
  <1>6. CASE Abstain
    BY <1>6, Apart DEF Abstain
  <1> QED BY <1>1, <1>2, <1>3, <1>4, <1>5, <1>6 DEF InvestigatorModel

\* The other programs only ask for evidence.
LEMMA OthersAsk ==
    ASSUME ChallengerPlaybook \/ ChallengerModel
    PROVE  \A r \in evidence' : r \in evidence \/ Answers(r)
  <1>1. ASSUME NEW q, Gather(q) PROVE \A r \in evidence' : r \in evidence \/ Answers(r)
    BY <1>1 DEF Gather
  <1>2. ASSUME NEW i, NEW accepted, NEW status, Decide(i, accepted, status) PROVE evidence' = evidence
    BY <1>2 DEF Decide
  <1>3. Finish => evidence' = evidence
    BY DEF Finish
  <1>4. CASE ChallengerPlaybook
    <2>1. Finish \/ (\E q : Gather(q)) \/ \E i, accepted, status : Decide(i, accepted, status)
      BY <1>4, Zenon DEF ChallengerPlaybook
    <2> QED BY <2>1, <1>1, <1>2, <1>3
  <1>5. CASE ChallengerModel
    <2>1. Finish \/ (\E q : Gather(q)) \/ \E i, accepted, status : Decide(i, accepted, status)
      BY <1>5, Zenon DEF ChallengerModel, Confirm, Dismiss
    <2> QED BY <2>1, <1>1, <1>2, <1>3
  <1> QED BY <1>4, <1>5

LEMMA InvestigatorBegins ==
    Init => InvestigatorOK
  <1> SUFFICES ASSUME Init PROVE InvestigatorOK
    OBVIOUS
  <1>1. /\ RunIsFixed /\ evidence = {} /\ hypotheses = << >> /\ proposals = << >>
        /\ conclusion = None
    BY DEF Init, InvestigatorInit, RunIsFixed
  <1>2. EvidenceOK /\ ConclusionHolds /\ HypothesesOK
    BY <1>1 DEF EvidenceOK, ConclusionHolds, HypothesesOK
  <1>3. ProposalsOK
    <2>1. Proposed = {} /\ proposals \in Seq(Range(proposals))
      BY <1>1 DEF Proposed
    <2> QED BY <2>1 DEF ProposalsOK
  <1> QED BY <1>1, <1>2, <1>3 DEF InvestigatorOK

LEMMA InvestigatorKeeps ==
    InvestigatorOK /\ [Next]_vars => InvestigatorOK'
  <1> SUFFICES ASSUME InvestigatorOK, [Next]_vars PROVE InvestigatorOK'
    OBVIOUS
  <1>1. CASE InvestigateOnPlaybook
    BY <1>1, StepTaken DEF InvestigateOnPlaybook, InvestigatorPlaybook, InvestigatorDone, Frame
  <1>2. CASE InvestigateOnModel
    BY <1>2, StepByModel DEF InvestigateOnModel, InvestigatorDone, Frame
  <1>3. CASE StopInvestigating
    BY <1>3, Apart DEF StopInvestigating, InvestigatorExhaust, Frame
  <1>4. CASE ChallengeOnPlaybook
    BY <1>4, Apart, OthersAsk DEF ChallengeOnPlaybook, InvestigatorVars, Frame
  <1>5. CASE ChallengeOnModel
    BY <1>5, Apart, OthersAsk DEF ChallengeOnModel, InvestigatorVars, Frame
  <1>6. CASE DiscoverOnPlaybook
    BY <1>6, Apart DEF DiscoverOnPlaybook, InvestigatorVars, Frame
  <1>7. CASE DiscoverOnModel
    BY <1>7, Apart DEF DiscoverOnModel, InvestigatorVars, Frame
  <1>8. CASE UNCHANGED vars
    BY <1>8, Apart DEF vars, InvestigatorVars, Frame
  <1> QED BY <1>1, <1>2, <1>3, <1>4, <1>5, <1>6, <1>7, <1>8 DEF Next

\* Whatever steps a model takes: an episode is concluded benign or anomalous
\* only as the deterministic assessment of all the evidence, with the links
\* verified by then, has it; evaluations made before the last links and the
\* last evidence do not mislead (agents/investigator.py _conclude).
THEOREM ConclusionsHold ==
    Spec => []ConclusionHolds
  <1>1. InvestigatorOK => ConclusionHolds
    BY DEF InvestigatorOK
  <1> QED BY <1>1, InvestigatorBegins, InvestigatorKeeps, PTL DEF Spec

-----------------------------------------------------------------------------
(* The challenger. *)

\* A confirmed finding verifies, and goes on doing so; one dismissed on the
\* playbook alone does not, on all the evidence it asks for.
FindingOK(i) ==
    LET c == findings[i]
        all == {c.needs[k] : k \in DOMAIN c.needs}
    IN  /\ DOMAIN c = {"kind", "episode", "item", "needs", "status"}
        /\ c.status = "CONFIRMED" => VerifiesNow(i)
        /\ c.status = "AGENT_DISMISSED" /\ strays = 0 =>
             ~ Verifies(snap, context.conclusions, all, c)

ChallengerOK == strays \in Nat /\ \A i \in DOMAIN findings : FindingOK(i)

\* The shapes of a candidate finding.
Subject(s, c) ==
    /\ DOMAIN c = {"kind", "episode", "item", "needs", "status"} /\ c.status = "PENDING"
    /\ c.episode \in DOMAIN s.episodes
    /\ \/ c.kind \in {"BLIND_SPOT", "ALTERNATIVE_EXPLANATION", "REDUNDANT_DETECTION"} /\ c.item = c.episode
       \/ /\ c.kind = "MISSING_CONTEXT"
          /\ \E a \in Alerts(s, c.episode) : c.item = a.id

LEMMA CandidatesAre ==
    ASSUME NEW s, NEW conclusions, IsData(s)
    PROVE  /\ \A c \in Candidates(s, conclusions) : Subject(s, c)
           /\ \A c \in Candidates(s, conclusions), d \in Candidates(s, conclusions) :
                c.kind = d.kind /\ c.item = d.item => c = d
  <1> DEFINE episodes == DOMAIN s.episodes
             related(e) == Finding("REDUNDANT_DETECTION", e, e, << <<"get_related_alerts", e>> >>)
             explained(e) == Finding("ALTERNATIVE_EXPLANATION", e, e,
                                     << <<"get_episode", e>> >> \o Each("get_rule", DetectionRules(s, e)))
             rebooked(e, a, o) == Finding("MISSING_CONTEXT", e, a.id,
                                          << <<"compare_trades", o, a.trade>> >>)
             unseen(e) == Finding("BLIND_SPOT", e, e,
                                  << <<"get_event_sequence", e>> >>
                                  \o Each("compare_trade_versions", s.episodes[e].trades))
             Redundant(c) == \E e \in episodes : c = related(e)
             Alternative(c) == \E e \in episodes : c = explained(e)
             Missing(c) == \E e \in episodes : \E a \in Alerts(s, e) :
                             \E o \in OriginalOf(s, e, a) : c = rebooked(e, a, o)
             Blind(c) == \E e \in episodes : c = unseen(e)
  <1>1. ASSUME NEW c \in Candidates(s, conclusions)
        PROVE  Redundant(c) \/ Alternative(c) \/ Missing(c) \/ Blind(c)
    <2> DEFINE redundant == {related(e) : e \in {x \in episodes :
                                Cardinality(Alerts(s, x)) >= Cfg.redundancy_min_alerts}}
               alternative == {explained(e) : e \in {x \in episodes :
                                /\ DetectionRules(s, x) # {}
                                /\ ClassOf(conclusions[x]) = "BENIGN"}}
               missing == UNION {UNION {{rebooked(e, a, o) : o \in OriginalOf(s, e, a)} :
                                        a \in {x \in Alerts(s, e) : x.rule \in Cfg.exposure_rules}} :
                                 e \in episodes}
               blind == {unseen(e) : e \in {x \in episodes : /\ DetectionRules(s, x) = {}
                                                             /\ BlindSpot(s, conclusions, x)}}
    <2>1. Candidates(s, conclusions) = ((redundant \cup alternative) \cup missing) \cup blind
      BY Zenon DEF Candidates
    <2> HIDE DEF related, explained, rebooked, unseen
    <2>2. c \in redundant => Redundant(c)
      BY Zenon
    <2>3. c \in alternative => Alternative(c)
      BY Zenon
    <2>4. ASSUME c \in missing PROVE Missing(c)
      <3>1. PICK e \in episodes :
              c \in UNION {{rebooked(e, a, o) : o \in OriginalOf(s, e, a)} :
                           a \in {x \in Alerts(s, e) : x.rule \in Cfg.exposure_rules}}
        BY <2>4, Zenon
      <3>2. PICK a \in Alerts(s, e) : c \in {rebooked(e, a, o) : o \in OriginalOf(s, e, a)}
        BY <3>1, Zenon
      <3> QED BY <3>2, Zenon
    <2>5. c \in blind => Blind(c)
      BY Zenon
    <2> HIDE DEF redundant, alternative, missing, blind, Redundant, Alternative, Missing, Blind
    <2> QED BY <1>1, <2>1, <2>2, <2>3, <2>4, <2>5, Zenon
  <1>2. /\ \A e : /\ related(e).kind = "REDUNDANT_DETECTION"
                  /\ related(e).item = e /\ related(e).episode = e
        /\ \A e : /\ explained(e).kind = "ALTERNATIVE_EXPLANATION"
                  /\ explained(e).item = e /\ explained(e).episode = e
        /\ \A e : unseen(e).kind = "BLIND_SPOT" /\ unseen(e).item = e /\ unseen(e).episode = e
        /\ \A e, a, o : /\ rebooked(e, a, o).kind = "MISSING_CONTEXT"
                        /\ rebooked(e, a, o).item = a.id /\ rebooked(e, a, o).episode = e
    BY DEF Finding
  <1>3. ASSUME NEW e \in episodes, NEW a \in Alerts(s, e), NEW f \in episodes, NEW b \in Alerts(s, f),
               a.id = b.id, NEW o \in OriginalOf(s, e, a), NEW q \in OriginalOf(s, f, b)
        PROVE  rebooked(e, a, o) = rebooked(f, b, q)
    <2>1. e = f /\ a = b
      BY <1>3 DEF IsData, Alerts
    <2>2. o = q
      BY <2>1 DEF IsData, OriginalOf
    <2> QED BY <2>1, <2>2
  <1> DEFINE blank(c) == DOMAIN c = {"kind", "episode", "item", "needs", "status"} /\ c.status = "PENDING"
  <1>4. /\ \A e : blank(related(e)) /\ blank(explained(e)) /\ blank(unseen(e))
        /\ \A e, a, o : blank(rebooked(e, a, o))
    BY DEF Finding
  <1> HIDE DEF related, explained, rebooked, unseen
  <1>5. ASSUME NEW c \in Candidates(s, conclusions) PROVE Subject(s, c)
    BY <1>1, <1>2, <1>4 DEF Subject
  <1>6. ASSUME NEW c \in Candidates(s, conclusions), NEW d \in Candidates(s, conclusions),
               c.kind = d.kind, c.item = d.item
        PROVE  c = d
    <2>1. CASE Missing(c)
      <3>1. Missing(d)
        BY <1>1, <1>2, <1>6, <2>1
      <3> QED BY <1>2, <1>3, <1>6, <2>1, <3>1
    <2>2. CASE Redundant(c) \/ Alternative(c) \/ Blind(c)
      BY <1>1, <1>2, <1>6, <2>2
    <2> QED BY <1>1, <2>1, <2>2
  <1> QED BY <1>5, <1>6

LEMMA CandidatesArePending ==
    ASSUME NEW s, NEW conclusions, IsData(s), NEW c \in Chosen(s, conclusions)
    PROVE  /\ DOMAIN c = {"kind", "episode", "item", "needs", "status"}
           /\ c.status = "PENDING"
  <1>1. c \in Candidates(s, conclusions)
    BY Zenon DEF Chosen
  <1> QED BY <1>1, CandidatesAre DEF Subject

\* More evidence confirms no less.
LEMMA EvidenceConfirms ==
    ASSUME NEW s, NEW conclusions, NEW G, NEW H, G \subseteq H, NEW c, NEW d,
           d.kind = c.kind, d.episode = c.episode, d.needs = c.needs,
           Verifies(s, conclusions, G, c)
    PROVE  Verifies(s, conclusions, H, d)
  BY DEF Verifies

\* What has all it needs and does not verify never will.
LEMMA NothingIsMissing ==
    ASSUME NEW s, NEW conclusions, NEW G, NEW c, \A k \in DOMAIN c.needs : c.needs[k] \in G,
           ~ Verifies(s, conclusions, G, c), NEW H
    PROVE  ~ Verifies(s, conclusions, H, c)
  BY DEF Verifies

\* Steps of the model are counted, and nothing that was seen is lost.
Counted == strays' \in Nat /\ (strays' = 0 => strays = 0)

LEMMA FindingStays ==
    ASSUME Frame, Counted, evidence \subseteq evidence',
           NEW i \in DOMAIN findings, FindingOK(i), findings'[i] = findings[i]
    PROVE  FindingOK(i)'
  <1>1. snap' = snap /\ context' = context
    BY FrameKeeps DEF Frame
  <1>2. Bag \subseteq Bag'
    BY DEF Bag
  <1>3. findings[i].status = "CONFIRMED" =>
          Verifies(snap, context.conclusions, Bag', findings[i])
    <2> SUFFICES ASSUME findings[i].status = "CONFIRMED"
                 PROVE  Verifies(snap, context.conclusions, Bag', findings[i])
      OBVIOUS
    <2>1. Verifies(snap, context.conclusions, Bag, findings[i])
      BY DEF FindingOK, VerifiesNow
    <2> QED BY <1>2, <2>1, EvidenceConfirms
  <1>4. DOMAIN findings[i] = {"kind", "episode", "item", "needs", "status"}
    BY DEF FindingOK
  <1>5. findings[i].status = "AGENT_DISMISSED" /\ strays' = 0 =>
          ~ Verifies(snap, context.conclusions,
                     {findings[i].needs[k] : k \in DOMAIN findings[i].needs}, findings[i])
    BY DEF FindingOK, Counted
  <1> QED BY <1>1, <1>3, <1>4, <1>5 DEF FindingOK, VerifiesNow

LEMMA FindingsStay ==
    ASSUME Frame, Counted, evidence \subseteq evidence', ChallengerOK, findings' = findings
    PROVE  ChallengerOK'
  <1>1. ASSUME NEW i \in DOMAIN findings PROVE FindingOK(i)'
    BY <1>1, FindingStays DEF ChallengerOK
  <1> QED BY <1>1 DEF ChallengerOK, Counted

LEMMA Deciding ==
    ASSUME Frame, Counted, ChallengerOK,
           NEW i, NEW accepted \in BOOLEAN, NEW status, Decide(i, accepted, status),
           accepted /\ status = "CONFIRMED" => VerifiesNow(i),
           accepted /\ status = "AGENT_DISMISSED" /\ strays' = 0 =>
               ~ VerifiesNow(i) /\ \A k \in DOMAIN findings[i].needs : findings[i].needs[k] \in Bag
    PROVE  ChallengerOK'
  <1>1. evidence' = evidence /\ snap' = snap /\ context' = context /\ Bag' = Bag
    BY FrameKeeps DEF Decide, Frame, Bag
  <1>2. CASE findings' = findings
    BY <1>1, <1>2, FindingsStay
  <1>3. CASE findings' # findings
    <2>1. accepted /\ findings' = [findings EXCEPT ![i].status = status]
      BY <1>3 DEF Decide
    <2>2. DOMAIN findings' = DOMAIN findings
          /\ \A j \in DOMAIN findings \ {i} : findings'[j] = findings[j]
      BY <2>1
    <2>3. ASSUME NEW j \in DOMAIN findings \ {i} PROVE FindingOK(j)'
      BY <1>1, <2>2, <2>3, FindingStays DEF ChallengerOK
    <2>4. ASSUME i \in DOMAIN findings PROVE FindingOK(i)'
      <3> DEFINE c == findings[i]
                 d == findings'[i]
                 all == {c.needs[k] : k \in DOMAIN c.needs}
      <3>1. DOMAIN c = {"kind", "episode", "item", "needs", "status"}
        BY <2>4 DEF ChallengerOK, FindingOK
      <3>2. d = [c EXCEPT !.status = status]
        BY <2>1, <2>4
      <3> HIDE DEF c, d
      <3>3. /\ DOMAIN d = DOMAIN c /\ d.status = status
            /\ d.kind = c.kind /\ d.episode = c.episode /\ d.needs = c.needs
        BY <3>1, <3>2
      <3>4. status = "CONFIRMED" => Verifies(snap, context.conclusions, Bag, d)
        <4> SUFFICES ASSUME status = "CONFIRMED"
                     PROVE  Verifies(snap, context.conclusions, Bag, d)
          OBVIOUS
        <4>1. Verifies(snap, context.conclusions, Bag, c)
          BY <2>1 DEF VerifiesNow, c
        <4> QED BY <3>3, <4>1, EvidenceConfirms
      <3>5. status = "AGENT_DISMISSED" /\ strays' = 0 => ~ Verifies(snap, context.conclusions, all, d)
        <4> SUFFICES ASSUME status = "AGENT_DISMISSED", strays' = 0,
                            Verifies(snap, context.conclusions, all, d)
                     PROVE  FALSE
          OBVIOUS
        <4>1. Verifies(snap, context.conclusions, all, c)
          BY <3>3, EvidenceConfirms
        <4>2. ~ Verifies(snap, context.conclusions, Bag, c)
              /\ \A k \in DOMAIN c.needs : c.needs[k] \in Bag
          BY <2>1 DEF VerifiesNow, c
        <4> QED BY <4>1, <4>2, NothingIsMissing
      <3> QED BY <1>1, <3>1, <3>3, <3>4, <3>5 DEF FindingOK, VerifiesNow, d
    <2> QED BY <2>2, <2>3, <2>4 DEF ChallengerOK, Counted
  <1> QED BY <1>2, <1>3

LEMMA PlaybookChallenges ==
    ASSUME Frame, ChallengerOK, strays' = strays, ChallengerPlaybook
    PROVE  ChallengerOK'
  <1> DEFINE pending == {k \in DOMAIN findings : Undecided(k)}
             i == Min(pending)
             missing == {k \in DOMAIN findings[i].needs : findings[i].needs[k] \notin Bag}
             status == IF VerifiesNow(i) THEN "CONFIRMED" ELSE "AGENT_DISMISSED"
  <1>1. Counted
    BY DEF Counted, ChallengerOK
  <1>2. \/ Finish \/ \E r : Gather(r)
        \/ missing = {} /\ Decide(i, TRUE, status)
    BY Zenon DEF ChallengerPlaybook
  <1>3. CASE Finish
    BY <1>1, <1>3, FindingsStay DEF Finish
  <1>4. CASE \E r : Gather(r)
    BY <1>1, <1>4, FindingsStay DEF Gather, ChallengerVars
  <1>5. CASE missing = {} /\ Decide(i, TRUE, status)
    <2>1. \A k \in DOMAIN findings[i].needs : findings[i].needs[k] \in Bag
      BY <1>5
    <2> HIDE DEF i, missing
    <2> QED BY <1>1, <1>5, <2>1, Deciding
  <1> QED BY <1>2, <1>3, <1>4, <1>5

LEMMA ModelChallenges ==
    ASSUME Frame, ChallengerOK, ChallengerModel
    PROVE  ChallengerOK'
  <1>1. Counted /\ strays' # 0
    BY DEF Counted, ChallengerOK, ChallengerModel
  <1>2. CASE \E r : Gather(r)
    BY <1>1, <1>2, FindingsStay DEF Gather, ChallengerVars
  <1>3. CASE \E i \in DOMAIN findings : Confirm(i)
    <2>1. PICK i \in DOMAIN findings : Confirm(i)
      BY <1>3
    <2> DEFINE accepted == VerifiesNow(i)
    <2>2. accepted \in BOOLEAN
      BY DEF VerifiesNow, Verifies
    <2> QED BY <1>1, <2>1, <2>2, Deciding DEF Confirm
  <1>4. CASE \E i \in DOMAIN findings : Dismiss(i)
    BY <1>1, <1>4, Deciding DEF Dismiss
  <1>5. CASE Finish
    BY <1>1, <1>5, FindingsStay DEF Finish
  <1> QED BY <1>2, <1>3, <1>4, <1>5 DEF ChallengerModel

\* An investigation loses no evidence.
LEMMA InvestigationGathers ==
    ASSUME InvestigatorPlaybook \/ InvestigatorModel \/ InvestigatorExhaust
    PROVE  evidence \subseteq evidence'
  <1>1. ASSUME NEW types, ProposeHypotheses(types) PROVE evidence' = evidence
    BY <1>1 DEF ProposeHypotheses
  <1>2. ASSUME NEW r, CallTool(r) PROVE evidence \subseteq evidence'
    BY <1>2 DEF CallTool
  <1>3. ASSUME NEW a, NEW b, ProposeLink(a, b) PROVE evidence' = evidence
    BY <1>3 DEF ProposeLink
  <1>4. ASSUME NEW h, EvaluateHypothesis(h) PROVE evidence' = evidence
    BY <1>4 DEF EvaluateHypothesis
  <1>5. ASSUME NEW h, NEW valid, Conclude(h, valid) PROVE evidence' = evidence
    BY <1>5 DEF Conclude
  <1>6. Abstain \/ InvestigatorExhaust => evidence' = evidence
    BY DEF Abstain, InvestigatorExhaust
  <1>7. CASE InvestigatorPlaybook
    <2>1. PICK step : Take(step)
      BY <1>7, Zenon DEF InvestigatorPlaybook
    <2>2. \/ CallTool(step.with) \/ ProposeHypotheses(step.with)
          \/ ProposeLink(step.with[1], step.with[2]) \/ EvaluateHypothesis(step.with)
          \/ Conclude(step.with, TRUE) \/ Abstain
      BY <2>1, Zenon DEF Take
    <2> QED BY <2>2, <1>1, <1>2, <1>3, <1>4, <1>5, <1>6
  <1>8. CASE InvestigatorModel
    <2>1. \/ (\E types : ProposeHypotheses(types)) \/ (\E r : CallTool(r))
          \/ (\E h : EvaluateHypothesis(h)) \/ (\E a, b : ProposeLink(a, b))
          \/ (\E h, valid : Conclude(h, valid)) \/ Abstain
      BY <1>8, Zenon DEF InvestigatorModel
    <2> QED BY <2>1, <1>1, <1>2, <1>3, <1>4, <1>5, <1>6
  <1> QED BY <1>6, <1>7, <1>8

LEMMA ChallengerBegins ==
    Init => ChallengerOK
  <1> SUFFICES ASSUME Init PROVE ChallengerOK
    OBVIOUS
  <1> DEFINE chosen == Chosen(snap, context.conclusions)
  <1>1. strays = 0
    BY DEF Init
  <1>2. findings = << >> \/ findings \in Reviewed(snap, context.conclusions)
    BY DEF Init, ChallengerInit
  <1>3. ASSUME NEW i \in DOMAIN findings PROVE FindingOK(i)
    <2>1. findings[i] \in chosen
      <3>1. findings \in SetToSeqs(chosen)
        BY <1>2 DEF Reviewed
      <3> HIDE DEF chosen
      <3> QED BY <3>1 DEF SetToSeqs
    <2>2. IsData(snap)
      BY InvestigatorBegins, SnapshotIsData DEF InvestigatorOK
    <2> QED BY <2>1, <2>2, CandidatesArePending DEF FindingOK
  <1> QED BY <1>1, <1>3 DEF ChallengerOK

LEMMA ChallengerKeeps ==
    ChallengerOK /\ [Next]_vars => ChallengerOK'
  <1> SUFFICES ASSUME ChallengerOK, [Next]_vars PROVE ChallengerOK'
    OBVIOUS
  <1>1. CASE InvestigateOnPlaybook
    BY <1>1, InvestigationGathers, FindingsStay
       DEF InvestigateOnPlaybook, Frame, Counted, ChallengerOK, ChallengerVars
  <1>2. CASE InvestigateOnModel
    <2>1. Counted
      BY <1>2 DEF InvestigateOnModel, InvestigatorModel, Counted, ChallengerOK
    <2> QED BY <1>2, <2>1, InvestigationGathers, FindingsStay
            DEF InvestigateOnModel, Frame, ChallengerVars
  <1>3. CASE StopInvestigating
    BY <1>3, InvestigationGathers, FindingsStay
       DEF StopInvestigating, Frame, Counted, ChallengerOK, ChallengerVars
  <1>4. CASE ChallengeOnPlaybook
    BY <1>4, PlaybookChallenges DEF ChallengeOnPlaybook, Frame
  <1>5. CASE ChallengeOnModel
    BY <1>5, ModelChallenges DEF ChallengeOnModel, Frame
  <1>6. CASE DiscoverOnPlaybook
    BY <1>6, FindingsStay DEF DiscoverOnPlaybook, Frame, Counted, ChallengerOK, ChallengerVars
  <1>7. CASE DiscoverOnModel
    <2>1. Counted
      BY <1>7 DEF DiscoverOnModel, DiscoveryModel, Counted, ChallengerOK
    <2> QED BY <1>7, <2>1, FindingsStay DEF DiscoverOnModel, Frame, ChallengerVars
  <1>8. CASE UNCHANGED vars
    BY <1>8, FindingsStay DEF vars, Frame, Counted, ChallengerOK, ChallengerVars
  <1> QED BY <1>1, <1>2, <1>3, <1>4, <1>5, <1>6, <1>7, <1>8 DEF Next

LEMMA ChallengesHold ==
    InvestigatorOK /\ ChallengerOK => ChallengeHolds
  <1> SUFFICES ASSUME InvestigatorOK, ChallengerOK, NEW i \in DOMAIN findings
               PROVE  /\ findings[i].status = "CONFIRMED" =>
                          /\ VerifiesNow(i)
                          /\ \A k \in DOMAIN findings[i].needs : Answers(findings[i].needs[k])
                      /\ findings[i].status = "AGENT_DISMISSED" /\ strays = 0 =>
                          ~ Verifies(snap, context.conclusions,
                                     {findings[i].needs[k] : k \in DOMAIN findings[i].needs},
                                     findings[i])
    BY Zenon DEF ChallengeHolds
  <1>1. FindingOK(i) /\ EvidenceOK
    BY DEF InvestigatorOK, ChallengerOK
  <1>2. VerifiesNow(i) => \A k \in DOMAIN findings[i].needs : findings[i].needs[k] \in Bag
    BY DEF VerifiesNow, Verifies
  <1> QED BY <1>1, <1>2 DEF FindingOK, EvidenceOK, Bag

-----------------------------------------------------------------------------
(* Discovery: the patterns of a run. *)

\* A finite set has an element none other precedes.
LEMMA NonePrecedes ==
    ASSUME NEW S, IsFiniteSet(S), S # {}, NEW R,
           \A x \in S : <<x, x>> \notin R,
           \A x \in S, y \in S, z \in S : <<x, y>> \in R /\ <<y, z>> \in R => <<x, z>> \in R
    PROVE  \E x \in S : \A y \in S : <<y, x>> \notin R
  <1> DEFINE rank(x) == Cardinality(Preceding(S, R, x))
             ranks == {rank(x) : x \in S}
  <1>1. \A x \in S : IsFiniteSet(Preceding(S, R, x)) /\ rank(x) \in Nat
    <2> TAKE x \in S
    <2>1. Preceding(S, R, x) \subseteq S
      BY DEF Preceding
    <2> QED BY <2>1, FS_Subset, FS_CardinalityType
  <1>2. PICK x \in S : \A y \in S : rank(x) <= rank(y)
    <2>1. ranks \subseteq Nat /\ ranks # {}
      BY <1>1
    <2>2. PICK n \in ranks : \A m \in ranks : n <= m
      BY <2>1, LeastNumber
    <2> QED BY <2>2
  <1>3. ASSUME NEW y \in S, <<y, x>> \in R PROVE FALSE
    <2>1. /\ Preceding(S, R, y) \subseteq Preceding(S, R, x)
          /\ y \in Preceding(S, R, x) /\ y \notin Preceding(S, R, y)
      BY <1>3 DEF Preceding
    <2>2. rank(y) <= rank(x) /\ rank(y) # rank(x)
      BY <1>1, <2>1, FS_Subset
    <2> QED BY <1>1, <1>2, <2>2
  <1> QED BY <1>3

\* There is a choice of any size that leaves out nothing preceding a chosen one.
LEMMA FirstFew ==
    ASSUME NEW S, IsFiniteSet(S), NEW R,
           \A x \in S : <<x, x>> \notin R,
           \A x \in S, y \in S, z \in S : <<x, y>> \in R /\ <<y, z>> \in R => <<x, z>> \in R,
           NEW n \in Nat, n <= Cardinality(S)
    PROVE  \E T \in SUBSET S : Cardinality(T) = n /\ \A p \in T, q \in S \ T : <<q, p>> \notin R
  <1> DEFINE few(k) == \E T \in SUBSET S :
                         Cardinality(T) = k /\ \A p \in T, q \in S \ T : <<q, p>> \notin R
             sizes == {k \in Nat : k <= Cardinality(S) => few(k)}
  <1>1. Cardinality(S) \in Nat
    BY FS_CardinalityType
  <1>2. 0 \in sizes
    <2>1. few(0)
      BY FS_EmptySet
    <2> QED BY <2>1
  <1>3. ASSUME NEW k \in Nat, k \in sizes, k + 1 <= Cardinality(S) PROVE few(k + 1)
    <2>1. PICK T \in SUBSET S : Cardinality(T) = k /\ \A p \in T, q \in S \ T : <<q, p>> \notin R
      BY <1>1, <1>3
    <2>2. IsFiniteSet(T) /\ IsFiniteSet(S \ T) /\ S \ T # {}
      <3>1. IsFiniteSet(T) /\ IsFiniteSet(S \ T)
        BY FS_Subset
      <3>2. T # S
        BY <1>1, <1>3, <2>1
      <3> QED BY <3>1, <3>2
    <2>3. PICK x \in S \ T : \A y \in S \ T : <<y, x>> \notin R
      <3> DEFINE left == S \ T
      <3>1. left \subseteq S /\ IsFiniteSet(left) /\ left # {}
        BY <2>2
      <3> HIDE DEF left
      <3>2. /\ \A a \in left : <<a, a>> \notin R
            /\ \A a \in left, b \in left, c \in left :
                 <<a, b>> \in R /\ <<b, c>> \in R => <<a, c>> \in R
        BY <3>1
      <3>3. \E a \in left : \A b \in left : <<b, a>> \notin R
        BY <3>1, <3>2, NonePrecedes
      <3> QED BY <3>3 DEF left
    <2>4. Cardinality(T \cup {x}) = k + 1
      BY <2>1, <2>2, FS_AddElement
    <2>5. \A p \in T \cup {x}, q \in S \ (T \cup {x}) : <<q, p>> \notin R
      BY <2>1, <2>3
    <2> QED BY <2>4, <2>5
  <1> HIDE DEF few
  <1>4. \A k \in Nat : k \in sizes => k + 1 \in sizes
    BY <1>3
  <1>5. n \in sizes
    <2> HIDE DEF sizes
    <2> QED BY <1>2, <1>4, SetInduction
  <1> QED BY <1>5 DEF few

Tuples(n) == [1..n -> Int]

\* Tuples of one length are ordered by the first place they differ in.
LEMMA LowerIsOrder ==
    ASSUME NEW n \in Nat
    PROVE  /\ \A a \in Tuples(n) : ~ Lower(a, a)
           /\ \A a \in Tuples(n), b \in Tuples(n), c \in Tuples(n) :
                Lower(a, b) /\ Lower(b, c) => Lower(a, c)
           /\ \A a \in Tuples(n), b \in Tuples(n) : a = b \/ Lower(a, b) \/ Lower(b, a)
  <1>1. \A a \in Tuples(n) : DOMAIN a = 1..n /\ \A i \in 1..n : a[i] \in Int
    BY DEF Tuples
  <1>2. \A a \in Tuples(n) : ~ Lower(a, a)
    BY <1>1 DEF Lower
  <1>3. ASSUME NEW a \in Tuples(n), NEW b \in Tuples(n), NEW c \in Tuples(n),
               Lower(a, b), Lower(b, c)
        PROVE  Lower(a, c)
    <2>1. PICK i \in 1..n : a[i] < b[i] /\ \A j \in 1..(i - 1) : a[j] = b[j]
      BY <1>1, <1>3 DEF Lower
    <2>2. PICK k \in 1..n : b[k] < c[k] /\ \A j \in 1..(k - 1) : b[j] = c[j]
      BY <1>1, <1>3 DEF Lower
    <2> DEFINE m == IF i <= k THEN i ELSE k
    <2>3. m \in 1..n /\ m <= i /\ m <= k /\ (m = i \/ m = k)
      OBVIOUS
    <2>4. \A j \in 1..(m - 1) : j \in 1..(i - 1) /\ j \in 1..(k - 1)
      BY <2>3
    <2>5. \A j \in 1..(m - 1) : a[j] = c[j]
      BY <2>1, <2>2, <2>4
    <2>6. /\ m = i \/ a[m] = b[m]
          /\ m = k \/ b[m] = c[m]
      BY <2>1, <2>2, <2>3
    <2>7. a[m] < c[m]
      <3> HIDE DEF m
      <3>1. {a[m], b[m], c[m]} \subseteq Int
        BY <1>1, <2>3
      <3>2. a[m] <= b[m] /\ b[m] <= c[m] /\ (a[m] < b[m] \/ b[m] < c[m])
        BY <2>1, <2>2, <2>3, <2>6, <3>1
      <3> QED BY <3>1, <3>2
    <2> QED BY <1>1, <2>3, <2>5, <2>7 DEF Lower
  <1>4. ASSUME NEW a \in Tuples(n), NEW b \in Tuples(n), a # b
        PROVE  Lower(a, b) \/ Lower(b, a)
    <2> DEFINE apart == {i \in 1..n : a[i] # b[i]}
    <2>1. apart \subseteq Nat /\ apart # {}
      <3>1. \E i \in 1..n : a[i] # b[i]
        BY <1>4 DEF Tuples
      <3> QED BY <3>1
    <2>2. PICK i \in apart : \A j \in apart : i <= j
      BY <2>1, LeastNumber
    <2>3. i \in 1..n /\ a[i] # b[i] /\ a[i] \in Int /\ b[i] \in Int
      BY <1>1
    <2>4. \A j \in 1..(i - 1) : a[j] = b[j]
      <3> TAKE j \in 1..(i - 1)
      <3>1. j \in 1..n /\ j < i
        BY <2>3
      <3> QED BY <2>2, <2>3, <3>1
    <2>5. a[i] < b[i] \/ b[i] < a[i]
      BY <2>3
    <2> QED BY <1>1, <2>3, <2>4, <2>5 DEF Lower
  <1> QED BY <1>2, <1>3, <1>4

\* What the strength of a pattern is made of.
Measured(p) ==
    /\ p.support \in Nat \ {0} /\ {p.evidence, p.escalated} \subseteq Nat
    /\ IsFiniteSet(p.items)

\* A pattern that is closed and strong is one that was found.
LEMMA MostSpecificAreFound ==
    ASSUME NEW found, IsFiniteSet(found), \A p \in found : IsFiniteSet(p.items)
    PROVE  MostSpecific(found) \subseteq found
  <1> DEFINE most(m, p) == /\ p.members = m
                           /\ \A q \in found :
                                q.members = m => Cardinality(q.items) <= Cardinality(p.items)
             groups == {p.members : p \in found}
  <1>1. \A p \in found : Cardinality(p.items) \in Nat
    BY FS_CardinalityType
  <1>2. ASSUME NEW m \in groups PROVE \E p \in found : most(m, p)
    <2> DEFINE group == {p \in found : p.members = m}
               R == {x \in group \X group : Cardinality(x[1].items) > Cardinality(x[2].items)}
    <2>1. group \subseteq found /\ group # {} /\ IsFiniteSet(group)
      <3>1. group \subseteq found /\ group # {}
        BY <1>2
      <3> QED BY <3>1, FS_Subset
    <2>2. \A x \in group, y \in group :
            <<x, y>> \in R <=> Cardinality(x.items) > Cardinality(y.items)
      OBVIOUS
    <2>3. \A x \in group : Cardinality(x.items) \in Nat
      BY <1>1, <2>1
    <2> HIDE DEF R
    <2>4. \E x \in group : \A y \in group : <<y, x>> \notin R
      <3> HIDE DEF group
      <3>1. \A x \in group : <<x, x>> \notin R
        BY <2>2, <2>3
      <3>2. \A x \in group, y \in group, z \in group :
              <<x, y>> \in R /\ <<y, z>> \in R => <<x, z>> \in R
        BY <2>2, <2>3
      <3> QED BY <2>1, <3>1, <3>2, NonePrecedes
    <2>5. PICK x \in group : \A y \in group : <<y, x>> \notin R
      BY <2>4
    <2>6. ASSUME NEW y \in group PROVE Cardinality(y.items) <= Cardinality(x.items)
      <3>1. ~ (Cardinality(y.items) > Cardinality(x.items))
        BY <2>2, <2>5
      <3> QED BY <2>3, <3>1
    <2>7. x \in found /\ x.members = m
      OBVIOUS
    <2> QED BY <2>6, <2>7
  <1>3. MostSpecific(found) = {CHOOSE p \in found : most(m, p) : m \in groups}
    BY Zenon DEF MostSpecific
  <1> HIDE DEF most, groups
  <1>4. \A m \in groups : (CHOOSE p \in found : most(m, p)) \in found
    BY <1>2
  <1> QED BY <1>3, <1>4

LEMMA StrongestAreOfThose ==
    ASSUME NEW best, IsFiniteSet(best), \A p \in best : Measured(p)
    PROVE  /\ StrongestFew(best) \subseteq best
           /\ Cardinality(StrongestFew(best)) <= Cfg.max_patterns_per_kind
  <1> DEFINE few == Min({Cfg.max_patterns_per_kind, Cardinality(best)})
             Top(T) == \A p \in T, q \in best \ T : ~ Lower(PatternStrength(p), PatternStrength(q))
             R == {x \in best \X best : Lower(PatternStrength(x[2]), PatternStrength(x[1]))}
  <1>1. \A p \in best : PatternStrength(p) \in Tuples(4)
    <2> TAKE p \in best
    <2>1. Measured(p) /\ Cardinality(p.items) \in Nat
      BY FS_CardinalityType DEF Measured
    <2>2. (10000 * p.evidence) \div p.support \in Int
      <3>1. 10000 * p.evidence \in Nat /\ p.support \in Nat \ {0}
        BY <2>1 DEF Measured
      <3> QED BY <3>1
    <2> QED BY <2>1, <2>2 DEF Measured, Tuples, PatternStrength
  <1>2. few \in Nat /\ few <= Cardinality(best) /\ few <= Cfg.max_patterns_per_kind
    <2>1. Cardinality(best) \in Nat /\ Cfg.max_patterns_per_kind \in Nat
      BY FS_CardinalityType, ProgramsAssumption
    <2> HIDE DEF few
    <2>2. few \in {Cfg.max_patterns_per_kind, Cardinality(best)}
          /\ \A x \in {Cfg.max_patterns_per_kind, Cardinality(best)} : few <= x
      BY <2>1, MinIsIn DEF few
    <2> QED BY <2>1, <2>2
  <1>3. \A x \in best, y \in best : <<x, y>> \in R <=> Lower(PatternStrength(y), PatternStrength(x))
    OBVIOUS
  <1>4. StrongestFew(best) = CHOOSE T \in kSubset(few, best) : Top(T)
    BY Zenon DEF StrongestFew
  <1> HIDE DEF R, few
  <1>5. /\ \A x \in best : <<x, x>> \notin R
        /\ \A x \in best, y \in best, z \in best :
             <<x, y>> \in R /\ <<y, z>> \in R => <<x, z>> \in R
    BY <1>1, <1>3, LowerIsOrder
  <1>6. \E T \in SUBSET best :
          Cardinality(T) = few /\ \A p \in T, q \in best \ T : <<q, p>> \notin R
    BY <1>2, <1>5, FirstFew
  <1>7. \E T \in kSubset(few, best) : Top(T)
    BY <1>3, <1>6 DEF kSubset
  <1> HIDE DEF Top
  <1>8. StrongestFew(best) \in kSubset(few, best)
    BY <1>4, <1>7, Zenon
  <1> QED BY <1>2, <1>8 DEF kSubset

\* A pattern that is closed and strong is one that was found.
LEMMA ClosedAreFound ==
    ASSUME NEW found, IsFiniteSet(found), \A p \in found : Measured(p)
    PROVE  Closed(found) \subseteq found /\ Cardinality(Closed(found)) <= Cfg.max_patterns_per_kind
  <1> DEFINE best == MostSpecific(found)
  <1>1. best \subseteq found
    BY MostSpecificAreFound DEF Measured
  <1>2. IsFiniteSet(best)
    BY <1>1, FS_Subset
  <1> HIDE DEF best
  <1>3. /\ StrongestFew(best) \subseteq best
        /\ Cardinality(StrongestFew(best)) <= Cfg.max_patterns_per_kind
    BY <1>1, <1>2, StrongestAreOfThose
  <1> QED BY <1>1, <1>3 DEF Closed, best

LEMMA ItemsAreFinite ==
    ASSUME NEW sig
    PROVE  IsFiniteSet(EpisodeItems(sig))
  <1> DEFINE labels == {<<"sig", sig.sequence_signature>>, <<"desk", sig.desk>>}
             raised == {g \in FlagSignals : sig[g]}
             flags == {<<"flag", f>> : f \in raised}
             banded == {m \in DOMAIN Cfg.bands : sig[m] # None}
             bands == {<<"band", <<n, Band(Cfg.bands[n], sig[n])>>>> : n \in banded}
  <1>1. IsFiniteSet(labels)
    <2>1. labels = {<<"sig", sig.sequence_signature>>} \cup {<<"desk", sig.desk>>}
      OBVIOUS
    <2> HIDE DEF labels
    <2> QED BY <2>1, FS_Singleton, FS_AddElement
  <1>2. IsFiniteSet(flags)
    <2>1. IsFiniteSet(FlagSignals)
      <3>1. FlagSignals = (((((({} \cup {"near_period_end"}) \cup {"crosses_period_end"})
                               \cup {"price_round_trip"}) \cup {"has_amend"}) \cup {"has_cancel"})
                            \cup {"has_rebook_link"}) \cup {"lifecycle_valid"}
        BY DEF FlagSignals
      <3> QED BY <3>1, FS_EmptySet, FS_AddElement
    <2>2. raised \subseteq FlagSignals
      OBVIOUS
    <2> HIDE DEF raised
    <2>3. IsFiniteSet(raised)
      BY <2>1, <2>2, FS_Subset
    <2> DEFINE flag == [f \in raised |-> <<"flag", f>>]
    <2>4. flag \in Surjection(raised, flags)
      BY DEF Surjection
    <2> HIDE DEF flag, flags
    <2> QED BY <2>3, <2>4, FS_Surjection
  <1>3. IsFiniteSet(bands)
    <2>1. banded \subseteq DOMAIN Cfg.bands
      OBVIOUS
    <2> HIDE DEF banded
    <2>2. IsFiniteSet(banded)
      BY <2>1, ProgramsAssumption, FS_Subset
    <2> DEFINE band == [n \in banded |-> <<"band", <<n, Band(Cfg.bands[n], sig[n])>>>>]
    <2>3. band \in Surjection(banded, bands)
      BY DEF Surjection
    <2> HIDE DEF band, bands
    <2> QED BY <2>2, <2>3, FS_Surjection
  <1>4. EpisodeItems(sig) = (labels \cup flags) \cup bands
    BY Zenon DEF EpisodeItems
  <1> HIDE DEF labels, flags, bands
  <1> QED BY <1>1, <1>2, <1>3, <1>4, FS_Union

LEMMA ItemsetsAreFinite ==
    ASSUME NEW points, IsFiniteSet(points)
    PROVE  /\ IsFiniteSet(Itemsets(points))
           /\ \A items \in Itemsets(points) :
                IsFiniteSet(items) /\ \E p \in points : items \subseteq Usable(p)
  <1> DEFINE usable == [p \in points |-> Usable(p)]
             sets == {usable[p] : p \in points}
             all == UNION sets
  <1>1. \A p \in points : IsFiniteSet(Usable(p))
    BY ItemsAreFinite, FS_Subset DEF Usable
  <1>2. \A items \in Itemsets(points) : \E p \in points : items \subseteq Usable(p)
    <2> TAKE items \in Itemsets(points)
    <2>1. PICK p \in points :
            items \in UNION {kSubset(k, Usable(p)) :
                               k \in 1..Min({Cfg.max_itemset, Cardinality(Usable(p))})}
      BY Zenon DEF Itemsets
    <2>2. PICK k : items \in kSubset(k, Usable(p))
      BY <2>1, Zenon
    <2> QED BY <2>2, Zenon DEF kSubset
  <1>3. IsFiniteSet(sets)
    <2>1. usable \in Surjection(points, sets)
      BY DEF Surjection
    <2> HIDE DEF usable, sets
    <2> QED BY <2>1, FS_Surjection
  <1>4. IsFiniteSet(all)
    <2>1. \A T \in sets : IsFiniteSet(T)
      BY <1>1
    <2> HIDE DEF sets
    <2> QED BY <1>3, <2>1, FS_UNION
  <1>5. Itemsets(points) \in SUBSET (SUBSET all)
    BY <1>2
  <1> HIDE DEF all
  <1>6. IsFiniteSet(SUBSET all)
    BY <1>4, FS_SUBSET
  <1> QED BY <1>1, <1>2, <1>5, <1>6, FS_Subset

\* The fields of a pattern, and what holds of one that a run may work on: a
\* benign pattern is of a desk where its scope is not open yet.
PatternFields ==
    {"items", "members", "support", "escalated", "cleared", "detected", "desks", "kind", "type",
     "evidence", "rule"}

PatternOK(s, p) ==
    p.kind = "RECURRING_BENIGN" =>
        p.desks # {} /\ \A desk \in p.desks : ~ AllowedInBulk(s, p.type, desk)

LEMMA FrequentAre ==
    ASSUME NEW s, NEW points, IsFiniteSet(points), NEW items \in Itemsets(points)
    PROVE  LET p == PatternOf(s, points, items)
           IN  /\ DOMAIN p = PatternFields
               /\ p.support \in Nat \ {0} /\ p.escalated \in Nat /\ IsFiniteSet(p.items)
  <1> DEFINE group == {p \in points : items \subseteq Usable(p)}
             p == PatternOf(s, points, items)
  <1>1. IsFiniteSet(group) /\ group # {}
    BY ItemsetsAreFinite, FS_Subset
  <1>2. Cardinality(group) \in Nat \ {0}
    BY <1>1, FS_CardinalityType, FS_EmptySet
  <1>3. Cardinality(Escalated(group)) \in Nat
    <2>1. Escalated(group) \subseteq group
      BY DEF Escalated
    <2> HIDE DEF group
    <2> QED BY <1>1, <2>1, FS_Subset, FS_CardinalityType
  <1>4. /\ p.items = items /\ p.support = Cardinality(group)
        /\ p.escalated = Cardinality(Escalated(group)) /\ DOMAIN p = PatternFields
    BY DEF PatternOf, PatternFields
  <1> HIDE DEF group, p
  <1>5. DOMAIN p = PatternFields /\ p.support \in Nat \ {0} /\ p.escalated \in Nat /\ IsFiniteSet(p.items)
    BY <1>2, <1>3, <1>4, ItemsetsAreFinite
  <1> QED BY <1>5 DEF p

LEMMA RisksAre ==
    ASSUME NEW points, IsFiniteSet(points), NEW x, DOMAIN x = PatternFields,
           x.support \in Nat \ {0}, x.escalated \in Nat, IsFiniteSet(x.items)
    PROVE  /\ Measured(Risk(points, x)) /\ DOMAIN Risk(points, x) = PatternFields
           /\ Risk(points, x).kind = "UNCAPTURED_RISK"
  <1> DEFINE risky == {y \in points : /\ y.episode \in x.members
                                      /\ y.label = "ESCALATED" \/ y.class = "ANOMALOUS"}
  <1>1. Cardinality(risky) \in Nat
    BY FS_Subset, FS_CardinalityType
  <1>2. Risk(points, x) = [x EXCEPT !.kind = "UNCAPTURED_RISK", !.evidence = Cardinality(risky)]
    BY Zenon DEF Risk
  <1> HIDE DEF risky
  <1> QED BY <1>1, <1>2 DEF Measured, PatternFields

LEMMA BenignsAre ==
    ASSUME NEW points, IsFiniteSet(points), NEW x, DOMAIN x = PatternFields,
           x.support \in Nat \ {0}, x.escalated \in Nat, IsFiniteSet(x.items)
    PROVE  /\ Measured(Benignity(points, x)) /\ DOMAIN Benignity(points, x) = PatternFields
           /\ Benignity(points, x).kind = "RECURRING_BENIGN"
  <1> DEFINE explained(t) == {y \in points : /\ y.episode \in x.members
                                             /\ y.class = "BENIGN" /\ y.type = t}
             top == CHOOSE t \in Benign : \A u \in Benign :
                        Cardinality(explained(u)) <= Cardinality(explained(t))
  <1>1. Cardinality(explained(top)) \in Nat
    <2>1. explained(top) \subseteq points
      OBVIOUS
    <2> HIDE DEF explained, top
    <2> QED BY <2>1, FS_Subset, FS_CardinalityType
  <1>2. Benignity(points, x) = [x EXCEPT !.kind = "RECURRING_BENIGN", !.type = top,
                                         !.evidence = Cardinality(explained(top))]
    BY Zenon DEF Benignity
  <1> HIDE DEF explained, top
  <1> QED BY <1>1, <1>2 DEF Measured, PatternFields

LEMMA MinedAre ==
    ASSUME NEW s, NEW points, IsFiniteSet(points)
    PROVE  /\ IsFiniteSet(MinedFrom(s, points))
           /\ Cardinality(MinedFrom(s, points)) <= 2 * Cfg.max_patterns_per_kind
           /\ \A p \in MinedFrom(s, points) :
                /\ DOMAIN p = PatternFields
                /\ p.kind = "UNCAPTURED_RISK" \/ (p.kind = "RECURRING_BENIGN" /\ IsBenign(s, p))
  <1> DEFINE itemsets == Itemsets(points)
             listed == {PatternOf(s, points, i) : i \in itemsets}
             frequent == {x \in listed : x.support >= Cfg.min_support}
             risks == {Risk(points, x) : x \in frequent}
             benigns == {Benignity(points, x) : x \in frequent}
             risky == {x \in risks : IsRisk(x)}
             clear == {x \in benigns : IsBenign(s, x)}
  <1>1. MinedFrom(s, points) = Closed(risky) \cup Closed(clear)
    BY Zenon DEF MinedFrom
  <1>2. IsFiniteSet(frequent)
    <2> DEFINE pattern == [i \in itemsets |-> PatternOf(s, points, i)]
    <2>1. pattern \in Surjection(itemsets, listed)
      BY DEF Surjection
    <2>2. IsFiniteSet(itemsets)
      BY ItemsetsAreFinite
    <2>3. frequent \subseteq listed
      OBVIOUS
    <2> HIDE DEF pattern, itemsets, listed, frequent
    <2> QED BY <2>1, <2>2, <2>3, FS_Surjection, FS_Subset
  <1>3. \A x \in frequent : /\ DOMAIN x = PatternFields /\ IsFiniteSet(x.items)
                            /\ x.support \in Nat \ {0} /\ x.escalated \in Nat
    BY FrequentAre
  <1> HIDE DEF frequent
  <1>4. IsFiniteSet(risks) /\ IsFiniteSet(benigns)
    <2> DEFINE risk == [x \in frequent |-> Risk(points, x)]
               benign == [x \in frequent |-> Benignity(points, x)]
    <2>1. risk \in Surjection(frequent, risks) /\ benign \in Surjection(frequent, benigns)
      BY DEF Surjection
    <2> HIDE DEF risk, benign, risks, benigns
    <2> QED BY <1>2, <2>1, FS_Surjection
  <1>5. \A x \in risks : /\ Measured(x) /\ DOMAIN x = PatternFields
                         /\ x.kind = "UNCAPTURED_RISK"
    BY <1>3, RisksAre
  <1>6. \A x \in benigns : /\ Measured(x) /\ DOMAIN x = PatternFields
                           /\ x.kind = "RECURRING_BENIGN"
    BY <1>3, BenignsAre
  <1> HIDE DEF risks, benigns
  <1>7. risky \subseteq risks /\ clear \subseteq benigns /\ \A x \in clear : IsBenign(s, x)
    OBVIOUS
  <1> HIDE DEF risky, clear
  <1>8. IsFiniteSet(risky) /\ IsFiniteSet(clear)
    BY <1>4, <1>7, FS_Subset
  <1>9. /\ Closed(risky) \subseteq risky /\ Cardinality(Closed(risky)) <= Cfg.max_patterns_per_kind
        /\ Closed(clear) \subseteq clear /\ Cardinality(Closed(clear)) <= Cfg.max_patterns_per_kind
    BY <1>5, <1>6, <1>7, <1>8, ClosedAreFound
  <1>10. /\ IsFiniteSet(MinedFrom(s, points))
         /\ Cardinality(MinedFrom(s, points)) <= 2 * Cfg.max_patterns_per_kind
    <2> DEFINE A == Closed(risky)
               B == Closed(clear)
    <2>1. IsFiniteSet(A) /\ IsFiniteSet(B)
      BY <1>8, <1>9, FS_Subset
    <2>2. Cardinality(A) <= Cfg.max_patterns_per_kind /\ Cardinality(B) <= Cfg.max_patterns_per_kind
      BY <1>9
    <2> HIDE DEF A, B
    <2>3. IsFiniteSet(A \cup B) /\ IsFiniteSet(A \cap B)
          /\ Cardinality(A \cup B) = Cardinality(A) + Cardinality(B) - Cardinality(A \cap B)
      BY <2>1, FS_Union, FS_Subset
    <2>4. {Cardinality(A), Cardinality(B), Cardinality(A \cap B), Cfg.max_patterns_per_kind} \subseteq Nat
      BY <2>1, <2>3, FS_CardinalityType, ProgramsAssumption
    <2>5. Cardinality(A \cup B) <= 2 * Cfg.max_patterns_per_kind
      BY <2>2, <2>3, <2>4
    <2> QED BY <1>1, <2>3, <2>5 DEF A, B
  <1> QED BY <1>1, <1>5, <1>6, <1>7, <1>9, <1>10

LEMMA PatternsAre ==
    ASSUME NEW s, NEW points, IsFiniteSet(points), NEW p \in Patterns(s, points)
    PROVE  PatternOK(s, p)
  <1>1. PICK q \in MinedFrom(s, points) :
          p = IF q.kind = "UNCAPTURED_RISK" THEN [q EXCEPT !.rule = Synthesized(s, points, q)] ELSE q
    BY Zenon DEF Patterns
  <1>2. /\ DOMAIN q = PatternFields
        /\ q.kind = "UNCAPTURED_RISK" \/ (q.kind = "RECURRING_BENIGN" /\ IsBenign(s, q))
    BY MinedAre
  <1>3. CASE q.kind = "UNCAPTURED_RISK"
    <2>1. p.kind = "UNCAPTURED_RISK"
      BY <1>1, <1>2, <1>3 DEF PatternFields
    <2> QED BY <2>1 DEF PatternOK
  <1>4. CASE q.kind = "RECURRING_BENIGN" /\ IsBenign(s, q)
    <2>1. p = q
      BY <1>1, <1>4
    <2>2. q.desks # {} /\ \A desk \in q.desks : ~ AllowedInBulk(s, q.type, desk)
      BY <1>4, FS_EmptySet DEF IsBenign
    <2> QED BY <2>1, <2>2 DEF PatternOK
  <1> QED BY <1>2, <1>3, <1>4

LEMMA HistoryIsFinite ==
    ASSUME NEW w \in DOMAIN Worlds
    PROVE  IsFiniteSet(Contexts[w].points)
  <1> DEFINE history == BuildSnapshot([Worlds[w] EXCEPT !.historical = TRUE])
             conclusions == Conclusions(history)
  <1>1. Contexts[w].points = HistoryOf(history, conclusions)
    BY DEF Contexts, ContextOf
  <1>2. IsFiniteSet(DOMAIN history.episodes)
    BY ProgramsAssumption, SnapshotKeeps DEF IsData
  <1> HIDE DEF history, conclusions
  <1> DEFINE stop == history.asOf - Cfg.shadow_window
             window == {e \in DOMAIN history.episodes :
                          EvalTime(history, e) >= stop - Cfg.replay_window
                          /\ EvalTime(history, e) < stop}
             point == [e \in window |->
                         [episode |-> e, desk |-> history.episodes[e].desk,
                          label |-> CuratedLabel(history, e), signals |-> history.signals[e],
                          class |-> ClassOf(conclusions[e]), type |-> conclusions[e]]]
             points == {point[e] : e \in window}
  <1>3. HistoryOf(history, conclusions) = points
    BY DEF HistoryOf
  <1>4. IsFiniteSet(window)
    BY <1>2, FS_Subset
  <1>5. point \in Surjection(window, points)
    BY DEF Surjection
  <1> HIDE DEF window, point, points
  <1> QED BY <1>1, <1>3, <1>4, <1>5, FS_Surjection

-----------------------------------------------------------------------------
(* Discovery: what becomes of the patterns. *)

Fields == {"status", "simulated", "candidate"}

KindsHold ==
    \A i \in DOMAIN examined :
        examined[i].candidate # None => examined[i].candidate.kind \in {"RULE", "BULK"}

DiscoveryOK ==
    /\ DOMAIN examined = DOMAIN mined
    /\ \A i \in DOMAIN mined : PatternOK(snap, mined[i])
    /\ \A i \in DOMAIN examined : /\ DOMAIN examined[i] = Fields
                                  /\ Open(i) => examined[i].candidate = None
    /\ ProposalsHold /\ KindsHold

\* What is known of a proposal depends on what the run reads, and on nothing else.
LEMMA FrameJudges ==
    ASSUME Frame
    PROVE  /\ snap' = snap
           /\ \A rule : AboveFloor(rule)' <=> AboveFloor(rule)
           /\ \A rule, pattern : CoversPattern(rule, pattern)' <=> CoversPattern(rule, pattern)
  <1>1. snap' = snap /\ context' = context
    BY FrameKeeps DEF Frame
  <1>2. \A rule : AboveFloor(rule)' <=> AboveFloor(rule)
    BY <1>1 DEF AboveFloor, Simulation
  <1>3. \A rule, pattern : CoversPattern(rule, pattern)' <=> CoversPattern(rule, pattern)
    BY <1>1 DEF CoversPattern, InOrder
  <1> QED BY <1>1, <1>2, <1>3

LEMMA CandidatesStay ==
    ASSUME Frame, ProposalsHold, KindsHold, mined' = mined, DOMAIN examined' = DOMAIN examined,
           \A i \in DOMAIN examined : examined'[i].candidate = examined[i].candidate
    PROVE  ProposalsHold' /\ KindsHold'
  BY FrameJudges DEF ProposalsHold, KindsHold

LEMMA RuleIsProposed ==
    ASSUME Frame, ProposalsHold, KindsHold, mined' = mined,
           NEW i \in DOMAIN examined, NEW rule, DOMAIN examined[i] = Fields,
           ValidRule(rule), AboveFloor(rule), Signature(rule) \notin Known,
           \A r \in ProposedRules : ~ CoversPattern(r, mined[i]),
           examined' = [examined EXCEPT ![i] =
               [examined[i] EXCEPT !.status = "PROPOSED", !.candidate = [kind |-> "RULE", rule |-> rule]]]
    PROVE  ProposalsHold' /\ KindsHold'
  <1> DEFINE candidate(k) == examined[k].candidate
             isRule(k) == candidate(k) # None /\ candidate(k).kind = "RULE"
             proposal == [kind |-> "RULE", rule |-> rule]
  <1>1. /\ DOMAIN examined' = DOMAIN examined
        /\ examined'[i].candidate = proposal /\ proposal.kind = "RULE" /\ proposal.rule = rule
        /\ \A k \in DOMAIN examined \ {i} : examined'[k].candidate = candidate(k)
    BY DEF Fields
  <1> HIDE DEF proposal
  <1>2. \A k \in DOMAIN examined : isRule(k) =>
          candidate(k).rule \in ProposedRules /\ Signature(candidate(k).rule) \in Known
    BY DEF ProposedRules, Known
  <1>3. \A r \in snap.rules : Signature(r) # Signature(rule)
    BY DEF Known
  <1>4. ASSUME NEW j \in DOMAIN examined \ {i}, isRule(j)
        PROVE  /\ Signature(candidate(j).rule) # Signature(rule)
               /\ ~ CoversPattern(candidate(j).rule, mined[i])
    BY <1>2, <1>4
  <1>5. \A k \in DOMAIN examined \ {i} : candidate(k) # None =>
          IF candidate(k).kind = "BULK"
          THEN ~ AllowedInBulk(snap, candidate(k).type, candidate(k).desk)
          ELSE /\ ValidRule(candidate(k).rule) /\ AboveFloor(candidate(k).rule)
               /\ \A r \in snap.rules : Signature(r) # Signature(candidate(k).rule)
               /\ \A j \in DOMAIN examined \ {k} : isRule(j) =>
                    /\ Signature(candidate(j).rule) # Signature(candidate(k).rule)
                    /\ ~ (CoversPattern(candidate(k).rule, mined[j])
                          /\ CoversPattern(candidate(j).rule, mined[k]))
    BY DEF ProposalsHold
  <1> DEFINE now(k) == examined'[k].candidate
             isRuleNow(k) == now(k) # None /\ now(k).kind = "RULE"
  <1>6. ASSUME NEW k \in DOMAIN examined, now(k) # None
        PROVE  IF now(k).kind = "BULK"
               THEN ~ AllowedInBulk(snap, now(k).type, now(k).desk)
               ELSE /\ ValidRule(now(k).rule) /\ AboveFloor(now(k).rule)
                    /\ \A r \in snap.rules : Signature(r) # Signature(now(k).rule)
                    /\ \A j \in DOMAIN examined \ {k} : isRuleNow(j) =>
                         /\ Signature(now(j).rule) # Signature(now(k).rule)
                         /\ ~ (CoversPattern(now(k).rule, mined[j])
                               /\ CoversPattern(now(j).rule, mined[k]))
    <2>1. CASE k = i
      BY <1>1, <1>3, <1>4, <2>1
    <2>2. CASE k # i
      <3>1. now(k) = candidate(k) /\ candidate(k).kind \in {"RULE", "BULK"}
        BY <1>1, <1>6, <2>2 DEF KindsHold
      <3>2. CASE now(k).kind = "BULK"
        BY <1>5, <1>6, <2>2, <3>1, <3>2
      <3>3. CASE now(k).kind # "BULK"
        <4>1. isRule(k)
          BY <1>6, <3>1, <3>3
        <4>2. ASSUME NEW j \in DOMAIN examined \ {k}, isRuleNow(j)
              PROVE  /\ Signature(now(j).rule) # Signature(now(k).rule)
                     /\ ~ (CoversPattern(now(k).rule, mined[j])
                           /\ CoversPattern(now(j).rule, mined[k]))
          <5>1. CASE j = i
            BY <1>1, <1>4, <2>2, <3>1, <4>1, <5>1
          <5>2. CASE j # i
            BY <1>1, <1>5, <1>6, <2>2, <3>1, <3>3, <4>2, <5>2
          <5> QED BY <5>1, <5>2
        <4> QED BY <1>5, <1>6, <2>2, <3>1, <3>3, <4>2
      <3> QED BY <3>2, <3>3
    <2> QED BY <2>1, <2>2
  <1>7. KindsHold'
    BY <1>1 DEF KindsHold
  <1> QED BY <1>1, <1>6, <1>7, FrameJudges DEF ProposalsHold

LEMMA BulkIsProposed ==
    ASSUME Frame, DiscoveryOK, mined' = mined, NEW i \in DOMAIN examined,
           mined[i].kind = "RECURRING_BENIGN",
           examined' = [examined EXCEPT ![i] = BulkOutcome(i)]
    PROVE  ProposalsHold' /\ KindsHold'
  <1> DEFINE proposal == [kind |-> "BULK", type |-> mined[i].type,
                          desk |-> CHOOSE d \in mined[i].desks : TRUE]
  <1>1. /\ mined[i].desks # {}
        /\ \A desk \in mined[i].desks : ~ AllowedInBulk(snap, mined[i].type, desk)
    BY DEF DiscoveryOK, PatternOK
  <1>2. /\ proposal.kind = "BULK" /\ proposal.kind # "RULE"
        /\ ~ AllowedInBulk(snap, proposal.type, proposal.desk)
    BY <1>1
  <1> HIDE DEF proposal
  <1>3. /\ DOMAIN examined' = DOMAIN examined /\ examined'[i].candidate = proposal
        /\ \A k \in DOMAIN examined \ {i} : examined'[k].candidate = examined[k].candidate
    BY DEF BulkOutcome, ProposedAs, proposal, DiscoveryOK, Fields
  <1>4. KindsHold'
    BY <1>2, <1>3 DEF KindsHold, DiscoveryOK
  <1>5. ProposalsHold
    BY DEF DiscoveryOK
  <1> QED BY <1>2, <1>3, <1>4, <1>5, FrameJudges DEF ProposalsHold

\* The patterns of the run are worked on in place.
LEMMA PatternsStay ==
    ASSUME Frame, DiscoveryOK, mined' = mined, ProposalsHold', KindsHold',
           DOMAIN examined' = DOMAIN examined,
           \A i \in DOMAIN examined : /\ DOMAIN examined'[i] = Fields
                                      /\ Open(i)' => examined'[i].candidate = None
    PROVE  DiscoveryOK'
  BY FrameJudges DEF DiscoveryOK

LEMMA NothingIsProposed ==
    ASSUME Frame, DiscoveryOK, mined' = mined, DOMAIN examined' = DOMAIN examined,
           \A i \in DOMAIN examined :
               /\ DOMAIN examined'[i] = Fields
               /\ examined'[i].candidate = examined[i].candidate
               /\ examined'[i].status = "PENDING" => examined[i].status = "PENDING"
    PROVE  DiscoveryOK'
  <1>1. ProposalsHold' /\ KindsHold'
    BY CandidatesStay DEF DiscoveryOK
  <1>2. \A i \in DOMAIN examined : Open(i)' => examined'[i].candidate = None
    BY DEF DiscoveryOK, Open
  <1> QED BY <1>1, <1>2, PatternsStay

\* What a proposal makes of its pattern.
LEMMA ProposalIs ==
    ASSUME NEW i, NEW rule, Propose(i, rule)
    PROVE  /\ mined' = mined
           /\ \/ examined' = [examined EXCEPT ![i] = examined[i]]
              \/ examined' = [examined EXCEPT ![i] = Skipped(i)]
              \/ /\ mined[i].kind = "RECURRING_BENIGN"
                 /\ examined' = [examined EXCEPT ![i] = BulkOutcome(i)]
              \/ \E r : /\ examined' = [examined EXCEPT ![i] = ProposedAs(i, [kind |-> "RULE", rule |-> r])]
                        /\ ValidRule(r) /\ AboveFloor(r) /\ Signature(r) \notin Known
                        /\ \A q \in ProposedRules : ~ CoversPattern(q, mined[i])
  <1> DEFINE candidate(r) == ProposedAs(i, [kind |-> "RULE", rule |-> r])
             becomes(outcome) == examined' = [examined EXCEPT ![i] = outcome]
             meant == IF rule = None THEN mined[i].rule ELSE rule
  <1>1. mined' = mined
    BY DEF Propose
  <1>2. \/ RuleOutcome(i, meant) \in {examined[i], Skipped(i)}
        \/ /\ RuleOutcome(i, meant) = candidate(meant) /\ ValidRule(meant) /\ AboveFloor(meant)
           /\ Signature(meant) \notin Known
           /\ \A q \in ProposedRules : ~ CoversPattern(q, mined[i])
    BY DEF RuleOutcome
  <1>3. \/ becomes(examined[i])
        \/ mined[i].kind = "RECURRING_BENIGN" /\ becomes(BulkOutcome(i))
        \/ becomes(RuleOutcome(i, meant))
    BY Zenon DEF Propose
  <1> HIDE DEF meant, candidate
  <1> QED BY <1>1, <1>2, <1>3 DEF candidate

LEMMA SomethingIsProposed ==
    ASSUME Frame, DiscoveryOK, NEW i, NEW rule, Propose(i, rule)
    PROVE  DiscoveryOK'
  <1> DEFINE old == examined[i]
             skipped == [old EXCEPT !.status = "SKIPPED"]
             candidate(r) == [old EXCEPT !.status = "PROPOSED", !.candidate = [kind |-> "RULE", rule |-> r]]
             becomes(outcome) == examined' = [examined EXCEPT ![i] = outcome]
  <1>1. mined' = mined
    BY ProposalIs
  <1>2. \/ becomes(old) \/ becomes(skipped)
        \/ mined[i].kind = "RECURRING_BENIGN" /\ becomes(BulkOutcome(i))
        \/ \E r : /\ becomes(candidate(r)) /\ ValidRule(r) /\ AboveFloor(r)
                  /\ Signature(r) \notin Known
                  /\ \A q \in ProposedRules : ~ CoversPattern(q, mined[i])
    BY ProposalIs DEF Skipped, ProposedAs
  <1>4. DOMAIN examined' = DOMAIN examined
        /\ \A k \in DOMAIN examined \ {i} : examined'[k] = examined[k]
    BY <1>2
  <1>5. \A k \in DOMAIN examined : DOMAIN examined[k] = Fields
    BY DEF DiscoveryOK
  <1>6. CASE i \notin DOMAIN examined
    BY <1>1, <1>4, <1>5, <1>6, NothingIsProposed
  <1>7. CASE i \in DOMAIN examined /\ (becomes(old) \/ becomes(skipped))
    <2>1. examined'[i] \in {old, skipped}
      BY <1>7
    <2>2. /\ DOMAIN examined'[i] = Fields /\ examined'[i].candidate = examined[i].candidate
          /\ examined'[i].status = "PENDING" => examined[i].status = "PENDING"
      BY <1>5, <1>7, <2>1 DEF Fields
    <2> QED BY <1>1, <1>4, <1>5, <2>2, NothingIsProposed
  <1>8. CASE i \in DOMAIN examined /\ mined[i].kind = "RECURRING_BENIGN" /\ becomes(BulkOutcome(i))
    <2>1. ProposalsHold' /\ KindsHold'
      BY <1>1, <1>8, BulkIsProposed
    <2>2. DOMAIN examined'[i] = Fields /\ examined'[i].status = "PROPOSED"
      BY <1>5, <1>8 DEF BulkOutcome, ProposedAs, Fields
    <2>3. \A k \in DOMAIN examined : DOMAIN examined'[k] = Fields
                                     /\ (Open(k)' => examined'[k].candidate = None)
      BY <1>4, <1>5, <2>2 DEF Open, DiscoveryOK
    <2> QED BY <1>1, <1>4, <2>1, <2>3, PatternsStay
  <1>9. CASE /\ i \in DOMAIN examined
             /\ \E r : /\ becomes(candidate(r)) /\ ValidRule(r) /\ AboveFloor(r)
                       /\ Signature(r) \notin Known
                       /\ \A q \in ProposedRules : ~ CoversPattern(q, mined[i])
    <2>1. PICK r : /\ becomes(candidate(r)) /\ ValidRule(r) /\ AboveFloor(r)
                   /\ Signature(r) \notin Known
                   /\ \A q \in ProposedRules : ~ CoversPattern(q, mined[i])
      BY <1>9
    <2>2. ProposalsHold' /\ KindsHold'
      BY <1>1, <1>5, <1>9, <2>1, RuleIsProposed DEF DiscoveryOK
    <2>3. DOMAIN examined'[i] = Fields /\ examined'[i].status = "PROPOSED"
      BY <1>5, <1>9, <2>1 DEF Fields
    <2>4. \A k \in DOMAIN examined : DOMAIN examined'[k] = Fields
                                     /\ (Open(k)' => examined'[k].candidate = None)
      BY <1>4, <1>5, <2>3 DEF Open, DiscoveryOK
    <2> QED BY <1>1, <1>4, <2>2, <2>4, PatternsStay
  <1> QED BY <1>2, <1>6, <1>7, <1>8, <1>9

LEMMA NoPatternChanges ==
    ASSUME Frame, DiscoveryOK, UNCHANGED <<mined, examined>>
    PROVE  DiscoveryOK'
  <1>1. \A i \in DOMAIN examined : DOMAIN examined[i] = Fields
    BY DEF DiscoveryOK
  <1> QED BY <1>1, NothingIsProposed

\* A pattern that is only looked at, or closed, has no candidate from that.
LEMMA PatternIsExamined ==
    ASSUME Frame, DiscoveryOK, NEW i, Simulate(i) \/ SkipPattern(i)
    PROVE  DiscoveryOK'
  <1> DEFINE simulated == [examined[i] EXCEPT !.simulated = TRUE]
             skipped == [examined[i] EXCEPT !.status = "SKIPPED"]
  <1>1. \A k \in DOMAIN examined : DOMAIN examined[k] = Fields
    BY DEF DiscoveryOK
  <1>2. mined' = mined
    BY DEF Simulate, SkipPattern
  <1>3. \/ examined' = examined
        \/ examined' = [examined EXCEPT ![i] = simulated]
        \/ examined' = [examined EXCEPT ![i] = skipped]
    BY DEF Simulate, SkipPattern, Skipped
  <1>4. DOMAIN examined' = DOMAIN examined
    BY <1>3
  <1>5. ASSUME NEW k \in DOMAIN examined
        PROVE  /\ DOMAIN examined'[k] = Fields
               /\ examined'[k].candidate = examined[k].candidate
               /\ examined'[k].status = "PENDING" => examined[k].status = "PENDING"
    <2>1. examined'[k] = examined[k] \/ (k = i /\ examined'[k] \in {simulated, skipped})
      BY <1>3
    <2>2. DOMAIN examined[k] = Fields
      BY <1>1
    <2> QED BY <2>1, <2>2 DEF Fields
  <1> QED BY <1>2, <1>4, <1>5, NothingIsProposed

LEMMA PlaybookDiscovers ==
    ASSUME Frame, DiscoveryOK, DiscoveryPlaybook
    PROVE  DiscoveryOK'
  <1>1. GiveUp \/ Propose(FirstOpen, None) \/ Simulate(FirstOpen)
    BY Zenon DEF DiscoveryPlaybook
  <1>2. CASE GiveUp
    BY <1>2, NoPatternChanges DEF GiveUp
  <1> QED BY <1>1, <1>2, SomethingIsProposed, PatternIsExamined

LEMMA ModelDiscovers ==
    ASSUME Frame, DiscoveryOK, DiscoveryModel
    PROVE  DiscoveryOK'
  <1>1. \/ \E i, rule : Propose(i, rule)
        \/ \E i : Simulate(i) \/ SkipPattern(i)
        \/ GiveUp
    BY Zenon DEF DiscoveryModel
  <1>2. CASE GiveUp
    BY <1>2, NoPatternChanges DEF GiveUp
  <1> QED BY <1>1, <1>2, SomethingIsProposed, PatternIsExamined

LEMMA DiscoveryBegins ==
    Init => DiscoveryOK
  <1> SUFFICES ASSUME Init PROVE DiscoveryOK
    OBVIOUS
  <1> DEFINE patterns == IF Running("discovery") THEN Patterns(snap, context.points) ELSE {}
  <1>1. mined \in SetToSeqs(patterns)
        /\ examined = [i \in DOMAIN mined |->
                          [status |-> "PENDING", simulated |-> FALSE, candidate |-> None]]
    BY DEF Init, DiscoveryInit
  <1>2. ASSUME NEW p \in patterns PROVE PatternOK(snap, p)
    <2>1. task.world \in DOMAIN Worlds /\ context = Contexts[task.world]
      BY ProgramsAssumption DEF Init
    <2>2. IsFiniteSet(context.points)
      BY <2>1, HistoryIsFinite
    <2> QED BY <2>2, PatternsAre
  <1> HIDE DEF patterns
  <1>3. \A i \in DOMAIN mined : PatternOK(snap, mined[i])
    BY <1>1, <1>2 DEF SetToSeqs
  <1>4. DOMAIN examined = DOMAIN mined
        /\ \A i \in DOMAIN examined : DOMAIN examined[i] = Fields /\ examined[i].candidate = None
    BY <1>1 DEF Fields
  <1> QED BY <1>3, <1>4 DEF DiscoveryOK, ProposalsHold, KindsHold

LEMMA DiscoveryKeeps ==
    DiscoveryOK /\ [Next]_vars => DiscoveryOK'
  <1> SUFFICES ASSUME DiscoveryOK, [Next]_vars PROVE DiscoveryOK'
    OBVIOUS
  <1>1. CASE DiscoverOnPlaybook
    BY <1>1, PlaybookDiscovers DEF DiscoverOnPlaybook, Frame
  <1>2. CASE DiscoverOnModel
    BY <1>2, ModelDiscovers DEF DiscoverOnModel, Frame
  <1>3. CASE ~ (DiscoverOnPlaybook \/ DiscoverOnModel)
    <2>1. Frame /\ UNCHANGED <<mined, examined>>
      BY <1>3 DEF Next, vars, Frame, DiscoveryVars, InvestigateOnPlaybook, InvestigateOnModel,
                  StopInvestigating, ChallengeOnPlaybook, ChallengeOnModel
    <2> QED BY <2>1, NoPatternChanges
  <1> QED BY <1>1, <1>2, <1>3

\* What reaches the report of a challenge or a discovery holds whatever the
\* model did: a confirmed finding was checked on evidence the principal may see
\* and still verifies, the playbook alone drops no finding that would have been
\* confirmed (agents/challenger.py apply), and every proposal is valid, sound on
\* history, new, and not covered by the others (agents/discovery.py _propose).
THEOREM ReportsHold ==
    Spec => []ReportHolds
  <1>1. InvestigatorOK /\ ChallengerOK /\ DiscoveryOK => ReportHolds
    BY ChallengesHold DEF DiscoveryOK, ReportHolds
  <1> QED BY <1>1, InvestigatorBegins, InvestigatorKeeps, ChallengerBegins, ChallengerKeeps,
             DiscoveryBegins, DiscoveryKeeps, PTL DEF Spec

-----------------------------------------------------------------------------
(* How many findings a run reviews. *)

\* There are no more than n elements that fewer than n precede.
LEMMA FewPrecede ==
    ASSUME NEW S, IsFiniteSet(S), NEW R, Orders(R, S), NEW n \in Nat
    PROVE  IsFiniteSet(Firsts(S, R, n)) /\ Cardinality(Firsts(S, R, n)) <= n
  <1> DEFINE T == Firsts(S, R, n)
             rank == [x \in T |-> Cardinality(Preceding(S, R, x))]
  <1>1. /\ \A x \in S : Cardinality(Preceding(S, R, x)) \in Nat
        /\ \A x \in S, y \in S :
             Cardinality(Preceding(S, R, x)) = Cardinality(Preceding(S, R, y)) => x = y
    BY RanksAreTaken
  <1>2. \A x \in T : x \in S /\ rank[x] \in 0..(n - 1)
    BY <1>1 DEF Firsts
  <1> HIDE DEF T
  <1>3. rank \in Injection(T, 0..(n - 1))
    BY <1>1, <1>2 DEF Injection, IsInjective
  <1>4. IsFiniteSet(0..(n - 1)) /\ Cardinality(0..(n - 1)) = n
    <2>1. 0 \in Int /\ n - 1 \in Int
      OBVIOUS
    <2>2. IsFiniteSet(0..(n - 1))
          /\ Cardinality(0..(n - 1)) = IF 0 > n - 1 THEN 0 ELSE n - 1 - 0 + 1
      BY <2>1, FS_Interval
    <2> QED BY <2>2
  <1> HIDE DEF rank
  <1>5. IsFiniteSet(T) /\ Cardinality(T) <= n
    BY <1>3, <1>4, FS_Injection
  <1> QED BY <1>5 DEF T

\* The place of a finding among those of its kind, which Chosen goes by.
Place(s, recent, c) == Cardinality({d \in recent : d.kind = c.kind /\ Stronger(s, d, c)})

Numbered(s) ==
    \A e \in DOMAIN s.episodes : s.deviations[e].outlyingness \in Int /\ s.scores[e].total \in Int

LEMMA CandidatesAreFinite ==
    ASSUME NEW s, NEW conclusions, IsData(s)
    PROVE  /\ IsFiniteSet(Candidates(s, conclusions))
           /\ \A c \in Candidates(s, conclusions) : c.item \in Int
  <1> DEFINE episodes == DOMAIN s.episodes
             alerts == UNION {Alerts(s, e) : e \in episodes}
             ids == {a.id : a \in alerts}
             kinds == {"BLIND_SPOT", "MISSING_CONTEXT", "ALTERNATIVE_EXPLANATION", "REDUNDANT_DETECTION"}
             items == episodes \cup ids
             key == [c \in Candidates(s, conclusions) |-> <<c.kind, c.item>>]
  <1>1. IsFiniteSet(episodes) /\ episodes \subseteq Int
    BY DEF IsData
  <1>2. IsFiniteSet(alerts)
    <2> DEFINE those == [e \in episodes |-> Alerts(s, e)]
               sets == {Alerts(s, e) : e \in episodes}
    <2>1. those \in Surjection(episodes, sets)
      BY DEF Surjection
    <2>2. \A x \in sets : IsFiniteSet(x)
      BY DEF IsData, Alerts
    <2> HIDE DEF those, sets, episodes
    <2>3. IsFiniteSet(sets)
      BY <1>1, <2>1, FS_Surjection
    <2>4. IsFiniteSet(UNION sets)
      BY <2>2, <2>3, FS_UNION
    <2> QED BY <2>4 DEF sets
  <1>3. ids \subseteq Int
    BY DEF IsData, Alerts
  <1>4. IsFiniteSet(ids)
    <2> DEFINE id == [a \in alerts |-> a.id]
    <2> HIDE DEF alerts
    <2>1. id \in Surjection(alerts, ids)
      BY DEF Surjection
    <2> HIDE DEF id, ids
    <2> QED BY <1>2, <2>1, FS_Surjection
  <1>5. \A c \in Candidates(s, conclusions) : c.kind \in kinds /\ c.item \in items
    BY CandidatesAre DEF Subject
  <1>6. IsFiniteSet(items)
    <2> HIDE DEF episodes, ids
    <2> QED BY <1>1, <1>4, FS_Union
  <1>7. IsFiniteSet(kinds \X items)
    <2>1. kinds = {Kinds[i] : i \in 1..4}
      BY DEF Kinds
    <2>2. IsFiniteSet(kinds)
      <3> DEFINE names == [i \in 1..4 |-> Kinds[i]]
      <3>1. names \in Surjection(1..4, kinds)
        BY <2>1 DEF Surjection
      <3>2. IsFiniteSet(1..4)
        <4>1. 1 \in Int /\ 4 \in Int
          OBVIOUS
        <4> QED BY <4>1, FS_Interval
      <3> HIDE DEF names, kinds
      <3> QED BY <3>1, <3>2, FS_Surjection
    <2> HIDE DEF kinds, items
    <2> QED BY <1>6, <2>2, FS_Product
  <1>8. items \subseteq Int
    BY <1>1, <1>3
  <1> HIDE DEF items, kinds
  <1>9. key \in Injection(Candidates(s, conclusions), kinds \X items)
    BY <1>5, CandidatesAre DEF Injection, IsInjective
  <1> HIDE DEF key
  <1>10. IsFiniteSet(Candidates(s, conclusions))
    BY <1>7, <1>9, FS_Injection
  <1> QED BY <1>5, <1>8, <1>10

\* Findings of one kind are in an order without ties.
LEMMA StrongerIsOrder ==
    ASSUME NEW s, NEW conclusions, IsData(s), Numbered(s)
    PROVE  LET all == Candidates(s, conclusions)
           IN  /\ \A c \in all : ~ Stronger(s, c, c)
               /\ \A c \in all, d \in all : c.kind = d.kind => c = d \/ Stronger(s, c, d) \/ Stronger(s, d, c)
               /\ \A c \in all, d \in all, f \in all :
                    Stronger(s, c, d) /\ Stronger(s, d, f) => Stronger(s, c, f)
  <1> DEFINE all == Candidates(s, conclusions)
             key(c) == <<-s.deviations[c.episode].outlyingness, -s.scores[c.episode].total, c.item>>
  <1>1. \A c \in all : key(c) \in Tuples(3) /\ key(c)[3] = c.item
    <2> TAKE c \in all
    <2>1. c.episode \in DOMAIN s.episodes /\ c.item \in Int
      BY CandidatesAre, CandidatesAreFinite DEF Subject
    <2> QED BY <2>1 DEF Numbered, Tuples
  <1>2. \A c, d : Stronger(s, c, d) <=> Lower(key(c), key(d))
    BY Zenon DEF Stronger
  <1> HIDE DEF key
  <1>3. 3 \in Nat
    OBVIOUS
  <1> QED BY <1>1, <1>2, <1>3, CandidatesAre, LowerIsOrder

OfKind(recent, kind) == {c \in recent : c.kind = kind}
FirstOfKind(s, recent, kind, n) == {c \in OfKind(recent, kind) : Place(s, recent, c) < n}

LEMMA PlacesAre ==
    ASSUME NEW s, NEW conclusions, IsData(s), Numbered(s),
           NEW recent \in SUBSET Candidates(s, conclusions), NEW n \in Nat, NEW kind
    PROVE  /\ \A c \in OfKind(recent, kind) : Place(s, recent, c) \in Nat
           /\ \A c \in OfKind(recent, kind), d \in OfKind(recent, kind) :
                Place(s, recent, c) = Place(s, recent, d) => c = d
           /\ IsFiniteSet(FirstOfKind(s, recent, kind, n))
           /\ Cardinality(FirstOfKind(s, recent, kind, n)) <= n
  <1> DEFINE group == OfKind(recent, kind)
             R == {x \in group \X group : Stronger(s, x[1], x[2])}
  <1>1. IsFiniteSet(group)
    BY CandidatesAreFinite, FS_Subset DEF OfKind
  <1>2. \A c \in group, d \in group : <<c, d>> \in R <=> Stronger(s, c, d)
    OBVIOUS
  <1>3. ASSUME NEW c \in group PROVE Cardinality(Preceding(group, R, c)) = Place(s, recent, c)
    <2>1. Preceding(group, R, c) = {d \in recent : d.kind = c.kind /\ Stronger(s, d, c)}
      BY <1>2, <1>3 DEF Preceding, OfKind
    <2> QED BY <2>1 DEF Place
  <1>4. \A c \in group : c \in Candidates(s, conclusions) /\ c.kind = kind
    BY DEF OfKind
  <1> HIDE DEF R, group
  <1>5. Orders(R, group)
    BY <1>2, <1>4, StrongerIsOrder DEF Orders
  <1>6. /\ \A c \in group : Cardinality(Preceding(group, R, c)) \in Nat
        /\ \A c \in group, d \in group :
             Cardinality(Preceding(group, R, c)) = Cardinality(Preceding(group, R, d)) => c = d
    BY <1>1, <1>5, RanksAreTaken
  <1>7. IsFiniteSet(Firsts(group, R, n)) /\ Cardinality(Firsts(group, R, n)) <= n
    BY <1>1, <1>5, FewPrecede
  <1>8. Firsts(group, R, n) = FirstOfKind(s, recent, kind, n)
    BY <1>3 DEF Firsts, FirstOfKind, group
  <1> QED BY <1>3, <1>6, <1>7, <1>8 DEF group

Recent(s, conclusions) ==
    {c \in Candidates(s, conclusions) : End(s, c.episode) >= s.asOf - Cfg.review_window}

Blind(c) == c.kind = "BLIND_SPOT"

\* What the kinds other than blind spots take turns by.
Turn(s, recent, c) == <<Place(s, recent, c), KindNumber(c.kind)>>

\* A run reviews no more blind spots, and no more other findings, than it may.
LEMMA FewAreChosen ==
    ASSUME NEW s, NEW conclusions, IsData(s), Numbered(s)
    PROVE  LET chosen == Chosen(s, conclusions)
               unseen == {c \in chosen : Blind(c)}
               others == {c \in chosen : ~ Blind(c)}
           IN  /\ IsFiniteSet(unseen) /\ Cardinality(unseen) <= Cfg.max_blind_spots_per_run
               /\ IsFiniteSet(others) /\ Cardinality(others) <= Cfg.max_findings_per_run
  <1> DEFINE recent == Recent(s, conclusions)
             left == recent \ OfKind(recent, "BLIND_SPOT")
             seen == FirstOfKind(s, recent, "BLIND_SPOT", Cfg.max_blind_spots_per_run)
             turn(c) == Turn(s, recent, c)
             Q == {x \in left \X left : Lower(turn(x[1]), turn(x[2]))}
             earlier(c) == Cardinality({d \in left : Lower(turn(d), turn(c))})
             taken == {c \in left : earlier(c) < Cfg.max_findings_per_run}
             few == Firsts(left, Q, Cfg.max_findings_per_run)
  <1>1. Chosen(s, conclusions) = seen \cup taken
    BY Zenon DEF Chosen, Recent, Place, Turn, OfKind, FirstOfKind
  <1>2. Cfg.max_blind_spots_per_run \in Nat /\ Cfg.max_findings_per_run \in Nat
    BY ProgramsAssumption
  <1>3. recent \in SUBSET Candidates(s, conclusions)
    BY DEF Recent
  <1>4. IsFiniteSet(seen) /\ Cardinality(seen) <= Cfg.max_blind_spots_per_run
    <2> HIDE DEF recent
    <2> QED BY <1>2, <1>3, PlacesAre
  <1>5. IsFiniteSet(left)
    BY <1>3, CandidatesAreFinite, FS_Subset
  <1>6. ASSUME NEW c \in left
        PROVE  /\ KindNumber(c.kind) \in 1..4 /\ Kinds[KindNumber(c.kind)] = c.kind
               /\ Place(s, recent, c) \in Nat
    <2>1. c.kind \in {Kinds[i] : i \in 1..4} /\ DOMAIN Kinds = 1..4
      BY <1>3, CandidatesAre DEF Subject, Kinds
    <2>2. KindNumber(c.kind) \in 1..4 /\ Kinds[KindNumber(c.kind)] = c.kind
      BY <2>1 DEF KindNumber
    <2>3. c \in OfKind(recent, c.kind)
      BY DEF OfKind
    <2> HIDE DEF recent
    <2> QED BY <1>2, <1>3, <2>2, <2>3, PlacesAre
  <1>7. ASSUME NEW c \in left, NEW d \in left, turn(c) = turn(d) PROVE c = d
    <2>1. KindNumber(c.kind) = KindNumber(d.kind) /\ Place(s, recent, c) = Place(s, recent, d)
      BY <1>7 DEF Turn
    <2>2. c.kind = d.kind
      BY <1>6, <2>1
    <2>3. c \in OfKind(recent, c.kind) /\ d \in OfKind(recent, c.kind)
      BY <2>2 DEF OfKind
    <2> HIDE DEF recent
    <2> QED BY <1>2, <1>3, <2>1, <2>3, PlacesAre
  <1>8. \A c \in left : turn(c) \in Tuples(2)
    BY <1>6 DEF Turn, Tuples
  <1>9. \A c \in left, d \in left : <<c, d>> \in Q <=> Lower(turn(c), turn(d))
    OBVIOUS
  <1>10. few = taken
    <2> SUFFICES ASSUME NEW c \in left PROVE Cardinality(Preceding(left, Q, c)) = earlier(c)
      BY DEF Firsts
    <2>1. Preceding(left, Q, c) = {d \in left : Lower(turn(d), turn(c))}
      BY <1>9 DEF Preceding
    <2> QED BY <2>1
  <1>11. \A c \in taken : ~ Blind(c)
    BY DEF Blind, OfKind
  <1> HIDE DEF Q, left, turn, taken
  <1>12. Orders(Q, left)
    <2>1. 2 \in Nat
      OBVIOUS
    <2> QED BY <1>7, <1>8, <1>9, <2>1, LowerIsOrder DEF Orders
  <1>13. IsFiniteSet(few) /\ Cardinality(few) <= Cfg.max_findings_per_run
    BY <1>2, <1>5, <1>12, FewPrecede
  <1>14. \A c \in seen : Blind(c)
    BY DEF Blind, FirstOfKind, OfKind
  <1> HIDE DEF seen, few
  <1>15. /\ {c \in Chosen(s, conclusions) : Blind(c)} = seen
         /\ {c \in Chosen(s, conclusions) : ~ Blind(c)} = taken
    BY <1>1, <1>11, <1>14
  <1> QED BY <1>4, <1>10, <1>13, <1>15

-----------------------------------------------------------------------------
(* Types. *)

Paced ==
    streak \in 0..Cfg.max_consecutive_rejections /\ recovering \in BOOLEAN /\ abstained \in BOOLEAN

Reviewing ==
    /\ LET blind == {i \in DOMAIN findings : findings[i].kind = "BLIND_SPOT"}
       IN  /\ Cardinality(blind) <= Cfg.max_blind_spots_per_run
           /\ Cardinality(DOMAIN findings \ blind) <= Cfg.max_findings_per_run
    /\ \A i \in DOMAIN findings : findings[i].status \in {"PENDING", "CONFIRMED", "AGENT_DISMISSED"}

Mining ==
    /\ Len(mined) <= 2 * Cfg.max_patterns_per_kind
    /\ \A i \in DOMAIN mined : examined[i].status \in {"PENDING", "SKIPPED", "PROPOSED"}

LEMMA PaceKept ==
    Paced /\ [Next]_vars => Paced'
  <1> SUFFICES ASSUME Paced, [Next]_vars PROVE Paced'
    OBVIOUS
  <1>1. Cfg.max_consecutive_rejections \in Nat
    BY ProgramsAssumption
  <1>2. ASSUME NEW stalled, Count(stalled), abstained' \in BOOLEAN PROVE Paced'
    <2> DEFINE limit == Cfg.max_consecutive_rejections
               S == {streak + 1, limit}
    <2>1. S \subseteq Nat /\ S # {} /\ limit \in S
      BY <1>1 DEF Paced
    <2> HIDE DEF S
    <2>2. Min(S) \in Nat /\ Min(S) <= limit
      BY <2>1, MinIsIn
    <2>3. streak' = IF stalled THEN Min(S) ELSE 0
      BY <1>2, Zenon DEF Count, S
    <2>4. streak' \in 0..limit
      BY <1>1, <2>2, <2>3
    <2>5. recovering' \in BOOLEAN
      BY <1>2 DEF Count, Paced
    <2> QED BY <1>2, <2>4, <2>5 DEF Paced
  <1>3. ASSUME NEW step, Take(step) PROVE Paced'
    <2>1. (\E stalled : Count(stalled)) /\ abstained' \in BOOLEAN
      BY <1>3 DEF Take, CallTool, ProposeHypotheses, ProposeLink, EvaluateHypothesis, Conclude,
                  Abstain, Paced
    <2> QED BY <1>2, <2>1
  <1>4. CASE InvestigateOnPlaybook
    BY <1>3, <1>4, Zenon DEF InvestigateOnPlaybook, InvestigatorPlaybook
  <1>5. CASE InvestigateOnModel
    <2>1. (\E stalled : Count(stalled)) /\ abstained' \in BOOLEAN
      BY <1>5 DEF InvestigateOnModel, InvestigatorModel, CallTool, ProposeHypotheses, ProposeLink,
                  EvaluateHypothesis, Conclude, Abstain, Paced
    <2> QED BY <1>2, <2>1
  <1>6. CASE StopInvestigating
    BY <1>6 DEF StopInvestigating, InvestigatorExhaust, Paced
  <1>7. CASE UNCHANGED InvestigatorVars
    BY <1>7 DEF InvestigatorVars, Paced
  <1> QED BY <1>4, <1>5, <1>6, <1>7
          DEF Next, vars, ChallengeOnPlaybook, ChallengeOnModel, DiscoverOnPlaybook, DiscoverOnModel

LEMMA ReviewKept ==
    ChallengerOK /\ Reviewing /\ [Next]_vars => Reviewing'
  <1> SUFFICES ASSUME ChallengerOK, Reviewing, [Next]_vars PROVE Reviewing'
    OBVIOUS
  <1>1. findings' = findings => Reviewing'
    BY DEF Reviewing
  <1>2. ASSUME NEW i, NEW accepted, NEW status \in {"CONFIRMED", "AGENT_DISMISSED"},
               Decide(i, accepted, status), findings' # findings
        PROVE  Reviewing'
    <2>1. findings' = [findings EXCEPT ![i].status = status]
      BY <1>2 DEF Decide
    <2>2. DOMAIN findings' = DOMAIN findings
      BY <2>1
    <2>3. ASSUME NEW k \in DOMAIN findings
          PROVE  /\ findings'[k].kind = findings[k].kind
                 /\ findings'[k].status \in {"PENDING", "CONFIRMED", "AGENT_DISMISSED"}
      <3>1. DOMAIN findings[k] = {"kind", "episode", "item", "needs", "status"}
        BY DEF ChallengerOK, FindingOK
      <3>2. findings'[k] = IF k = i THEN [findings[k] EXCEPT !.status = status] ELSE findings[k]
        BY <2>1
      <3>3. findings[k].status \in {"PENDING", "CONFIRMED", "AGENT_DISMISSED"}
        BY DEF Reviewing
      <3> QED BY <3>1, <3>2, <3>3
    <2>4. {k \in DOMAIN findings' : findings'[k].kind = "BLIND_SPOT"}
            = {k \in DOMAIN findings : findings[k].kind = "BLIND_SPOT"}
      BY <2>2, <2>3
    <2> QED BY <2>2, <2>3, <2>4 DEF Reviewing
  <1>3. CASE ChallengeOnPlaybook
    <2>1. \/ Finish \/ \E r : Gather(r)
          \/ \E i : Decide(i, TRUE, IF VerifiesNow(i) THEN "CONFIRMED" ELSE "AGENT_DISMISSED")
      BY <1>3, Zenon DEF ChallengeOnPlaybook, ChallengerPlaybook
    <2> QED BY <1>1, <1>2, <2>1 DEF Finish, Gather, ChallengerVars
  <1>4. CASE ChallengeOnModel
    <2>1. \/ Finish \/ \E r : Gather(r)
          \/ \E i : Confirm(i) \/ Dismiss(i)
      BY <1>4, Zenon DEF ChallengeOnModel, ChallengerModel
    <2> QED BY <1>1, <1>2, <2>1 DEF Finish, Gather, ChallengerVars, Confirm, Dismiss
  <1>5. CASE ~ (ChallengeOnPlaybook \/ ChallengeOnModel)
    <2>1. findings' = findings
      BY <1>5 DEF Next, vars, ChallengerVars, InvestigateOnPlaybook, InvestigateOnModel,
                  StopInvestigating, DiscoverOnPlaybook, DiscoverOnModel
    <2> QED BY <1>1, <2>1
  <1> QED BY <1>3, <1>4, <1>5

LEMMA MiningKept ==
    DiscoveryOK /\ Mining /\ [Next]_vars => Mining'
  <1> SUFFICES ASSUME DiscoveryOK, Mining, [Next]_vars PROVE Mining'
    OBVIOUS
  <1>1. ASSUME UNCHANGED <<mined, examined>> PROVE Mining'
    BY <1>1 DEF Mining
  <1>2. ASSUME NEW i, NEW result, mined' = mined, examined' = [examined EXCEPT ![i] = result],
               i \in DOMAIN examined => result.status \in {"PENDING", "SKIPPED", "PROPOSED"}
        PROVE  Mining'
    <2>1. \A k \in DOMAIN mined : k \in DOMAIN examined
      BY DEF DiscoveryOK
    <2> QED BY <1>2, <2>1 DEF Mining
  <1>3. ASSUME NEW i \in DOMAIN examined
        PROVE  /\ examined[i].status \in {"PENDING", "SKIPPED", "PROPOSED"}
               /\ Skipped(i).status = "SKIPPED"
               /\ \A c : ProposedAs(i, c).status = "PROPOSED"
               /\ [examined[i] EXCEPT !.simulated = TRUE].status = examined[i].status
    BY DEF DiscoveryOK, Mining, Fields, Skipped, ProposedAs
  <1>4. ASSUME NEW i, NEW rule, Propose(i, rule) PROVE Mining'
    <2>1. /\ mined' = mined
          /\ \/ examined' = [examined EXCEPT ![i] = examined[i]]
             \/ examined' = [examined EXCEPT ![i] = Skipped(i)]
             \/ \E c : examined' = [examined EXCEPT ![i] = ProposedAs(i, c)]
      BY <1>4, ProposalIs, Zenon DEF BulkOutcome
    <2> QED BY <1>2, <1>3, <2>1
  <1>5. ASSUME NEW i, Simulate(i) PROVE Mining'
    <2>1. \/ UNCHANGED <<mined, examined>>
          \/ /\ mined' = mined
             /\ examined' = [examined EXCEPT ![i] = [examined[i] EXCEPT !.simulated = TRUE]]
      BY <1>5 DEF Simulate
    <2> QED BY <1>1, <1>2, <1>3, <2>1
  <1>6. ASSUME NEW i, SkipPattern(i) PROVE Mining'
    <2>1. \/ UNCHANGED <<mined, examined>>
          \/ mined' = mined /\ examined' = [examined EXCEPT ![i] = Skipped(i)]
      BY <1>6 DEF SkipPattern
    <2> QED BY <1>1, <1>2, <1>3, <2>1
  <1>7. CASE DiscoverOnPlaybook
    <2>1. GiveUp \/ Propose(FirstOpen, None) \/ Simulate(FirstOpen)
      BY <1>7, Zenon DEF DiscoverOnPlaybook, DiscoveryPlaybook
    <2> QED BY <1>1, <1>4, <1>5, <2>1 DEF GiveUp
  <1>8. CASE DiscoverOnModel
    <2>1. \/ \E i, rule : Propose(i, rule)
          \/ \E i : Simulate(i) \/ SkipPattern(i)
          \/ GiveUp
      BY <1>8, Zenon DEF DiscoverOnModel, DiscoveryModel
    <2> QED BY <1>1, <1>4, <1>5, <1>6, <2>1 DEF GiveUp
  <1>9. CASE ~ (DiscoverOnPlaybook \/ DiscoverOnModel)
    <2>1. UNCHANGED <<mined, examined>>
      BY <1>9 DEF Next, vars, DiscoveryVars, InvestigateOnPlaybook, InvestigateOnModel,
                  StopInvestigating, ChallengeOnPlaybook, ChallengeOnModel
    <2> QED BY <1>1, <2>1
  <1> QED BY <1>7, <1>8, <1>9

LEMMA TypesBegin ==
    Init => Paced /\ Reviewing /\ Mining
  <1> SUFFICES ASSUME Init PROVE Paced /\ Reviewing /\ Mining
    OBVIOUS
  <1>1. /\ Cfg.max_consecutive_rejections \in Nat /\ Cfg.max_patterns_per_kind \in Nat
        /\ Cfg.max_blind_spots_per_run \in Nat /\ Cfg.max_findings_per_run \in Nat
    BY ProgramsAssumption
  <1>2. Paced
    <2>1. streak = 0 /\ recovering = FALSE /\ abstained = FALSE
      BY DEF Init, InvestigatorInit
    <2>2. streak \in 0..Cfg.max_consecutive_rejections
      BY <1>1, <2>1
    <2>3. recovering \in BOOLEAN /\ abstained \in BOOLEAN
      BY <2>1, Zenon
    <2> QED BY <2>2, <2>3 DEF Paced
  <1>3. RunIsFixed /\ IsData(snap)
    BY InvestigatorBegins, SnapshotIsData DEF InvestigatorOK
  <1>4. Reviewing
    <2> DEFINE chosen == Chosen(snap, context.conclusions)
               unseen == {c \in chosen : Blind(c)}
               others == {c \in chosen : ~ Blind(c)}
               blind == {i \in DOMAIN findings : findings[i].kind = "BLIND_SPOT"}
               rest == DOMAIN findings \ blind
               spots == [i \in blind |-> findings[i]]
               turns == [i \in rest |-> findings[i]]
    <2>1. findings = << >> \/ findings \in SetToSeqs(chosen)
      BY DEF Init, ChallengerInit, Reviewed
    <2>2. /\ IsFiniteSet(unseen) /\ Cardinality(unseen) <= Cfg.max_blind_spots_per_run
          /\ IsFiniteSet(others) /\ Cardinality(others) <= Cfg.max_findings_per_run
      <3>1. Numbered(snap)
        BY <1>3, StatisticsAssumption, ProgramsAssumption DEF RunIsFixed, Numbered, snap
      <3> QED BY <1>3, <3>1, FewAreChosen
    <2>3. /\ \A i \in DOMAIN findings : findings[i] \in chosen
          /\ \A i \in DOMAIN findings, j \in DOMAIN findings : findings[i] = findings[j] => i = j
      <3> HIDE DEF chosen
      <3>1. CASE findings = << >>
        BY <3>1
      <3>2. CASE findings \in SetToSeqs(chosen)
        <4> DEFINE D == 1..Cardinality(chosen)
        <4>1. findings \in [D -> chosen] /\ \A i, j \in D : i # j => findings[i] # findings[j]
          BY <3>2, Zenon DEF SetToSeqs
        <4> HIDE DEF D
        <4> QED BY <4>1
      <3> QED BY <2>1, <3>1, <3>2
    <2>4. spots \in Injection(blind, unseen)
      <3> HIDE DEF chosen
      <3> QED BY <2>3 DEF Injection, IsInjective, Blind
    <2>5. turns \in Injection(rest, others)
      <3> HIDE DEF chosen
      <3> QED BY <2>3 DEF Injection, IsInjective, Blind
    <2>6. \A i \in DOMAIN findings : findings[i].status = "PENDING"
      BY <1>3, <2>3, CandidatesArePending
    <2> HIDE DEF unseen, others, blind, rest, spots, turns
    <2>7. /\ Cardinality(blind) <= Cfg.max_blind_spots_per_run
          /\ Cardinality(rest) <= Cfg.max_findings_per_run
      <3>1. IsFiniteSet(blind) /\ Cardinality(blind) <= Cardinality(unseen)
        BY <2>2, <2>4, FS_Injection
      <3>2. IsFiniteSet(rest) /\ Cardinality(rest) <= Cardinality(others)
        BY <2>2, <2>5, FS_Injection
      <3> QED BY <1>1, <2>2, <3>1, <3>2, FS_CardinalityType
    <2> QED BY <2>6, <2>7 DEF Reviewing, blind, rest
  <1>5. Mining
    <2> DEFINE patterns == IF Running("discovery") THEN Patterns(snap, context.points) ELSE {}
               limit == 2 * Cfg.max_patterns_per_kind
    <2>1. mined \in SetToSeqs(patterns)
          /\ examined = [i \in DOMAIN mined |->
                            [status |-> "PENDING", simulated |-> FALSE, candidate |-> None]]
      BY DEF Init, DiscoveryInit
    <2>2. IsFiniteSet(patterns) /\ Cardinality(patterns) <= limit
      <3> DEFINE found == MinedFrom(snap, context.points)
                 whole(p) == IF p.kind = "UNCAPTURED_RISK"
                             THEN [p EXCEPT !.rule = Synthesized(snap, context.points, p)] ELSE p
                 made == [p \in found |-> whole(p)]
                 all == {whole(p) : p \in found}
      <3>1. Patterns(snap, context.points) = all
        BY Zenon DEF Patterns
      <3>2. IsFiniteSet(context.points)
        BY <1>3, HistoryIsFinite, ProgramsAssumption DEF RunIsFixed
      <3>3. IsFiniteSet(found) /\ Cardinality(found) <= limit
        BY <3>2, MinedAre
      <3> HIDE DEF found, whole
      <3>4. made \in Surjection(found, all)
        BY DEF Surjection
      <3> HIDE DEF made, all
      <3>5. IsFiniteSet(all) /\ Cardinality(all) <= Cardinality(found)
        BY <3>3, <3>4, FS_Surjection
      <3>6. IsFiniteSet(all) /\ Cardinality(all) <= limit
        BY <1>1, <3>3, <3>5, FS_CardinalityType
      <3> QED BY <1>1, <3>1, <3>6, FS_EmptySet
    <2> HIDE DEF patterns
    <2>3. Cardinality(patterns) \in Nat
      BY <2>2, FS_CardinalityType
    <2>4. Len(mined) = Cardinality(patterns)
      BY <2>1, <2>3 DEF SetToSeqs
    <2> QED BY <2>1, <2>2, <2>4 DEF Mining
  <1> QED BY <1>2, <1>4, <1>5

\* Every hypothesis is of the catalog with a status of its own, a conclusion is
\* one of them, a stalled run is counted up to the limit at which the playbook
\* takes over (agents/investigator.py), a challenge reviews no more blind spots
\* and no more other findings than it may (services/platform.py challenge), and a
\* discovery works on at most the strongest patterns of each kind
\* (engine/discovery.py mine_patterns).
THEOREM TypesHold ==
    Spec => []TypeOK
  <1>1. InvestigatorOK /\ Paced /\ Reviewing /\ Mining => TypeOK
    BY DEF InvestigatorOK, HypothesesOK, HypothesisOK, Paced, Reviewing, Mining, TypeOK
  <1> QED BY <1>1, InvestigatorBegins, InvestigatorKeeps, ChallengerBegins, ChallengerKeeps,
             DiscoveryBegins, DiscoveryKeeps, TypesBegin, PaceKept, ReviewKept, MiningKept,
             PTL DEF Spec

=============================================================================
