--------------------------- MODULE SnapshotsProofs ---------------------------
(***************************************************************************)
(* Proofs about Snapshots, for any number of threads and processes, any    *)
(* tables, batches, moments and people.                                    *)
(***************************************************************************)
EXTENDS Snapshots, Induction, FiniteSetTheorems, SequenceTheorems, TLAPS

-----------------------------------------------------------------------------
(* Facts about the helpers. *)

LEMMA TablesKnown == Len(Tables) \in Nat \ {0} /\ DOMAIN Tables = 1..Len(Tables)
  <1>1. Tables \in Seq(STRING) /\ Tables # << >>
    BY SnapshotsAssumption DEF ToSet
  <1> QED BY <1>1

LEMMA ImageIsFinite ==
    ASSUME NEW S, IsFiniteSet(S), NEW f
    PROVE  IsFiniteSet({f[x] : x \in S})
  <1> DEFINE T == {f[x] : x \in S}
             g == [x \in S |-> f[x]]
  <1>1. g \in Surjection(S, T)
    BY DEF Surjection
  <1> QED BY <1>1, FS_Surjection

\* Rows that are not in conflict with those that are stored keep the keys
\* unique, and all of them finite.
LEMMA KeysStayUnique ==
    ASSUME NEW content, NEW batch, KeysAreUnique(content), KeysAreUnique(batch),
           IsFiniteSet(content), IsFiniteSet(batch),
           \A r \in batch, q \in content : r.table = q.table /\ r.key = q.key => r = q
    PROVE  KeysAreUnique(content \cup batch) /\ IsFiniteSet(content \cup batch)
  <1>1. IsFiniteSet(content \cup batch)
    BY FS_Union
  <1> QED BY <1>1 DEF KeysAreUnique

\* A call is a record of the fields of NoCall.
IsCall(c) == c = [field \in DOMAIN NoCall |-> c[field]]

LEMMA NoCallIsCall == IsCall(NoCall) /\ NoCall.loaded = 0 /\ NoCall.batch = {}
  BY DEF IsCall, NoCall

LEMMA DuringIsSet ==
    ASSUME NEW c, IsCall(c), NEW x
    PROVE  LET d == [c EXCEPT !.during = x]
           IN  /\ IsCall(d) /\ d.during = x
               /\ \A field \in DOMAIN NoCall \ {"during"} : d[field] = c[field]
  BY DEF IsCall, NoCall

LEMMA SinceIsSet ==
    ASSUME NEW c, IsCall(c), NEW x
    PROVE  LET d == [c EXCEPT !.since = x]
           IN  /\ IsCall(d) /\ d.since = x
               /\ \A field \in DOMAIN NoCall \ {"since"} : d[field] = c[field]
  BY DEF IsCall, NoCall

LEMMA LinksAreSet ==
    ASSUME NEW c, IsCall(c), NEW x
    PROVE  LET d == [c EXCEPT !.links = x]
           IN  /\ IsCall(d) /\ d.links = x
               /\ \A field \in DOMAIN NoCall \ {"links"} : d[field] = c[field]
  BY DEF IsCall, NoCall

\* c has become d: bundles and concurrent rows may have been noted.
Noted(c, d) ==
    /\ IsCall(d) /\ c.during \subseteq d.during /\ c.since \subseteq d.since
    /\ d.asOf = c.asOf /\ d.history = c.history /\ d.policy = c.policy /\ d.links = c.links
    /\ d.content = c.content /\ d.loaded = c.loaded /\ d.batch = c.batch
    /\ d.user = c.user /\ d.proposal = c.proposal /\ d.known = c.known

\* Nothing that is stored is ever taken away or changed.
Grows ==
    /\ rows \subseteq rows'
    /\ DOMAIN confirmedBy \subseteq DOMAIN confirmedBy'
    /\ \A p \in DOMAIN confirmedBy : confirmedBy'[p] = confirmedBy[p]

LEMMA GrowthShows ==
    ASSUME Grows
    PROVE  /\ \A table, asOf : Visible(table, asOf) \subseteq Visible(table, asOf)'
           /\ \A asOf : Confirmed(asOf) \subseteq Confirmed(asOf)'
           /\ \A s : ContentOK(s) => ContentOK(s)'
  <1>1. \A table, asOf : Visible(table, asOf) \subseteq Visible(table, asOf)'
    BY DEF Visible, Grows
  <1>2. \A asOf : Confirmed(asOf) \subseteq Confirmed(asOf)'
    BY DEF Confirmed, Grows
  <1>3. ASSUME NEW s, ContentOK(s) PROVE ContentOK(s)'
    BY <1>1, <1>3 DEF ContentOK
  <1> QED BY <1>1, <1>2, <1>3

\* While the store grows a call stays good at its step, if it notes what is
\* committed as it loads.
LEMMA GoodCallStays ==
    ASSUME Grows, NEW step, NEW c, NEW d, GoodCall(step, c), Noted(c, d),
           step = "idle" => d = c,
           IF step \in {"load", "insert"} THEN rows' \ rows \subseteq d.during
                                          ELSE d.during = c.during
    PROVE  GoodCall(step, d)'
  <1>1. step = "settle" =>
          /\ d.batch \subseteq rows'
          /\ d.proposal # NoAnswer => Canonical(d.proposal)' /\ confirmedBy'[d.proposal] = d.user
    BY DEF GoodCall, Noted, Grows, Canonical
  <1>2. /\ step \in {"links", "check", "load", "insert", "fetch"} =>
             d.policy \in d.since /\ d.known \subseteq Confirmed(d.asOf)'
        /\ step \in {"check", "load", "insert", "fetch"} =>
             d.known \subseteq d.links /\ d.links \subseteq Confirmed(d.asOf)'
    BY GrowthShows DEF GoodCall, Noted
  <1>3. ASSUME step \in {"load", "insert"} PROVE ContentOK(d)' /\ LoadOK(d)'
    <2>1. ContentOK(c) /\ LoadOK(c)
      BY <1>3 DEF GoodCall
    <2>2. ContentOK(d)
      BY <2>1 DEF ContentOK, Noted
    <2>3. \A table, asOf : Visible(table, asOf)' \subseteq Visible(table, asOf) \cup d.during
      BY <1>3 DEF Visible
    <2>4. LoadOK(d)'
      BY <2>1, <2>3 DEF LoadOK, Noted
    <2> QED BY <2>2, <2>4, GrowthShows
  <1>4. IsCall(d) /\ (step = "idle" => d = NoCall)
    BY DEF GoodCall, Noted
  <1>5. /\ step = "commit" => d.proposal = NoAnswer /\ IsFiniteSet(d.batch) /\ KeysAreUnique(d.batch)
        /\ step = "confirm" => d.batch = {} /\ d.proposal \in Proposals /\ d.user \in Users
        /\ step = "load" => d.loaded \in 0..(Len(Tables) - 1)
        /\ step = "insert" => d.loaded = Len(Tables)
    BY DEF GoodCall, Noted
  <1>6. step \in {"links", "check"} => d.loaded = 0 /\ d.content = {} /\ d.during = {}
    BY DEF GoodCall, Noted
  <1> QED BY <1>1, <1>2, <1>3, <1>4, <1>5, <1>6 DEF GoodCall, IsCall

\* Which of two snapshots shows more is a matter of moment and content only.
LEMMA ViewsStay ==
    ASSUME ViewsAreNested,
           \A s \in (Shown \cup Loads)' : \E u \in Shown \cup Loads :
              u.asOf = s.asOf /\ u.content = s.content
    PROVE  ViewsAreNested'
  <1>1. ASSUME NEW s \in (Shown \cup Loads)', NEW v \in (Shown \cup Loads)' PROVE Nested(s, v)
    <2>1. PICK x \in Shown \cup Loads : x.asOf = s.asOf /\ x.content = s.content
      OBVIOUS
    <2>2. PICK y \in Shown \cup Loads : y.asOf = v.asOf /\ y.content = v.content
      OBVIOUS
    <2>3. Nested(x, y)
      BY DEF ViewsAreNested
    <2> QED BY <2>1, <2>2, <2>3 DEF Nested, View
  <1> QED BY <1>1 DEF ViewsAreNested

-----------------------------------------------------------------------------
(* Steps that change what is stored, or which bundle is active: the calls  *)
(* of all threads take note, and one thread may go on to settle.           *)

TakesNote(u) ==
    /\ pc'[u] = pc[u] /\ Noted(call[u], call'[u])
    /\ pc[u] = "idle" => call'[u] = call[u]
    /\ IF Loading(u) THEN rows' \ rows \subseteq call'[u].during
                     ELSE call'[u].during = call[u].during

LEMMA NoteKeepsCall ==
    ASSUME Grows, NEW u \in Threads, GoodCall(pc[u], call[u]), TakesNote(u)
    PROVE  GoodCall(pc[u], call[u])'
  <1>1. PICK step, c, d : step = pc[u] /\ c = call[u] /\ d = call'[u]
    OBVIOUS
  <1>2. GoodCall(step, c) /\ Noted(c, d) /\ (step = "idle" => d = c)
    BY <1>1 DEF TakesNote
  <1>3. IF step \in {"load", "insert"} THEN rows' \ rows \subseteq d.during
                                       ELSE d.during = c.during
    BY <1>1 DEF TakesNote, Loading
  <1>4. GoodCall(step, d)'
    BY <1>2, <1>3, GoodCallStays
  <1> QED BY <1>1, <1>4 DEF TakesNote

LEMMA NotingKeeps ==
    ASSUME CallsOK, SnapshotsOK, ViewsAreNested, Grows, NEW movers \in SUBSET Threads,
           call' = [u \in Threads |-> call'[u]], UNCHANGED <<cache, answer>>,
           \A u \in Threads \ movers : TakesNote(u),
           \A u \in movers : pc'[u] = "settle" /\ GoodCall(pc[u], call[u])'
    PROVE  CallsOK' /\ SnapshotsOK' /\ ViewsAreNested'
  <1>1. CallsOK'
    BY NoteKeepsCall DEF CallsOK
  <1>2. Shown' = Shown
    BY DEF Shown
  <1>3. SnapshotsOK'
    BY <1>2, GrowthShows DEF SnapshotsOK
  <1>4. ASSUME NEW s \in Loads' PROVE \E u \in Loads : u.asOf = s.asOf /\ u.content = s.content
    <2>1. PICK u \in Threads : pc'[u] \in {"load", "insert"} /\ s = call'[u]
      BY DEF Loads, Loading
    <2>2. TakesNote(u)
      BY <2>1
    <2>3. call[u] \in Loads /\ Noted(call[u], s)
      BY <2>1, <2>2 DEF Loads, Loading, TakesNote
    <2> QED BY <2>3 DEF Noted
  <1>5. ViewsAreNested'
    BY <1>2, <1>4, ViewsStay
  <1> QED BY <1>1, <1>3, <1>5

-----------------------------------------------------------------------------
(* Steps of one thread that change its call, and nothing that is stored.   *)

LEMMA OneCallMoves ==
    ASSUME CallsOK, NEW t \in Threads, NEW step, NEW c, GoodCall(step, c), Continue(t, c, step),
           pc \in [Threads -> Steps], UNCHANGED <<rows, confirmedBy>>, answer' = [u \in Threads |-> answer'[u]]
    PROVE  /\ CallsOK' /\ pc'[t] = step /\ call'[t] = c
           /\ \A u \in Threads \ {t} : pc'[u] = pc[u] /\ call'[u] = call[u]
           /\ Loads' \subseteq Loads \cup (IF step \in {"load", "insert"} THEN {c} ELSE {})
  <1>1. /\ pc'[t] = step /\ call'[t] = c /\ call' = [u \in Threads |-> call'[u]]
        /\ \A u \in Threads \ {t} : pc'[u] = pc[u] /\ call'[u] = call[u]
    BY DEF Continue, CallsOK
  <1>2. \A s, d : GoodCall(s, d)' <=> GoodCall(s, d)
    BY DEF GoodCall, Canonical, Confirmed, ContentOK, LoadOK, Visible
  <1>3. ASSUME NEW u \in Threads PROVE GoodCall(pc[u], call[u])'
    <2>1. PICK s, d : s = pc'[u] /\ d = call'[u]
      OBVIOUS
    <2>2. GoodCall(s, d)
      BY <1>1, <2>1 DEF CallsOK
    <2> QED BY <1>2, <2>1, <2>2
  <1>4. CallsOK'
    BY <1>1, <1>3 DEF CallsOK
  <1>5. ASSUME NEW u \in Threads, Loading(u)'
        PROVE  call'[u] \in Loads \cup (IF step \in {"load", "insert"} THEN {c} ELSE {})
    BY <1>1, <1>5 DEF Loads, Loading
  <1> QED BY <1>1, <1>4, <1>5 DEF Loads

LEMMA MoveKeeps ==
    ASSUME Inv, NEW t \in Threads, NEW step \in Steps, NEW c, GoodCall(step, c),
           Continue(t, c, step), UNCHANGED <<store, cache, answer, settled>>,
           step \in {"load", "insert"} => \A s \in Shown \cup Loads : Nested(s, c) /\ Nested(c, s)
    PROVE  Inv'
  <1>1. /\ CallsOK'
        /\ Loads' \subseteq Loads \cup (IF step \in {"load", "insert"} THEN {c} ELSE {})
    <2>1. answer' = [u \in Threads |-> answer'[u]]
      BY DEF Inv, CallsOK
    <2> QED BY <2>1, OneCallMoves DEF Inv, TypeOK, store
  <1>2. Shown' = Shown
    BY DEF Shown
  <1>3. ViewsAreNested'
    <2>1. Nested(c, c)
      BY DEF Nested
    <2> QED BY <1>1, <1>2, <2>1 DEF Inv, ViewsAreNested
  <1>4. SnapshotsOK'
    BY <1>2 DEF Inv, SnapshotsOK, ContentOK, Visible, store
  <1>5. TypeOK' /\ IsFiniteSet(rows')
    <2>1. pc' \in [Threads -> Steps]
      BY DEF Continue, Inv, TypeOK
    <2> QED BY <2>1 DEF Inv, TypeOK, store
  <1>6. OwnWritesAreSeen' /\ OneConfirmation'
    BY DEF Inv, OwnWritesAreSeen, OneConfirmation, Visible, Canonical, store
  <1> QED BY <1>1, <1>3, <1>4, <1>5, <1>6 DEF Inv

\* A call that is over.
LEMMA EndKeeps ==
    ASSUME Inv, NEW t \in Threads, End(t), UNCHANGED <<store, cache, answer, settled>>
    PROVE  Inv'
  <1>1. GoodCall("idle", NoCall)
    BY NoCallIsCall DEF GoodCall, IsCall
  <1>2. "idle" \in Steps
    BY DEF Steps
  <1> QED BY <1>1, <1>2, MoveKeeps DEF End

LEMMA BeginKeeps ==
    ASSUME Inv, NEW t \in Threads, NEW step \in {"links", "commit", "confirm"}, NEW c,
           GoodCall(step, c), Begin(t, c, step), UNCHANGED <<store, cache, answer, settled>>
    PROVE  Inv'
  <1>1. step \in Steps /\ Continue(t, c, step)
    BY DEF Steps, Begin, Continue
  <1> QED BY <1>1, MoveKeeps

LEMMA ReadPolicyKeeps ==
    ASSUME Inv, NEW t \in Threads, NEW asOf, NEW history, ReadPolicy(t, asOf, history)
    PROVE  Inv'
  <1> DEFINE c == [NoCall EXCEPT !.asOf = asOf, !.history = history, !.policy = policy,
                                 !.known = Confirmed(asOf), !.since = {policy}]
  <1>1. /\ IsCall(c) /\ c.policy \in c.since /\ c.asOf = asOf /\ c.known = Confirmed(asOf)
        /\ c.loaded = 0 /\ c.content = {} /\ c.during = {}
    BY DEF IsCall, NoCall
  <1>2. Begin(t, c, "links") /\ UNCHANGED <<store, cache, answer, settled>>
    BY DEF ReadPolicy
  <1> HIDE DEF c
  <1>3. PICK d : d = c
    OBVIOUS
  <1>4. GoodCall("links", d)
    BY <1>1, <1>3 DEF GoodCall, IsCall
  <1>5. Begin(t, d, "links")
    BY <1>2, <1>3
  <1> QED BY <1>2, <1>4, <1>5, BeginKeeps

\* What somebody wants to store.
LEMMA StoringKeeps ==
    ASSUME Inv, NEW t \in Threads, NEW c, IsCall(c), c.proposal = NoAnswer,
           IsFiniteSet(c.batch), KeysAreUnique(c.batch), Begin(t, c, "commit"),
           UNCHANGED <<store, cache, answer, settled>>
    PROVE  Inv'
  <1>1. GoodCall("commit", c)
    BY DEF GoodCall, IsCall
  <1> QED BY <1>1, BeginKeeps

LEMMA IngestKeeps ==
    ASSUME Inv, NEW t \in Threads, NEW batch \in Batches, Ingest(t, batch)
    PROVE  Inv'
  <1> DEFINE c == [NoCall EXCEPT !.batch = batch]
  <1>1. IsCall(c) /\ c.batch = batch /\ c.proposal = NoAnswer
    BY DEF IsCall, NoCall
  <1>2. IsFiniteSet(batch) /\ KeysAreUnique(batch)
    BY SnapshotsAssumption
  <1>3. Begin(t, c, "commit") /\ UNCHANGED <<store, cache, answer, settled>>
    BY DEF Ingest
  <1> HIDE DEF c
  <1> QED BY <1>1, <1>2, <1>3, StoringKeeps

LEMMA RecordDecisionKeeps ==
    ASSUME Inv, NEW t \in Threads, NEW user, NEW label, NEW at, RecordDecision(t, user, label, at)
    PROVE  Inv'
  <1> DEFINE row(a) == [table |-> "outcomes", key |-> <<a, user, at>>, time |-> at,
                        data |-> [alert |-> a, label |-> label, quality |-> "RAW", by |-> user]]
             batch == {row(a) : a \in CaseAlerts}
             c == [NoCall EXCEPT !.user = user, !.batch = batch]
  <1>1. KeysAreUnique(batch)
    <2>1. ASSUME NEW a \in CaseAlerts, NEW b \in CaseAlerts, row(a).key = row(b).key
          PROVE  row(a) = row(b)
      BY <2>1
    <2> QED BY <2>1 DEF KeysAreUnique
  <1>2. IsFiniteSet(batch)
    <2> DEFINE f == [a \in CaseAlerts |-> row(a)]
    <2>1. batch = {f[a] : a \in CaseAlerts}
      OBVIOUS
    <2>2. IsFiniteSet(CaseAlerts)
      BY SnapshotsAssumption
    <2> HIDE DEF f, batch
    <2>3. IsFiniteSet({f[a] : a \in CaseAlerts})
      BY <2>2, ImageIsFinite
    <2> QED BY <2>1, <2>3
  <1>3. Begin(t, c, "commit") /\ UNCHANGED <<store, cache, answer, settled>>
    BY DEF RecordDecision
  <1> HIDE DEF batch
  <1>4. IsCall(c) /\ c.batch = batch /\ c.proposal = NoAnswer
    BY DEF IsCall, NoCall
  <1> HIDE DEF c
  <1> QED BY <1>1, <1>2, <1>3, <1>4, StoringKeeps

LEMMA CurateKeeps ==
    ASSUME Inv, NEW t \in Threads, NEW user, NEW r, Curate(t, user, r)
    PROVE  Inv'
  <1> DEFINE curated == [r EXCEPT !.key = <<"C", r.key>>, !.data.quality = "CURATED"]
             c == [NoCall EXCEPT !.user = user, !.batch = {curated}]
  <1>1. Begin(t, c, "commit") /\ UNCHANGED <<store, cache, answer, settled>>
    BY DEF Curate
  <1> HIDE DEF curated
  <1>2. IsFiniteSet({curated}) /\ KeysAreUnique({curated})
    BY FS_Singleton DEF KeysAreUnique
  <1>3. IsCall(c) /\ c.batch = {curated} /\ c.proposal = NoAnswer
    BY DEF IsCall, NoCall
  <1> HIDE DEF c
  <1> QED BY <1>1, <1>2, <1>3, StoringKeeps

LEMMA ConfirmLinkKeeps ==
    ASSUME Inv, NEW t \in Threads, NEW user \in Users, NEW p \in Proposals, ConfirmLink(t, user, p)
    PROVE  Inv'
  <1> DEFINE c == [NoCall EXCEPT !.user = user, !.proposal = p]
  <1>1. IsCall(c) /\ c.batch = {} /\ c.proposal = p /\ c.user = user
    BY DEF IsCall, NoCall
  <1>2. Begin(t, c, "confirm") /\ UNCHANGED <<store, cache, answer, settled>>
    BY DEF ConfirmLink
  <1> HIDE DEF c
  <1>3. GoodCall("confirm", c)
    BY <1>1 DEF GoodCall, IsCall
  <1> QED BY <1>2, <1>3, BeginKeeps

\* A step of a call that goes on where its thread is.
LEMMA ReadingStep ==
    ASSUME Inv, NEW t \in Threads
    PROVE  \E c : c = call[t] /\ IsCall(c) /\ GoodCall(pc[t], c)
  BY DEF Inv, CallsOK, GoodCall, IsCall

LEMMA ReadLinksKeeps ==
    ASSUME Inv, NEW t \in Threads, ReadLinks(t)
    PROVE  Inv'
  <1>1. PICK c, d : c = call[t] /\ d = [c EXCEPT !.links = Confirmed(c.asOf)]
    OBVIOUS
  <1>2. GoodCall("links", c) /\ IsCall(c)
    BY <1>1, ReadingStep DEF ReadLinks
  <1>3. /\ IsCall(d) /\ d.links = Confirmed(c.asOf)
        /\ \A field \in DOMAIN NoCall \ {"links"} : d[field] = c[field]
    BY <1>1, <1>2, LinksAreSet
  <1>4. /\ d.policy = c.policy /\ d.since = c.since /\ d.known = c.known /\ d.asOf = c.asOf
        /\ d.loaded = c.loaded /\ d.content = c.content /\ d.during = c.during
    BY <1>3 DEF NoCall
  <1>5. GoodCall("check", d)
    BY <1>2, <1>3, <1>4 DEF GoodCall, IsCall
  <1>6. Continue(t, d, "check") /\ UNCHANGED <<store, cache, answer, settled>>
    BY <1>1 DEF ReadLinks
  <1> QED BY <1>5, <1>6, MoveKeeps DEF Steps

\* A load begins with nothing, and nothing is within everything.
LEMMA CheckKeeps ==
    ASSUME Inv, NEW t \in Threads, Check(t)
    PROVE  Inv'
  <1>1. PICK c, step : c = call[t] /\ step \in {"fetch", "load"} /\ Continue(t, c, step)
    BY DEF Check
  <1>2. GoodCall("check", c)
    BY <1>1, ReadingStep DEF Check
  <1>3. ContentOK(c) /\ LoadOK(c)
    BY <1>2 DEF GoodCall, ContentOK, LoadOK
  <1>4. GoodCall(step, c)
    <2>1. 0 \in 0..(Len(Tables) - 1)
      BY TablesKnown
    <2> QED BY <1>1, <1>2, <1>3, <2>1 DEF GoodCall
  <1>5. \A s : Nested(s, c) /\ Nested(c, s)
    BY <1>2 DEF GoodCall, Nested, View
  <1>6. UNCHANGED <<store, cache, answer, settled>>
    BY DEF Check
  <1> QED BY <1>1, <1>4, <1>5, <1>6, MoveKeeps DEF Steps

\* What is shown, or has been loaded, was visible at its moment.
LEMMA AllWasVisible ==
    ASSUME Inv, NEW s \in Shown \cup Loads
    PROVE  ContentOK(s)
  BY DEF Inv, SnapshotsOK, CallsOK, GoodCall, Loads, Loading

\* One table more: of that table the load has now all there is.
LEMMA LoadKeeps ==
    ASSUME Inv, NEW t \in Threads, Load(t)
    PROVE  Inv'
  <1>1. PICK c, n, step, seen, d :
          /\ c = call[t] /\ n = c.loaded + 1 /\ seen = Visible(Tables[n], c.asOf)
          /\ step = IF n = Len(Tables) THEN "insert" ELSE "load"
          /\ d = [c EXCEPT !.loaded = n, !.content = c.content \cup seen]
    OBVIOUS
  <1>2. Continue(t, d, step) /\ UNCHANGED <<store, cache, answer, settled>>
    BY <1>1 DEF Load
  <1>3. GoodCall("load", c) /\ IsCall(c) /\ c \in Loads
    BY <1>1, ReadingStep DEF Load, Loads, Loading
  <1>4. /\ IsCall(d) /\ d.loaded = n /\ d.content = c.content \cup seen
        /\ \A field \in DOMAIN NoCall \ {"loaded", "content"} : d[field] = c[field]
    <2>1. IsCall(c) /\ d = [c EXCEPT !.loaded = n, !.content = c.content \cup seen]
      BY <1>1, <1>3
    <2> QED BY <2>1 DEF IsCall, NoCall
  <1>5. /\ d.policy = c.policy /\ d.since = c.since /\ d.known = c.known /\ d.asOf = c.asOf
        /\ d.during = c.during /\ d.links = c.links
    BY <1>4 DEF NoCall
  <1>6. /\ n \in 1..Len(Tables) /\ c.loaded = n - 1 /\ c.loaded \in Nat
        /\ n # Len(Tables) => n \in 0..(Len(Tables) - 1)
    BY <1>1, <1>3, TablesKnown DEF GoodCall
  <1>7. ContentOK(d)
    BY <1>1, <1>3, <1>4, <1>5 DEF GoodCall, ContentOK, Visible
  <1>8. LoadOK(d)
    <2>1. ASSUME NEW i \in 1..n PROVE Visible(Tables[i], d.asOf) \subseteq d.content \cup d.during
      <3>1. CASE i = n
        BY <3>1, <1>1, <1>4, <1>5
      <3>2. CASE i # n
        <4>1. i \in 1..c.loaded
          BY <3>2, <1>6
        <4> QED BY <4>1, <1>3, <1>4, <1>5 DEF GoodCall, LoadOK
      <3> QED BY <3>1, <3>2
    <2> QED BY <2>1, <1>4 DEF LoadOK
  <1>9. GoodCall(step, d)
    BY <1>1, <1>3, <1>4, <1>5, <1>6, <1>7, <1>8 DEF GoodCall, IsCall
  <1>10. ASSUME NEW s \in Shown \cup Loads PROVE Nested(s, d) /\ Nested(d, s)
    <2> DEFINE table == Tables[n]
    <2>1. Nested(s, c) /\ Nested(c, s)
      BY <1>3 DEF Inv, ViewsAreNested
    <2>2. ContentOK(s)
      BY AllWasVisible
    <2>3. s.asOf = d.asOf => View(s, table) \subseteq View(d, table)
      BY <2>2, <1>1, <1>4, <1>5 DEF ContentOK, View, Visible
    <2>4. \A other : other # table => View(d, other) = View(c, other)
      BY <1>1, <1>4 DEF View, Visible
    <2> HIDE DEF table
    <2> QED BY <2>1, <2>3, <2>4, <1>5 DEF Nested
  <1>11. step \in Steps
    BY <1>1 DEF Steps
  <1> QED BY <1>2, <1>9, <1>10, <1>11, MoveKeeps

\* What the load missed was committed during it, and the cache says so.
LEMMA InsertKeeps ==
    ASSUME Inv, NEW t \in Threads, Insert(t)
    PROVE  Inv'
  <1>1. PICK c, s, entry :
          /\ c = call[t] /\ s = Snapshot(c)
          /\ entry = [key |-> Key(c), snapshot |-> s, during |-> c.during]
    OBVIOUS
  <1>2. /\ cache' = {x \in cache : x.key # Key(c)} \cup {entry}
        /\ Continue(t, c, "fetch") /\ UNCHANGED <<store, answer, settled>>
    BY <1>1 DEF Insert
  <1>3. GoodCall("insert", c) /\ c \in Loads
    BY <1>1, ReadingStep DEF Insert, Loads, Loading
  <1>4. /\ entry.key = Key(c) /\ entry.snapshot = s /\ entry.during = c.during
        /\ s.asOf = c.asOf /\ s.content = c.content /\ Key(s) = Key(c) /\ Key(c).asOf = c.asOf
    BY <1>1 DEF Snapshot, Key
  <1>5. GoodCall("fetch", c) /\ "fetch" \in Steps
    BY <1>3 DEF GoodCall, Steps
  <1>6. CallsOK' /\ Loads' \subseteq Loads
    <2>1. answer' = [u \in Threads |-> answer'[u]]
      BY <1>2 DEF Inv, CallsOK
    <2>2. pc \in [Threads -> Steps] /\ UNCHANGED <<rows, confirmedBy>> /\ CallsOK
      BY <1>2 DEF Inv, TypeOK, store
    <2> QED BY <2>1, <2>2, <1>2, <1>5, OneCallMoves
  <1>7. Shown' \subseteq Shown \cup {s}
    BY <1>2, <1>4 DEF Shown
  <1>8. ViewsAreNested'
    <2>1. \A x \in (Shown \cup Loads)' : \E y \in Shown \cup Loads :
             y.asOf = x.asOf /\ y.content = x.content
      BY <1>3, <1>4, <1>6, <1>7
    <2> QED BY <2>1, ViewsStay DEF Inv
  <1>9. SnapshotsOK'
    <2>1. ContentOK(s)
      BY <1>3, <1>4 DEF GoodCall, ContentOK
    <2>2. \A x \in Shown' : ContentOK(x)
      BY <2>1, <1>7 DEF Inv, SnapshotsOK
    <2>3. \A x \in Shown' : ContentOK(x)'
      BY <2>2, <1>2 DEF ContentOK, Visible, store
    <2>4. \A x \in cache' : x.key = Key(x.snapshot)
      BY <1>2, <1>4 DEF Inv, SnapshotsOK
    <2> QED BY <2>3, <2>4 DEF SnapshotsOK
  <1>10. TypeOK' /\ IsFiniteSet(rows')
    <2>1. pc' \in [Threads -> Steps]
      BY <1>2, <1>5 DEF Continue, Inv, TypeOK
    <2>2. \A x, y \in cache' : x.key = y.key => x = y
      BY <1>2, <1>4 DEF Inv, TypeOK
    <2> QED BY <2>1, <2>2, <1>2 DEF Inv, TypeOK, store
  <1>11. OwnWritesAreSeen'
    <2>1. ASSUME NEW x \in cache', NEW i \in DOMAIN Tables
          PROVE  Visible(Tables[i], x.key.asOf) \cap settled \subseteq x.snapshot.content \cup x.during
      <3>1. CASE x \in cache
        BY <3>1 DEF Inv, OwnWritesAreSeen
      <3>2. CASE x = entry
        <4>1. i \in 1..c.loaded
          BY <1>3, TablesKnown DEF GoodCall
        <4>2. Visible(Tables[i], c.asOf) \subseteq c.content \cup c.during
          BY <4>1, <1>3 DEF GoodCall, LoadOK
        <4> QED BY <4>2, <3>2, <1>4
      <3> QED BY <3>1, <3>2, <1>2
    <2> QED BY <2>1, <1>2 DEF OwnWritesAreSeen, Visible, store
  <1>12. OneConfirmation'
    BY <1>2 DEF Inv, OneConfirmation, Canonical, store
  <1> QED BY <1>6, <1>8, <1>9, <1>10, <1>11, <1>12 DEF Inv

\* A call ends, and nothing is shown that was not shown before.
LEMMA ForgettingKeeps ==
    ASSUME Inv, NEW t \in Threads, End(t), UNCHANGED <<rows, policy, confirmedBy>>,
           cache' \subseteq cache, answer' = [u \in Threads |-> answer'[u]], Shown' \subseteq Shown,
           settled' \subseteq rows, cache' # {} => settled' = settled, OneConfirmation'
    PROVE  Inv'
  <1>1. GoodCall("idle", NoCall) /\ "idle" \in Steps
    BY NoCallIsCall DEF GoodCall, IsCall, Steps
  <1>2. CallsOK' /\ Loads' \subseteq Loads
    BY <1>1, OneCallMoves DEF Inv, TypeOK, End
  <1>3. ViewsAreNested'
    BY <1>2, ViewsStay DEF Inv
  <1>4. SnapshotsOK'
    BY DEF Inv, SnapshotsOK, ContentOK, Visible
  <1>5. TypeOK' /\ IsFiniteSet(rows')
    <2>1. pc' \in [Threads -> Steps]
      BY <1>1 DEF End, Continue, Inv, TypeOK
    <2> QED BY <2>1 DEF Inv, TypeOK
  <1>6. OwnWritesAreSeen'
    BY DEF Inv, OwnWritesAreSeen, Visible
  <1> QED BY <1>2, <1>3, <1>4, <1>5, <1>6 DEF Inv

LEMMA FetchKeeps ==
    ASSUME Inv, NEW t \in Threads, Fetch(t)
    PROVE  Inv'
  <1>1. /\ End(t) /\ UNCHANGED <<store, cache, settled>>
        /\ answer = [u \in Threads |-> answer[u]]
    BY DEF Fetch, Inv, CallsOK
  <1>2. PICK a : answer' = [answer EXCEPT ![t] = a] /\ (a = NoAnswer \/ a \in {x.snapshot : x \in cache})
    BY DEF Fetch
  <1>3. /\ answer' = [u \in Threads |-> answer'[u]]
        /\ \A u \in Threads : answer'[u] = answer[u] \/ answer'[u] = a
    BY <1>1, <1>2
  <1>4. Shown' \subseteq Shown
    BY <1>1, <1>2, <1>3 DEF Shown
  <1>5. OneConfirmation' /\ settled' \subseteq rows
    BY <1>1 DEF Inv, TypeOK, OneConfirmation, Canonical, store
  <1> QED BY <1>1, <1>3, <1>4, <1>5, ForgettingKeeps DEF store

\* The cache is cleared: what is settled from now on is asked of no snapshot
\* that was loaded before.
LEMMA SettleKeeps ==
    ASSUME Inv, NEW t \in Threads, Settle(t)
    PROVE  Inv'
  <1>1. PICK c : c = call[t]
    OBVIOUS
  <1>2. /\ End(t) /\ UNCHANGED <<rows, policy, confirmedBy, answer>> /\ cache' = {}
        /\ settled' = settled \cup c.batch
        /\ audited' = IF c.proposal = NoAnswer THEN audited ELSE audited \cup {<<c.user, c.proposal>>}
    BY <1>1 DEF Settle
  <1>3. GoodCall("settle", c)
    BY <1>1, ReadingStep DEF Settle
  <1>4. settled' \subseteq rows
    BY <1>2, <1>3 DEF GoodCall, Inv, TypeOK
  <1>5. Shown' \subseteq Shown /\ answer' = [u \in Threads |-> answer'[u]]
    BY <1>2 DEF Shown, Inv, CallsOK
  <1>6. OneConfirmation'
    BY <1>2, <1>3 DEF GoodCall, Inv, OneConfirmation, Canonical
  <1> QED BY <1>2, <1>4, <1>5, <1>6, ForgettingKeeps

LEMMA GrowingKeeps ==
    ASSUME Inv, Grows, KeysAreUnique(rows'), IsFiniteSet(rows'), policy' \in Policies,
           DOMAIN confirmedBy' \subseteq Proposals,
           \A p \in DOMAIN confirmedBy' : confirmedBy'[p] \in Users,
           pc' \in [Threads -> Steps], UNCHANGED <<cache, answer, settled>>, OneConfirmation',
           NEW movers \in SUBSET Threads, call' = [u \in Threads |-> call'[u]],
           \A u \in Threads \ movers : TakesNote(u),
           \A u \in movers : pc'[u] = "settle" /\ GoodCall(pc[u], call[u])'
    PROVE  Inv'
  <1>1. CallsOK' /\ SnapshotsOK' /\ ViewsAreNested'
    <2>1. CallsOK /\ SnapshotsOK /\ ViewsAreNested /\ UNCHANGED <<cache, answer>>
      BY DEF Inv
    <2> QED BY <2>1, NotingKeeps
  <1>2. TypeOK'
    BY DEF Inv, TypeOK, Grows
  <1>3. OwnWritesAreSeen'
    <2>1. \A table, asOf : Visible(table, asOf)' \cap settled \subseteq Visible(table, asOf)
      BY DEF Inv, TypeOK, Visible
    <2> QED BY <2>1 DEF Inv, OwnWritesAreSeen
  <1> QED BY <1>1, <1>2, <1>3 DEF Inv

LEMMA LoadsWitness ==
    ASSUME Inv, NEW batch, rows' = rows \cup batch, call' = Witnessed(call, batch)
    PROVE  /\ call' = [u \in Threads |-> call'[u]]
           /\ \A u \in Threads : pc'[u] = pc[u] => TakesNote(u)
           /\ \A u \in Threads : ~Loading(u) => call'[u] = call[u]
  <1>1. /\ call' = [u \in Threads |-> call'[u]]
        /\ \A u \in Threads : ~Loading(u) => call'[u] = call[u]
    BY DEF Witnessed
  <1>2. ASSUME NEW u \in Threads, pc'[u] = pc[u] PROVE TakesNote(u)
    <2>1. PICK c, d : c = call[u] /\ d = call'[u]
      OBVIOUS
    <2>2. IsCall(c)
      BY <2>1, ReadingStep
    <2>3. CASE Loading(u)
      <3>1. d = [c EXCEPT !.during = c.during \cup (batch \ rows)]
        BY <2>1, <2>3 DEF Witnessed
      <3>2. /\ IsCall(d) /\ d.during = c.during \cup (batch \ rows)
            /\ \A field \in DOMAIN NoCall \ {"during"} : d[field] = c[field]
        BY <2>2, <3>1, DuringIsSet
      <3>3. Noted(c, d)
        BY <3>2 DEF Noted, NoCall
      <3> QED BY <1>2, <2>1, <2>3, <3>2, <3>3 DEF TakesNote, Loading
    <2>4. CASE ~Loading(u)
      <3>1. Noted(c, c)
        BY <2>2 DEF Noted
      <3> QED BY <1>1, <1>2, <2>1, <2>4, <3>1 DEF TakesNote
    <2> QED BY <2>3, <2>4
  <1> QED BY <1>1, <1>2

LEMMA ReadersAreTold ==
    ASSUME Inv, NEW v, UNCHANGED rows, call' = Activated(call, v)
    PROVE  /\ call' = [u \in Threads |-> call'[u]]
           /\ \A u \in Threads : pc'[u] = pc[u] => TakesNote(u)
           /\ \A u \in Threads : ~Reading(u) => call'[u] = call[u]
  <1>1. /\ call' = [u \in Threads |-> call'[u]]
        /\ \A u \in Threads : ~Reading(u) => call'[u] = call[u]
    BY DEF Activated
  <1>2. ASSUME NEW u \in Threads, pc'[u] = pc[u] PROVE TakesNote(u)
    <2>1. PICK c, d : c = call[u] /\ d = call'[u]
      OBVIOUS
    <2>2. IsCall(c)
      BY <2>1, ReadingStep
    <2>3. CASE Reading(u)
      <3>1. d = [c EXCEPT !.since = c.since \cup {v}]
        BY <2>1, <2>3 DEF Activated
      <3>2. /\ IsCall(d) /\ d.since = c.since \cup {v}
            /\ \A field \in DOMAIN NoCall \ {"since"} : d[field] = c[field]
        BY <2>2, <3>1, SinceIsSet
      <3>3. Noted(c, d) /\ d.during = c.during
        BY <3>2 DEF Noted, NoCall
      <3> QED BY <1>2, <2>1, <2>3, <3>3 DEF TakesNote, Reading
    <2>4. CASE ~Reading(u)
      <3>1. Noted(c, c)
        BY <2>2 DEF Noted
      <3> QED BY <1>1, <1>2, <2>1, <2>4, <3>1 DEF TakesNote
    <2> QED BY <2>3, <2>4
  <1> QED BY <1>1, <1>2

\* Nothing has happened to the calls.
LEMMA OthersAreAsTheyWere ==
    ASSUME Inv, UNCHANGED rows, NEW u \in Threads, pc'[u] = pc[u], call'[u] = call[u]
    PROVE  TakesNote(u)
  <1>1. Noted(call[u], call[u])
    BY ReadingStep DEF Noted
  <1> QED BY <1>1 DEF TakesNote

LEMMA StoredBatch ==
    ASSUME Inv, NEW batch, IsFiniteSet(batch), KeysAreUnique(batch), ~Conflicts(batch),
           rows' = rows \cup batch, UNCHANGED <<policy, confirmedBy, audited>>
    PROVE  /\ Grows /\ KeysAreUnique(rows') /\ IsFiniteSet(rows') /\ policy' \in Policies
           /\ DOMAIN confirmedBy' \subseteq Proposals
           /\ \A p \in DOMAIN confirmedBy' : confirmedBy'[p] \in Users
           /\ OneConfirmation'
  <1>1. \A r \in batch, q \in rows : r.table = q.table /\ r.key = q.key => r = q
    BY DEF Conflicts
  <1>2. KeysAreUnique(rows') /\ IsFiniteSet(rows')
    BY <1>1, KeysStayUnique DEF Inv, TypeOK
  <1>3. Grows
    BY DEF Grows
  <1>4. OneConfirmation'
    BY DEF Inv, OneConfirmation, Canonical
  <1> QED BY <1>2, <1>3, <1>4 DEF Inv, TypeOK

LEMMA CommitKeeps ==
    ASSUME Inv, NEW t \in Threads, Commit(t)
    PROVE  Inv'
  <1>1. PICK c, batch : c = call[t] /\ batch = c.batch
    OBVIOUS
  <1>2. GoodCall("commit", c) /\ pc[t] = "commit"
    BY <1>1, ReadingStep DEF Commit
  <1>3. CASE Conflicts(batch) /\ End(t) /\ UNCHANGED rows
    <2>1. UNCHANGED <<store, cache, answer, settled>>
      BY <1>3 DEF Commit, store
    <2> QED BY <1>3, <2>1, EndKeeps
  <1>4. CASE ~Conflicts(batch) /\ rows' = rows \cup batch /\ pc' = [pc EXCEPT ![t] = "settle"]
             /\ call' = Witnessed(call, batch)
    <2>1. /\ UNCHANGED <<policy, confirmedBy, audited, cache, answer, settled>>
          /\ pc \in [Threads -> Steps]
      BY DEF Commit, Inv, TypeOK
    <2>2. IsFiniteSet(batch) /\ KeysAreUnique(batch)
      BY <1>1, <1>2 DEF GoodCall
    <2>3. call'[t] = c
      BY <1>1, <1>2, <1>4, LoadsWitness DEF Loading
    <2>4. GoodCall("settle", c)'
      BY <1>1, <1>2, <1>4 DEF GoodCall
    <2>5. GoodCall(pc[t], call[t])' /\ pc'[t] = "settle"
      BY <1>4, <2>1, <2>3, <2>4
    <2>6. pc' \in [Threads -> Steps] /\ \A u \in Threads \ {t} : pc'[u] = pc[u]
      BY <1>4, <2>1 DEF Steps
    <2>7. \A u \in Threads \ {t} : TakesNote(u)
      BY <1>4, <2>6, LoadsWitness
    <2> DEFINE movers == {t}
    <2>8. movers \in SUBSET Threads /\ \A u \in Threads \ movers : TakesNote(u)
      BY <2>7
    <2>9. \A u \in movers : pc'[u] = "settle" /\ GoodCall(pc[u], call[u])'
      BY <2>5
    <2> HIDE DEF movers
    <2>10. call' = [u \in Threads |-> call'[u]]
      BY <1>4, LoadsWitness
    <2>11. /\ Grows /\ KeysAreUnique(rows') /\ IsFiniteSet(rows') /\ policy' \in Policies
           /\ DOMAIN confirmedBy' \subseteq Proposals
           /\ \A p \in DOMAIN confirmedBy' : confirmedBy'[p] \in Users
           /\ OneConfirmation'
      BY <1>4, <2>1, <2>2, StoredBatch
    <2> QED BY <2>1, <2>6, <2>8, <2>9, <2>10, <2>11, GrowingKeeps
  <1> QED BY <1>1, <1>3, <1>4 DEF Commit

LEMMA IngestElsewhereKeeps ==
    ASSUME Inv, NEW batch \in Batches, IngestElsewhere(batch)
    PROVE  Inv'
  <1>1. /\ ~Conflicts(batch) /\ rows' = rows \cup batch /\ call' = Witnessed(call, batch)
        /\ UNCHANGED <<policy, confirmedBy, audited, cache, answer, settled, pc>>
    BY DEF IngestElsewhere, Elsewhere
  <1>2. IsFiniteSet(batch) /\ KeysAreUnique(batch)
    BY SnapshotsAssumption
  <1> DEFINE movers == {}
  <1>3. /\ movers \in SUBSET Threads /\ call' = [u \in Threads |-> call'[u]]
        /\ \A u \in Threads \ movers : TakesNote(u)
        /\ \A u \in movers : pc'[u] = "settle" /\ GoodCall(pc[u], call[u])'
    BY <1>1, LoadsWitness
  <1> HIDE DEF movers
  <1>4. /\ Grows /\ KeysAreUnique(rows') /\ IsFiniteSet(rows') /\ policy' \in Policies
        /\ DOMAIN confirmedBy' \subseteq Proposals
        /\ \A p \in DOMAIN confirmedBy' : confirmedBy'[p] \in Users
        /\ OneConfirmation'
    BY <1>1, <1>2, StoredBatch
  <1>5. pc' \in [Threads -> Steps]
    BY <1>1 DEF Inv, TypeOK
  <1> QED BY <1>1, <1>3, <1>4, <1>5, GrowingKeeps

\* A confirmation that is accepted takes nobody's place.
LEMMA SignedGrows ==
    ASSUME Inv, NEW p \in Proposals, NEW user \in Users, Canonical(p) => confirmedBy[p] = user,
           confirmedBy' = Signed(p, user), UNCHANGED <<rows, policy>>,
           audited' \subseteq audited \cup {<<user, p>>}
    PROVE  /\ Grows /\ KeysAreUnique(rows') /\ IsFiniteSet(rows') /\ policy' \in Policies
           /\ DOMAIN confirmedBy' \subseteq Proposals
           /\ \A q \in DOMAIN confirmedBy' : confirmedBy'[q] \in Users
           /\ OneConfirmation'
           /\ Canonical(p)' /\ confirmedBy'[p] = user
  <1>1. /\ DOMAIN confirmedBy' = DOMAIN confirmedBy \cup {p} /\ confirmedBy'[p] = user
        /\ \A q \in DOMAIN confirmedBy \ {p} : confirmedBy'[q] = confirmedBy[q]
    BY DEF Signed
  <1>2. \A q \in DOMAIN confirmedBy : confirmedBy'[q] = confirmedBy[q]
    BY <1>1 DEF Canonical
  <1>3. Grows
    BY <1>1, <1>2 DEF Grows
  <1>4. ASSUME NEW x \in audited' PROVE Canonical(x[2])' /\ confirmedBy'[x[2]] = x[1]
    <2>1. CASE x \in audited
      BY <2>1, <1>1, <1>2 DEF Inv, OneConfirmation, Canonical
    <2>2. CASE x = <<user, p>>
      BY <2>2, <1>1 DEF Canonical
    <2> QED BY <2>1, <2>2
  <1>5. OneConfirmation'
    BY <1>4 DEF OneConfirmation
  <1> QED BY <1>1, <1>2, <1>3, <1>5 DEF Inv, TypeOK, Canonical

LEMMA ConfirmPutKeeps ==
    ASSUME Inv, NEW t \in Threads, ConfirmPut(t)
    PROVE  Inv'
  <1>1. PICK c, p, user : c = call[t] /\ p = c.proposal /\ user = c.user
    OBVIOUS
  <1>2. GoodCall("confirm", c) /\ IsCall(c) /\ p \in Proposals /\ user \in Users /\ c.batch = {}
    <2>1. GoodCall("confirm", c) /\ IsCall(c)
      BY <1>1, ReadingStep DEF ConfirmPut
    <2> QED BY <1>1, <2>1 DEF GoodCall
  <1>3. CASE End(t) /\ UNCHANGED confirmedBy
    <2>1. UNCHANGED <<store, cache, answer, settled>>
      BY <1>3 DEF ConfirmPut, store
    <2> QED BY <1>3, <2>1, EndKeeps
  <1>4. CASE /\ Canonical(p) => confirmedBy[p] = user
             /\ confirmedBy' = Signed(p, user) /\ Continue(t, c, "settle")
    <2>1. UNCHANGED <<rows, policy, audited, cache, answer, settled>>
      BY DEF ConfirmPut
    <2>2. /\ Grows /\ KeysAreUnique(rows') /\ IsFiniteSet(rows') /\ policy' \in Policies
          /\ DOMAIN confirmedBy' \subseteq Proposals
          /\ \A q \in DOMAIN confirmedBy' : confirmedBy'[q] \in Users
          /\ OneConfirmation'
          /\ Canonical(p)' /\ confirmedBy'[p] = user
      BY <1>2, <1>4, <2>1, SignedGrows
    <2>3. GoodCall("settle", c)'
      BY <1>1, <1>2, <2>2 DEF GoodCall, IsCall
    <2>4. /\ pc \in [Threads -> Steps] /\ call = [u \in Threads |-> call[u]]
          /\ pc' = [pc EXCEPT ![t] = "settle"] /\ call' = [call EXCEPT ![t] = c]
      BY <1>4 DEF Inv, TypeOK, CallsOK, Continue
    <2>5. /\ pc' \in [Threads -> Steps] /\ pc'[t] = "settle" /\ call'[t] = c
          /\ call' = [u \in Threads |-> call'[u]]
          /\ \A u \in Threads \ {t} : pc'[u] = pc[u] /\ call'[u] = call[u]
      BY <2>4 DEF Steps
    <2>6. GoodCall(pc[t], call[t])'
      BY <2>3, <2>5
    <2> DEFINE movers == {t}
    <2>7. movers \in SUBSET Threads /\ \A u \in Threads \ movers : TakesNote(u)
      BY <2>1, <2>5, OthersAreAsTheyWere
    <2>8. \A u \in movers : pc'[u] = "settle" /\ GoodCall(pc[u], call[u])'
      BY <2>5, <2>6
    <2> HIDE DEF movers
    <2> QED BY <2>1, <2>2, <2>5, <2>7, <2>8, GrowingKeeps
  <1> QED BY <1>1, <1>3, <1>4 DEF ConfirmPut

LEMMA ConfirmElsewhereKeeps ==
    ASSUME Inv, NEW user \in Users, NEW p \in Proposals, ConfirmElsewhere(user, p)
    PROVE  Inv'
  <1>1. /\ ~Canonical(p) /\ confirmedBy' = Signed(p, user) /\ audited' = audited \cup {<<user, p>>}
        /\ UNCHANGED <<rows, policy, call, cache, answer, settled, pc>>
    BY DEF ConfirmElsewhere, Elsewhere
  <1>2. /\ Grows /\ KeysAreUnique(rows') /\ IsFiniteSet(rows') /\ policy' \in Policies
        /\ DOMAIN confirmedBy' \subseteq Proposals
        /\ \A q \in DOMAIN confirmedBy' : confirmedBy'[q] \in Users
        /\ OneConfirmation'
    BY <1>1, SignedGrows
  <1> DEFINE movers == {}
  <1>3. /\ movers \in SUBSET Threads /\ \A u \in Threads \ movers : TakesNote(u)
        /\ \A u \in movers : pc'[u] = "settle" /\ GoodCall(pc[u], call[u])'
    BY <1>1, OthersAreAsTheyWere
  <1> HIDE DEF movers
  <1>4. pc' \in [Threads -> Steps] /\ call' = [u \in Threads |-> call'[u]]
    BY <1>1 DEF Inv, TypeOK, CallsOK
  <1> QED BY <1>1, <1>2, <1>3, <1>4, GrowingKeeps

\* Another bundle becomes the active one, and nothing else changes.
LEMMA ReleasedIsTold ==
    ASSUME Inv, NEW v \in Policies, policy' = v, call' = Activated(call, v),
           UNCHANGED <<rows, confirmedBy, audited, cache, answer, settled>>,
           pc' \in [Threads -> Steps], NEW movers \in SUBSET Threads,
           \A u \in Threads \ movers : pc'[u] = pc[u],
           \A u \in movers : pc[u] = "idle" /\ pc'[u] = "settle"
    PROVE  Inv'
  <1>1. /\ Grows /\ KeysAreUnique(rows') /\ IsFiniteSet(rows') /\ policy' \in Policies
        /\ DOMAIN confirmedBy' \subseteq Proposals
        /\ \A q \in DOMAIN confirmedBy' : confirmedBy'[q] \in Users
        /\ OneConfirmation'
    BY DEF Grows, Inv, TypeOK, OneConfirmation, Canonical
  <1>2. /\ call' = [u \in Threads |-> call'[u]]
        /\ \A u \in Threads \ movers : TakesNote(u)
    BY ReadersAreTold
  <1>3. ASSUME NEW u \in movers PROVE pc'[u] = "settle" /\ GoodCall(pc[u], call[u])'
    <2>1. call[u] = NoCall
      BY <1>3, ReadingStep DEF GoodCall
    <2>2. call'[u] = NoCall
      BY <1>3, <2>1, ReadersAreTold DEF Reading
    <2>3. GoodCall("settle", NoCall)'
      BY NoCallIsCall DEF GoodCall, NoCall, IsCall
    <2> QED BY <1>3, <2>2, <2>3
  <1> QED BY <1>1, <1>2, <1>3, GrowingKeeps

LEMMA ReleaseKeeps ==
    ASSUME Inv, NEW v \in Policies,
           ReleaseElsewhere(v) \/ \E t \in Threads : Release(t, v)
    PROVE  Inv'
  <1>1. CASE ReleaseElsewhere(v)
    <2> DEFINE movers == {}
    <2>1. /\ movers \in SUBSET Threads /\ \A u \in Threads \ movers : pc'[u] = pc[u]
          /\ \A u \in movers : pc[u] = "idle" /\ pc'[u] = "settle"
          /\ pc' \in [Threads -> Steps]
      BY <1>1 DEF ReleaseElsewhere, Elsewhere, Inv, TypeOK
    <2> HIDE DEF movers
    <2> QED BY <1>1, <2>1, ReleasedIsTold DEF ReleaseElsewhere, Elsewhere
  <1>2. ASSUME NEW t \in Threads, Release(t, v) PROVE Inv'
    <2> DEFINE movers == {t}
    <2>1. pc[t] = "idle" /\ pc' = [pc EXCEPT ![t] = "settle"] /\ pc \in [Threads -> Steps]
      BY <1>2 DEF Release, Inv, TypeOK
    <2>2. /\ movers \in SUBSET Threads /\ \A u \in Threads \ movers : pc'[u] = pc[u]
          /\ \A u \in movers : pc[u] = "idle" /\ pc'[u] = "settle"
          /\ pc' \in [Threads -> Steps]
      BY <2>1 DEF Steps
    <2> HIDE DEF movers
    <2> QED BY <1>2, <2>2, ReleasedIsTold DEF Release
  <1> QED BY <1>1, <1>2

-----------------------------------------------------------------------------
(* The invariant.                                                          *)

LEMMA InitInv == Init => Inv
  <1> SUFFICES ASSUME Init PROVE Inv
    OBVIOUS
  <1>1. IsFiniteSet(rows) /\ KeysAreUnique(rows)
    BY SnapshotsAssumption DEF Init
  <1>2. Shown = {} /\ Loads = {}
    BY DEF Init, Shown, Loads, Loading
  <1>3. TypeOK
    BY <1>1 DEF Init, TypeOK, Steps
  <1>4. GoodCall("idle", NoCall)
    BY NoCallIsCall DEF GoodCall, IsCall
  <1>5. CallsOK
    BY <1>4 DEF Init, CallsOK
  <1>6. SnapshotsOK /\ ViewsAreNested
    BY <1>2 DEF Init, SnapshotsOK, ViewsAreNested
  <1>7. OwnWritesAreSeen /\ OneConfirmation
    BY DEF Init, OwnWritesAreSeen, OneConfirmation
  <1> QED BY <1>1, <1>3, <1>5, <1>6, <1>7 DEF Inv

LEMMA StepKeeps ==
    ASSUME Inv, NEW t \in Threads, Step(t)
    PROVE  Inv'
  <1>1. CASE SettleFails(t)
    BY <1>1, EndKeeps DEF SettleFails
  <1> QED BY <1>1, ReadLinksKeeps, CheckKeeps, LoadKeeps, InsertKeeps, FetchKeeps, CommitKeeps,
             ConfirmPutKeeps, SettleKeeps DEF Step

LEMMA NextInv == Inv /\ [Next]_vars => Inv'
  <1> SUFFICES ASSUME Inv, [Next]_vars PROVE Inv'
    OBVIOUS
  <1>1. CASE UNCHANGED vars
    <2>1. UNCHANGED <<rows, policy, confirmedBy, audited, cache, pc, call, answer, settled>>
      BY <1>1 DEF vars, store
    <2>2. Shown' = Shown /\ Loads' = Loads
      BY <2>1 DEF Shown, Loads, Loading
    <2>3. TypeOK' /\ IsFiniteSet(rows')
      BY <2>1 DEF Inv, TypeOK
    <2>4. \A s, d : GoodCall(s, d)' <=> GoodCall(s, d)
      BY <2>1 DEF GoodCall, Canonical, Confirmed, ContentOK, LoadOK, Visible
    <2>5. ASSUME NEW u \in Threads PROVE GoodCall(pc[u], call[u])'
      <3>1. PICK s, d : s = pc[u] /\ d = call[u]
        OBVIOUS
      <3>2. GoodCall(s, d) /\ s = pc'[u] /\ d = call'[u]
        BY <2>1, <3>1 DEF Inv, CallsOK
      <3> QED BY <2>4, <3>2
    <2>6. CallsOK'
      BY <2>1, <2>5 DEF Inv, CallsOK
    <2>7. SnapshotsOK' /\ ViewsAreNested'
      BY <2>1, <2>2 DEF Inv, SnapshotsOK, ViewsAreNested, ContentOK, Visible
    <2>8. OwnWritesAreSeen' /\ OneConfirmation'
      BY <2>1 DEF Inv, OwnWritesAreSeen, OneConfirmation, Visible, Canonical
    <2> QED BY <2>3, <2>6, <2>7, <2>8 DEF Inv
  <1>2. ASSUME NEW t \in Threads, Step(t) PROVE Inv'
    BY <1>2, StepKeeps
  <1>3. ASSUME NEW t \in Threads,
               \/ \E asOf \in AsOfs, history \in Histories : ReadPolicy(t, asOf, history)
               \/ \E batch \in Batches : Ingest(t, batch)
               \/ \E user \in Users, label \in {"CLEARED", "ESCALATED"}, at \in DecidedAts :
                     RecordDecision(t, user, label, at)
               \/ \E user \in Users, row \in rows : Curate(t, user, row)
               \/ \E user \in Users, p \in Proposals : ConfirmLink(t, user, p)
               \/ \E v \in Policies : Release(t, v)
        PROVE  Inv'
    BY <1>3, ReadPolicyKeeps, IngestKeeps, RecordDecisionKeeps, CurateKeeps, ConfirmLinkKeeps,
       ReleaseKeeps
  <1>4. ASSUME \/ \E batch \in Batches : IngestElsewhere(batch)
               \/ \E user \in Users, p \in Proposals : ConfirmElsewhere(user, p)
               \/ \E v \in Policies : ReleaseElsewhere(v)
        PROVE  Inv'
    BY <1>4, IngestElsewhereKeeps, ConfirmElsewhereKeeps, ReleaseKeeps
  <1> QED BY <1>1, <1>2, <1>3, <1>4 DEF Next

LEMMA Invariance == Spec => []Inv
  <1> QED BY InitInv, NextInv, PTL DEF Spec

\* Keys of the source tables stay unique whatever two ingestions do, so do
\* those of the snapshot cache whatever two loads insert.
THEOREM TypesHold == Spec => []TypeOK
  <1>1. Inv => TypeOK
    BY DEF Inv
  <1> QED BY <1>1, Invariance, PTL

\* Whoever the audit log says has confirmed a link is whom the canonical link
\* names, however the confirmations of threads and processes interleave.
THEOREM LinksAreConfirmedOnce == Spec => []OneConfirmation
  <1>1. Inv => OneConfirmation
    BY DEF Inv
  <1> QED BY <1>1, Invariance, PTL

\* What this process has stored and reported as done is in every snapshot it
\* still serves, or was committed while that snapshot was loaded.
THEOREM OwnWritesAreServed == Spec => []OwnWritesAreSeen
  <1>1. Inv => OwnWritesAreSeen
    BY DEF Inv
  <1> QED BY <1>1, Invariance, PTL

-----------------------------------------------------------------------------
(* One id, one story: of two snapshots for one moment one shows of a table *)
(* what the other shows, or more; if they count alike, they show the same. *)

LEMMA CountedAlike ==
    ASSUME NEW S, NEW T, IsFiniteSet(S), IsFiniteSet(T), S \subseteq T \/ T \subseteq S,
           Cardinality(S) = Cardinality(T)
    PROVE  S = T
  BY FS_Subset

LEMMA OfIsOfView == \A s, table : Of(s.content, table) = {r.data : r \in View(s, table)}
  BY DEF Of, View

LEMMA OfIsFinite ==
    ASSUME NEW s, NEW table, IsFiniteSet(View(s, table))
    PROVE  IsFiniteSet(Of(s.content, table))
  <1> DEFINE V == View(s, table)
             f == [r \in V |-> r.data]
  <1>1. Of(s.content, table) = {f[r] : r \in V}
    BY DEF Of, View
  <1> HIDE DEF f, V
  <1>2. IsFiniteSet(V)
    BY DEF V
  <1>3. IsFiniteSet({f[r] : r \in V})
    BY <1>2, ImageIsFinite
  <1> QED BY <1>1, <1>3

LEMMA ShownIsFinite ==
    ASSUME Inv, NEW s \in Shown, NEW table
    PROVE  IsFiniteSet(View(s, table))
  <1>1. View(s, table) \in SUBSET rows
    BY AllWasVisible DEF ContentOK, View, Visible
  <1> QED BY <1>1, FS_Subset DEF Inv

\* Two snapshots of one moment whose rows of a table are as many.
LEMMA SameDataOfTable ==
    ASSUME Inv, NEW s \in Shown, NEW u \in Shown, s.asOf = u.asOf,
           NEW table \in {"trade_events", "alerts"},
           Cardinality(Of(s.content, table)) = Cardinality(Of(u.content, table))
    PROVE  Of(s.content, table) = Of(u.content, table)
  <1>1. View(s, table) \subseteq View(u, table) \/ View(u, table) \subseteq View(s, table)
    BY DEF Inv, ViewsAreNested, Nested
  <1>2. \/ Of(s.content, table) \subseteq Of(u.content, table)
        \/ Of(u.content, table) \subseteq Of(s.content, table)
    BY <1>1 DEF Of, View
  <1>3. IsFiniteSet(Of(s.content, table)) /\ IsFiniteSet(Of(u.content, table))
    BY ShownIsFinite, OfIsFinite
  <1> QED BY <1>2, <1>3, CountedAlike

LEMMA SameOutcomes ==
    ASSUME Inv, NEW s \in Shown, NEW u \in Shown, s.asOf = u.asOf,
           Cardinality(View(s, "outcomes")) = Cardinality(View(u, "outcomes"))
    PROVE  Of(s.content, "outcomes") = Of(u.content, "outcomes")
  <1>1. \/ View(s, "outcomes") \subseteq View(u, "outcomes")
        \/ View(u, "outcomes") \subseteq View(s, "outcomes")
    BY DEF Inv, ViewsAreNested, Nested
  <1>2. IsFiniteSet(View(s, "outcomes")) /\ IsFiniteSet(View(u, "outcomes"))
    BY ShownIsFinite
  <1>3. View(s, "outcomes") = View(u, "outcomes")
    BY <1>1, <1>2, CountedAlike
  <1> QED BY <1>3, OfIsOfView

LEMMA InvGivesStory == Inv => SameIdSameStory
  <1> SUFFICES ASSUME Inv, NEW s \in Shown, NEW u \in Shown, SnapshotId(s) = SnapshotId(u)
               PROVE  /\ Story(s) = Story(u)
                      /\ \A e : CuratedLabel(s, e) = CuratedLabel(u, e)
    BY DEF SameIdSameStory
  <1>1. /\ s.asOf = u.asOf /\ s.links = u.links
        /\ Cardinality(Of(s.content, "trade_events")) = Cardinality(Of(u.content, "trade_events"))
        /\ Cardinality(Of(s.content, "alerts")) = Cardinality(Of(u.content, "alerts"))
        /\ Cardinality(View(s, "outcomes")) = Cardinality(View(u, "outcomes"))
    BY DEF SnapshotId, View
  <1>2. /\ Of(s.content, "trade_events") = Of(u.content, "trade_events")
        /\ Of(s.content, "alerts") = Of(u.content, "alerts")
        /\ Of(s.content, "outcomes") = Of(u.content, "outcomes")
    BY <1>1, SameDataOfTable, SameOutcomes
  <1>3. Story(s) = Story(u)
    BY <1>1, <1>2 DEF Story
  <1>4. ASSUME NEW e PROVE CuratedLabel(s, e) = CuratedLabel(u, e)
    BY <1>2 DEF CuratedLabel
  <1> QED BY <1>3, <1>4

\* The snapshot id that replay trusts tells the story, although it counts rows
\* only: two snapshots with one id have the same episodes, links and labels.
THEOREM IdsTellTheStory == Spec => []SameIdSameStory
  <1> QED BY InvGivesStory, Invariance, PTL

-----------------------------------------------------------------------------
(* An answer is to the question.                                           *)

LEMMA OnlyFetchAnswers ==
    ASSUME Inv, [Next]_vars, NEW t \in Threads, pc[t] = "fetch", pc'[t] = "idle"
    PROVE  Fetch(t) /\ UNCHANGED <<rows, confirmedBy, cache>>
  <1>1. pc \in [Threads -> Steps]
    BY DEF Inv, TypeOK
  <1>2. ASSUME UNCHANGED pc PROVE FALSE
    BY <1>2
  <1>3. ASSUME NEW u \in Threads, u # t, NEW step, pc' = [pc EXCEPT ![u] = step] PROVE FALSE
    BY <1>1, <1>3
  <1>4. CASE UNCHANGED vars
    BY <1>2, <1>4 DEF vars
  <1>5. CASE \/ \E batch \in Batches : IngestElsewhere(batch)
             \/ \E user \in Users, p \in Proposals : ConfirmElsewhere(user, p)
             \/ \E v \in Policies : ReleaseElsewhere(v)
    BY <1>2, <1>5 DEF IngestElsewhere, ConfirmElsewhere, ReleaseElsewhere, Elsewhere
  <1>6. ASSUME NEW u \in Threads, Step(u) PROVE u = t /\ Fetch(t)
    <2>1. CASE u = t
      BY <1>1, <1>6, <2>1
         DEF Step, ReadLinks, Check, Load, Insert, Commit, ConfirmPut, Settle, SettleFails, Continue
    <2>2. CASE u # t
      <3>1. \E step : pc' = [pc EXCEPT ![u] = step]
        BY <1>6 DEF Step, ReadLinks, Check, Load, Insert, Fetch, Commit, ConfirmPut, Settle,
                    SettleFails, Continue, End
      <3> QED BY <2>2, <3>1, <1>3
    <2> QED BY <2>1, <2>2
  <1>7. ASSUME NEW u \in Threads,
               \/ \E asOf \in AsOfs, history \in Histories : ReadPolicy(u, asOf, history)
               \/ \E batch \in Batches : Ingest(u, batch)
               \/ \E user \in Users, label \in {"CLEARED", "ESCALATED"}, at \in DecidedAts :
                     RecordDecision(u, user, label, at)
               \/ \E user \in Users, row \in rows : Curate(u, user, row)
               \/ \E user \in Users, p \in Proposals : ConfirmLink(u, user, p)
               \/ \E v \in Policies : Release(u, v)
        PROVE  FALSE
    <2>1. pc[u] = "idle" /\ \E step : pc' = [pc EXCEPT ![u] = step]
      BY <1>7 DEF ReadPolicy, Ingest, RecordDecision, Curate, ConfirmLink, Release, Begin
    <2> QED BY <2>1, <1>3
  <1>8. Fetch(t)
    BY <1>4, <1>5, <1>6, <1>7 DEF Next
  <1> QED BY <1>8 DEF Fetch, store

LEMMA FetchedIsCurrent ==
    ASSUME Inv, NEW t \in Threads, Fetch(t), answer'[t] # NoAnswer
    PROVE  /\ answer'[t].asOf = call[t].asOf /\ answer'[t].history = call[t].history
           /\ answer'[t].policy \in call[t].since
           /\ call[t].known \subseteq answer'[t].links
           /\ answer'[t].links \subseteq Confirmed(answer'[t].asOf)
  <1>1. PICK c : c = call[t]
    OBVIOUS
  <1>2. GoodCall("fetch", c)
    BY <1>1, ReadingStep DEF Fetch
  <1>3. answer = [u \in Threads |-> answer[u]]
    BY DEF Inv, CallsOK
  <1>4. PICK x \in cache : x.key = Key(c) /\ answer'[t] = x.snapshot
    BY <1>1, <1>3 DEF Fetch
  <1>5. Key(x.snapshot) = Key(c)
    BY <1>4 DEF Inv, SnapshotsOK
  <1>6. /\ x.snapshot.asOf = c.asOf /\ x.snapshot.history = c.history
        /\ x.snapshot.policy = c.policy /\ x.snapshot.links = c.links
    BY <1>5 DEF Key
  <1> QED BY <1>1, <1>2, <1>4, <1>6 DEF GoodCall

\* The answer to a call is for its moment, from a bundle that was active during
\* it, with every link confirmed before it and none that is not confirmed.
THEOREM CurrentAnswers == Spec => AnswersAreCurrent
  <1>1. Inv /\ [Next]_vars =>
          [\A t \in Threads :
              LET s == answer'[t]
                  c == call[t]
              IN  pc[t] = "fetch" /\ pc'[t] = "idle" /\ s # NoAnswer =>
                      /\ s.asOf = c.asOf /\ s.history = c.history
                      /\ s.policy \in c.since
                      /\ c.known \subseteq s.links /\ s.links \subseteq Confirmed(s.asOf)]_vars
    BY OnlyFetchAnswers, FetchedIsCurrent
  <1> QED BY <1>1, Invariance, PTL DEF Spec, AnswersAreCurrent

-----------------------------------------------------------------------------
(* Orders. *)

Preceding(S, R, x) == {y \in S : <<y, x>> \in R}

Orders(R, S) ==
    /\ \A x \in S : <<x, x>> \notin R
    /\ \A x \in S, y \in S : x = y \/ <<x, y>> \in R \/ <<y, x>> \in R
    /\ \A x \in S, y \in S, z \in S : <<x, y>> \in R /\ <<y, z>> \in R => <<x, z>> \in R

\* In a finite set under a total order there is an element for each place.
LEMMA EveryPlaceIsTaken ==
    ASSUME NEW S, IsFiniteSet(S), NEW R, Orders(R, S), NEW i \in 1..Cardinality(S)
    PROVE  \E x \in S : Cardinality(Preceding(S, R, x)) = i - 1
  <1> DEFINE size == Cardinality(S)
             place == [x \in S |-> Cardinality(Preceding(S, R, x))]
             places == 0..(size - 1)
  <1>1. size \in Nat
    BY FS_CardinalityType
  <1>2. ASSUME NEW x \in S
        PROVE  IsFiniteSet(Preceding(S, R, x)) /\ Cardinality(Preceding(S, R, x)) \in places
    <2>1. Preceding(S, R, x) \subseteq S \ {x}
      BY DEF Preceding, Orders
    <2>2. IsFiniteSet(S \ {x}) /\ Cardinality(S \ {x}) = size - 1
      BY FS_RemoveElement
    <2>3. IsFiniteSet(Preceding(S, R, x)) /\ Cardinality(Preceding(S, R, x)) <= size - 1
      BY <2>1, <2>2, FS_Subset
    <2>4. Cardinality(Preceding(S, R, x)) \in Nat
      BY <2>3, FS_CardinalityType
    <2> QED BY <1>1, <2>3, <2>4
  <1>3. ASSUME NEW x \in S, NEW y \in S, <<x, y>> \in R
        PROVE  Cardinality(Preceding(S, R, x)) # Cardinality(Preceding(S, R, y))
    <2>1. Preceding(S, R, x) \subseteq Preceding(S, R, y) /\ x \in Preceding(S, R, y)
          /\ x \notin Preceding(S, R, x)
      BY <1>3 DEF Preceding, Orders
    <2> QED BY <1>2, <2>1, FS_Subset
  <1>4. \A x \in S, y \in S : place[x] = place[y] => x = y
    BY <1>3 DEF Orders
  <1>5. place \in Injection(S, places)
    BY <1>2, <1>4 DEF Injection, IsInjective
  <1>6. IsFiniteSet(places) /\ Cardinality(places) = size
    <2> HIDE DEF size
    <2>1. 0 \in Int /\ size - 1 \in Int
      BY <1>1
    <2>2. /\ IsFiniteSet(0..(size - 1))
          /\ Cardinality(0..(size - 1)) = IF 0 > size - 1 THEN 0 ELSE size - 1 - 0 + 1
      BY <2>1, FS_Interval
    <2> QED BY <1>1, <2>2
  <1>7. place \in Surjection(S, places)
    <2> HIDE DEF place, places
    <2> QED BY <1>5, <1>6, FS_Injection
  <1>8. i - 1 \in places
    BY <1>1
  <1> QED BY <1>7, <1>8 DEF Surjection

NumberOrder(S) == {q \in S \X S : q[1] < q[2]}

\* Numbers in order are some of the numbers.
LEMMA NumbersInOrder ==
    ASSUME NEW S, IsFiniteSet(S), S \subseteq Int
    PROVE  /\ InOrder(S, <) \in Seq(S)
           /\ DOMAIN InOrder(S, <) = 1..Cardinality(S)
  <1> DEFINE R == NumberOrder(S)
             seq == InOrder(S, <)
             size == Cardinality(S)
  <1>1. \A x \in S, y \in S : <<x, y>> \in R <=> x < y
    BY DEF NumberOrder
  <1>2. Orders(R, S)
    <2> HIDE DEF R
    <2> QED BY <1>1 DEF Orders
  <1> HIDE DEF R
  <1>3. \A x \in S : {y \in S : y < x} = Preceding(S, R, x)
    BY <1>1 DEF Preceding
  <1>4. seq = [i \in 1..size |-> CHOOSE x \in S : Cardinality({y \in S : y < x}) = i - 1]
    BY DEF InOrder
  <1>5. ASSUME NEW i \in 1..size PROVE seq[i] \in S
    <2>1. PICK x \in S : Cardinality(Preceding(S, R, x)) = i - 1
      BY <1>2, EveryPlaceIsTaken
    <2>2. Cardinality({y \in S : y < x}) = i - 1
      BY <2>1, <1>3
    <2>3. seq[i] = CHOOSE z \in S : Cardinality({y \in S : y < z}) = i - 1
      BY <1>4
    <2> QED BY <2>2, <2>3, Zenon
  <1>6. size \in Nat
    BY FS_CardinalityType
  <1>7. DOMAIN seq = 1..size /\ seq \in [1..size -> S]
    BY <1>4, <1>5
  <1> HIDE DEF seq, size
  <1>8. seq \in Seq(S)
    BY <1>6, <1>7
  <1> QED BY <1>7, <1>8 DEF seq, size

PairOrder(S) == {q \in S \X S : PairBefore(q[1], q[2])}

LEMMA PairsInOrder ==
    ASSUME NEW S, IsFiniteSet(S), S \subseteq Int \X Int
    PROVE  InOrder(S, PairBefore) \in Seq(S)
  <1> DEFINE R == PairOrder(S)
             seq == InOrder(S, PairBefore)
             size == Cardinality(S)
  <1>1. \A x \in S, y \in S : <<x, y>> \in R <=> PairBefore(x, y)
    BY DEF PairOrder
  <1>2. \A x \in S, y \in S :
          /\ PairBefore(x, y) <=> (x[1] < y[1] \/ (x[1] = y[1] /\ x[2] < y[2]))
          /\ x[1] \in Int /\ x[2] \in Int /\ y[1] \in Int /\ y[2] \in Int
          /\ x[1] = y[1] /\ x[2] = y[2] => x = y
    BY DEF PairBefore
  <1>3. Orders(R, S)
    <2> HIDE DEF R
    <2> QED BY <1>1, <1>2 DEF Orders
  <1> HIDE DEF R
  <1>4. \A x \in S : {y \in S : PairBefore(y, x)} = Preceding(S, R, x)
    BY <1>1 DEF Preceding
  <1>5. seq = [i \in 1..size |-> CHOOSE x \in S : Cardinality({y \in S : PairBefore(y, x)}) = i - 1]
    BY DEF InOrder
  <1>6. ASSUME NEW i \in 1..size PROVE seq[i] \in S
    <2>1. PICK x \in S : Cardinality(Preceding(S, R, x)) = i - 1
      BY <1>3, EveryPlaceIsTaken
    <2>2. Cardinality({y \in S : PairBefore(y, x)}) = i - 1
      BY <2>1, <1>4
    <2>3. seq[i] = CHOOSE z \in S : Cardinality({y \in S : PairBefore(y, z)}) = i - 1
      BY <1>5
    <2> QED BY <2>2, <2>3, Zenon
  <1>7. size \in Nat
    BY FS_CardinalityType
  <1>8. DOMAIN seq = 1..size /\ seq \in [1..size -> S]
    BY <1>5, <1>6
  <1> HIDE DEF seq, size
  <1>9. seq \in Seq(S)
    BY <1>7, <1>8
  <1> QED BY <1>9 DEF seq

\* The least and the greatest of numbers are two of them.
LEMMA LeastAndGreatest ==
    ASSUME NEW S, IsFiniteSet(S), S \subseteq Int, S # {}
    PROVE  /\ Min(S) \in S /\ \A x \in S : Min(S) <= x
           /\ Max(S) \in S /\ \A x \in S : x <= Max(S)
  <1> DEFINE R == NumberOrder(S)
  <1>1. \A x \in S, y \in S : <<x, y>> \in R <=> x < y
    BY DEF NumberOrder
  <1>2. Orders(R, S)
    <2> HIDE DEF R
    <2> QED BY <1>1 DEF Orders
  <1> HIDE DEF R
  <1>3. Cardinality(S) \in Nat \ {0} /\ 1 \in 1..Cardinality(S) /\ Cardinality(S) \in 1..Cardinality(S)
    <2>1. Cardinality(S) \in Nat \ {0}
      BY FS_CardinalityType, FS_EmptySet
    <2> QED BY <2>1
  <1>4. \E m \in S : \A x \in S : m <= x
    <2>1. PICK m \in S : Cardinality(Preceding(S, R, m)) = 1 - 1
      BY <1>2, <1>3, EveryPlaceIsTaken
    <2>2. IsFiniteSet(Preceding(S, R, m))
      BY FS_Subset DEF Preceding
    <2>3. Preceding(S, R, m) = {}
      BY <2>1, <2>2, FS_EmptySet
    <2>4. \A x \in S : <<x, m>> \notin R
      BY <2>3 DEF Preceding
    <2>5. ASSUME NEW x \in S PROVE m <= x
      <3>1. m \in Int /\ x \in Int /\ ~(x < m)
        BY <1>1, <2>4
      <3> QED BY <3>1
    <2> QED BY <2>5
  <1>5. \E m \in S : \A x \in S : x <= m
    <2> DEFINE last == Cardinality(S)
    <2>1. last \in 1..Cardinality(S)
      BY <1>3
    <2> HIDE DEF last
    <2>2. \E x \in S : Cardinality(Preceding(S, R, x)) = last - 1
      BY <1>2, <2>1, EveryPlaceIsTaken
    <2>3. PICK m \in S : Cardinality(Preceding(S, R, m)) = Cardinality(S) - 1
      BY <2>2 DEF last
    <2>4. Preceding(S, R, m) \subseteq S \ {m}
      BY <1>2 DEF Preceding, Orders
    <2>5. IsFiniteSet(S \ {m}) /\ Cardinality(S \ {m}) = Cardinality(S) - 1
      BY FS_RemoveElement
    <2>6. Preceding(S, R, m) = S \ {m}
      BY <2>3, <2>4, <2>5, FS_Subset
    <2>7. ASSUME NEW x \in S PROVE x <= m
      <3>1. x = m \/ <<x, m>> \in R
        BY <2>6 DEF Preceding
      <3> QED BY <1>1, <3>1
    <2> QED BY <2>7
  <1> QED BY <1>4, <1>5 DEF Min, Max

-----------------------------------------------------------------------------
(* Linking: what holds of the episodes after every link.                   *)

IsLinking(s) ==
    s = [root |-> s.root, lo |-> s.lo, hi |-> s.hi, instruments |-> s.instruments,
         accepted |-> s.accepted, rejected |-> s.rejected, flags |-> s.flags]

SharedKeys == {"URN_REF", "ALTERNATE_TRADE_ID"}

LinksIn(E) == [src : E, dst : E, kind : SharedKeys \cup {"REBOOK_OF", "AGENT_LINK"},
               tier : {"S", "A", "M"}]

OwnInstruments(events, t) ==
    IF t \in ByTrade(events) THEN {History(events, t)[1].instrument} ELSE {}

\* Roots name episodes, and links lie among the trades of E.
Rooted(ids, E, s) ==
    /\ IsLinking(s)
    /\ s.root \in [ids -> ids] /\ \A t \in ids : s.root[s.root[t]] = s.root[t]
    /\ s.lo \in [ids -> Int] /\ s.hi \in [ids -> Int]
    /\ s.instruments = [t \in ids |-> s.instruments[t]]
    /\ s.accepted \in Seq(LinksIn(E)) /\ \A r \in s.rejected : r[1] \in LinksIn(E)

\* An episode is no more than what links join.
Joined(ids, s) ==
    /\ \A l \in ToSet(s.accepted) : s.root[l.src] = s.root[l.dst]
    /\ \A t \in ids, u \in ids :
          s.root[t] = s.root[u] =>
              \A X \in SUBSET ids : NoLinkLeaves(s, X) => (t \in X <=> u \in X)

\* The recorded span covers the times of the episode, and is within bounds once
\* there are two trades.
Spanned(events, alerts, ids, s) ==
    \A t \in ids :
        /\ \A x \in Times(events, alerts, t) : s.lo[s.root[t]] <= x /\ x <= s.hi[s.root[t]]
        /\ t # s.root[t] => s.hi[s.root[t]] - s.lo[s.root[t]] <= MaxSpan

\* Without lineage the recorded instruments are those of every trade.
Apart(events, ids, s) ==
    \A t \in ids :
        (\A l \in ToSet(s.accepted) : l.tier = "S" => s.root[l.src] # s.root[t])
        => s.instruments[s.root[t]] = OwnInstruments(events, t)

LinkingOK(events, alerts, E, s) ==
    LET ids == TradeIds(events, alerts)
    IN  /\ Rooted(ids, E, s) /\ Joined(ids, s)
        /\ Spanned(events, alerts, ids, s) /\ Apart(events, ids, s)

Strong(s) == {l \in ToSet(s.accepted) : l.tier = "S"}

\* The outcomes of attempt(): kept inside an episode, refused, or joined.
Kept(s, link, r) ==
    /\ s.root[link.src] = s.root[link.dst]
    /\ r.root = s.root /\ r.lo = s.lo /\ r.hi = s.hi /\ r.instruments = s.instruments
    /\ r.accepted = Append(s.accepted, link) /\ r.rejected = s.rejected

Refused(s, link, r) ==
    /\ r.root = s.root /\ r.lo = s.lo /\ r.hi = s.hi /\ r.instruments = s.instruments
    /\ r.accepted = s.accepted /\ \E reason : r.rejected = s.rejected \cup {<<link, reason>>}

MergedAs(ids, s, link, r, a, b, m, lo, hi) ==
    /\ a = s.root[link.src] /\ b = s.root[link.dst] /\ a # b /\ m \in {a, b}
    /\ lo \in {s.lo[a], s.lo[b]} /\ lo <= s.lo[a] /\ lo <= s.lo[b]
    /\ hi \in {s.hi[a], s.hi[b]} /\ s.hi[a] <= hi /\ s.hi[b] <= hi
    /\ hi - lo <= MaxSpan
    /\ link.tier # "S" => s.instruments[a] = s.instruments[b]
    /\ r.root = [t \in ids |-> IF s.root[t] \in {a, b} THEN m ELSE s.root[t]]
    /\ r.lo = [s.lo EXCEPT ![m] = lo] /\ r.hi = [s.hi EXCEPT ![m] = hi]
    /\ r.instruments = [s.instruments EXCEPT ![m] = s.instruments[a] \cup s.instruments[b]]
    /\ r.accepted = Append(s.accepted, link) /\ r.rejected = s.rejected

Merged(ids, s, link, r) ==
    \E a \in ids, b \in ids, m \in ids, lo \in Int, hi \in Int :
        MergedAs(ids, s, link, r, a, b, m, lo, hi)

Merger(s, root, lo, hi, instruments, accepted) ==
    [s EXCEPT !.accepted = accepted, !.root = root, !.lo = lo, !.hi = hi,
              !.instruments = instruments]

LEMMA LeastOfTwo ==
    ASSUME NEW a \in Int, NEW b \in Int
    PROVE  /\ Min({a, b}) \in {a, b} /\ Min({a, b}) <= a /\ Min({a, b}) <= b
           /\ Max({a, b}) \in {a, b} /\ a <= Max({a, b}) /\ b <= Max({a, b})
  <1> DEFINE S == {a, b}
  <1>1. IsFiniteSet(S) /\ S \subseteq Int /\ S # {} /\ a \in S /\ b \in S
    <2>1. IsFiniteSet({a}) /\ IsFiniteSet({b}) /\ S = {a} \cup {b}
      BY FS_Singleton
    <2>2. IsFiniteSet({a} \cup {b})
      BY <2>1, FS_Union
    <2> QED BY <2>1, <2>2
  <1> HIDE DEF S
  <1>2. /\ Min(S) \in S /\ \A x \in S : Min(S) <= x
        /\ Max(S) \in S /\ \A x \in S : x <= Max(S)
    BY <1>1, LeastAndGreatest
  <1>3. Min(S) <= a /\ Min(S) <= b /\ a <= Max(S) /\ b <= Max(S)
    BY <1>1, <1>2
  <1> QED BY <1>2, <1>3 DEF S

LEMMA RefusalIsSet ==
    ASSUME NEW s, IsLinking(s), NEW rejected, NEW flags
    PROVE  [s EXCEPT !.rejected = rejected, !.flags = flags] =
              [root |-> s.root, lo |-> s.lo, hi |-> s.hi, instruments |-> s.instruments,
               accepted |-> s.accepted, rejected |-> rejected, flags |-> flags]
  <1> DEFINE one == [s EXCEPT !.rejected = rejected]
             two == [one EXCEPT !.flags = flags]
  <1>1. one = [root |-> s.root, lo |-> s.lo, hi |-> s.hi, instruments |-> s.instruments,
               accepted |-> s.accepted, rejected |-> rejected, flags |-> s.flags]
    BY DEF IsLinking
  <1> HIDE DEF one
  <1>2. two = [root |-> s.root, lo |-> s.lo, hi |-> s.hi, instruments |-> s.instruments,
               accepted |-> s.accepted, rejected |-> rejected, flags |-> flags]
    BY <1>1
  <1>3. [s EXCEPT !.rejected = rejected, !.flags = flags] = two
    BY Zenon DEF one, two
  <1> QED BY <1>2, <1>3

LEMMA MergerIsSet ==
    ASSUME NEW s, IsLinking(s), NEW root, NEW lo, NEW hi, NEW instruments, NEW accepted
    PROVE  Merger(s, root, lo, hi, instruments, accepted) =
              [root |-> root, lo |-> lo, hi |-> hi, instruments |-> instruments,
               accepted |-> accepted, rejected |-> s.rejected, flags |-> s.flags]
  <1> DEFINE fields == {"root", "lo", "hi", "instruments", "accepted", "rejected", "flags"}
             one == [s EXCEPT !.accepted = accepted]
             two == [one EXCEPT !.root = root]
             three == [two EXCEPT !.lo = lo]
             four == [three EXCEPT !.hi = hi]
             five == [four EXCEPT !.instruments = instruments]
  <1>1. one = [root |-> s.root, lo |-> s.lo, hi |-> s.hi, instruments |-> s.instruments,
               accepted |-> accepted, rejected |-> s.rejected, flags |-> s.flags]
    BY DEF IsLinking
  <1> HIDE DEF one
  <1>2. two = [root |-> root, lo |-> s.lo, hi |-> s.hi, instruments |-> s.instruments,
               accepted |-> accepted, rejected |-> s.rejected, flags |-> s.flags]
    BY <1>1
  <1> HIDE DEF two
  <1>3. three = [root |-> root, lo |-> lo, hi |-> s.hi, instruments |-> s.instruments,
                 accepted |-> accepted, rejected |-> s.rejected, flags |-> s.flags]
    BY <1>2
  <1> HIDE DEF three
  <1>4. four = [root |-> root, lo |-> lo, hi |-> hi, instruments |-> s.instruments,
                accepted |-> accepted, rejected |-> s.rejected, flags |-> s.flags]
    BY <1>3
  <1> HIDE DEF four
  <1>5. five = [root |-> root, lo |-> lo, hi |-> hi, instruments |-> instruments,
                accepted |-> accepted, rejected |-> s.rejected, flags |-> s.flags]
    BY <1>4
  <1>6. Merger(s, root, lo, hi, instruments, accepted) = five
    BY Zenon DEF one, two, three, four, Merger
  <1> QED BY <1>5, <1>6

LEMMA AttemptDoes ==
    ASSUME NEW ids \in SUBSET Int, NEW E \in SUBSET ids, NEW s, Rooted(ids, E, s),
           NEW link \in LinksIn(E)
    PROVE  LET r == Attempt(s, link)
           IN  /\ IsLinking(r)
               /\ Kept(s, link, r) \/ Refused(s, link, r) \/ Merged(ids, s, link, r)
  <1> DEFINE a == s.root[link.src]
             b == s.root[link.dst]
             m == Min({a, b})
             lo == Min({s.lo[a], s.lo[b]})
             hi == Max({s.hi[a], s.hi[b]})
             reason == IF hi - lo > MaxSpan THEN "OVER_SPAN"
                       ELSE IF link.tier # "S" /\ s.instruments[a] # s.instruments[b]
                       THEN "CROSS_INSTRUMENT" ELSE ""
             kept == [s EXCEPT !.accepted = Append(@, link)]
             refused == [s EXCEPT !.rejected = @ \cup {<<link, reason>>},
                                  !.flags = @ \cup {<<link.src, reason>>, <<link.dst, reason>>}]
             merged == [s EXCEPT !.accepted = Append(@, link),
                                 !.root = [t \in DOMAIN @ |-> IF @[t] \in {a, b} THEN m ELSE @[t]],
                                 !.lo[m] = lo, !.hi[m] = hi,
                                 !.instruments[m] = s.instruments[a] \cup s.instruments[b]]
  <1>1. Attempt(s, link) = IF a = b THEN kept ELSE IF reason # "" THEN refused ELSE merged
    BY Zenon DEF Attempt
  <1>2. link.src \in ids /\ link.dst \in ids
    BY DEF LinksIn
  <1>3. a \in ids /\ b \in ids
    BY <1>2 DEF Rooted
  <1>4. s.lo[a] \in Int /\ s.lo[b] \in Int /\ s.hi[a] \in Int /\ s.hi[b] \in Int
    BY <1>3 DEF Rooted
  <1>5. IsLinking(s) /\ DOMAIN s.root = ids
    BY DEF Rooted
  <1>6. IsLinking(kept) /\ (a = b => Kept(s, link, kept))
    BY <1>5 DEF IsLinking, Kept
  <1>7. IsLinking(refused) /\ Refused(s, link, refused)
    <2>1. /\ IsLinking(refused)
          /\ refused.root = s.root /\ refused.lo = s.lo /\ refused.hi = s.hi
          /\ refused.instruments = s.instruments /\ refused.accepted = s.accepted
          /\ refused.rejected = s.rejected \cup {<<link, reason>>}
      <3> DEFINE rejected == s.rejected \cup {<<link, reason>>}
                 flags == s.flags \cup {<<link.src, reason>>, <<link.dst, reason>>}
      <3>1. refused = [s EXCEPT !.rejected = rejected, !.flags = flags]
        BY Zenon
      <3> HIDE DEF refused, rejected, flags
      <3>2. refused = [root |-> s.root, lo |-> s.lo, hi |-> s.hi, instruments |-> s.instruments,
                       accepted |-> s.accepted, rejected |-> rejected, flags |-> flags]
        BY <1>5, <3>1, RefusalIsSet, Zenon
      <3> QED BY <3>2 DEF IsLinking, rejected
    <2> QED BY <2>1 DEF Refused
  <1>8. IsLinking(merged) /\ (a # b /\ reason = "" => Merged(ids, s, link, merged))
    <2>1. /\ IsLinking(merged)
          /\ merged.root = [t \in ids |-> IF s.root[t] \in {a, b} THEN m ELSE s.root[t]]
          /\ merged.lo = [s.lo EXCEPT ![m] = lo] /\ merged.hi = [s.hi EXCEPT ![m] = hi]
          /\ merged.instruments = [s.instruments EXCEPT ![m] = s.instruments[a] \cup s.instruments[b]]
          /\ merged.accepted = Append(s.accepted, link) /\ merged.rejected = s.rejected
      <3> HIDE DEF a, b, m, lo, hi
      <3> DEFINE root == [t \in DOMAIN s.root |-> IF s.root[t] \in {a, b} THEN m ELSE s.root[t]]
                 both == s.instruments[a] \cup s.instruments[b]
                 accepted == Append(s.accepted, link)
                 los == [s.lo EXCEPT ![m] = lo]
                 his == [s.hi EXCEPT ![m] = hi]
                 instruments == [s.instruments EXCEPT ![m] = both]
      <3>1. merged = Merger(s, root, los, his, instruments, accepted)
        BY Zenon DEF Merger
      <3>2. root = [t \in ids |-> IF s.root[t] \in {a, b} THEN m ELSE s.root[t]]
        BY <1>5 DEF Rooted
      <3> HIDE DEF merged, root, accepted, los, his, instruments
      <3>3. merged = [root |-> root, lo |-> los, hi |-> his, instruments |-> instruments,
                      accepted |-> accepted, rejected |-> s.rejected, flags |-> s.flags]
        <4> HIDE DEF a, b, m, lo, hi, both, reason
        <4>1. IsLinking(s)
          BY <1>5
        <4>2. Merger(s, root, los, his, instruments, accepted) =
                [root |-> root, lo |-> los, hi |-> his, instruments |-> instruments,
                 accepted |-> accepted, rejected |-> s.rejected, flags |-> s.flags]
          BY <4>1, MergerIsSet
        <4> QED BY <3>1, <4>2
      <3>4. IsLinking(merged) /\ merged.root = root /\ merged.lo = los /\ merged.hi = his
            /\ merged.instruments = instruments /\ merged.accepted = accepted
            /\ merged.rejected = s.rejected
        BY <3>3 DEF IsLinking
      <3> QED BY <3>2, <3>4 DEF accepted, los, his, instruments
    <2>2. /\ lo \in {s.lo[a], s.lo[b]} /\ lo <= s.lo[a] /\ lo <= s.lo[b]
          /\ hi \in {s.hi[a], s.hi[b]} /\ s.hi[a] <= hi /\ s.hi[b] <= hi
          /\ lo \in Int /\ hi \in Int
      BY <1>4, LeastOfTwo
    <2>3. m \in {a, b} /\ m \in ids
      BY <1>3, LeastOfTwo
    <2>4. ASSUME a # b, reason = "" PROVE Merged(ids, s, link, merged)
      <3>1. hi - lo <= MaxSpan /\ (link.tier # "S" => s.instruments[a] = s.instruments[b])
        <4> HIDE DEF hi, lo, a, b
        <4> QED BY <2>2, <2>4, SnapshotsAssumption DEF LinkingAssumption
      <3>2. a = s.root[link.src] /\ b = s.root[link.dst]
        OBVIOUS
      <3> HIDE DEF merged, m, lo, hi, a, b, reason
      <3>3. a \in ids /\ b \in ids /\ m \in ids /\ lo \in Int /\ hi \in Int
        BY <1>3, <2>2, <2>3
      <3>4. MergedAs(ids, s, link, merged, a, b, m, lo, hi)
        BY <2>1, <2>2, <2>3, <2>4, <3>1, <3>2, Zenon DEF MergedAs
      <3> QED BY <3>3, <3>4 DEF Merged
    <2> QED BY <2>1, <2>4
  <1> HIDE DEF a, b, reason, kept, refused, merged
  <1> QED BY <1>1, <1>6, <1>7, <1>8

LEMMA AppendedToSet ==
    ASSUME NEW S, NEW q \in Seq(S), NEW x \in S
    PROVE  Append(q, x) \in Seq(S) /\ ToSet(Append(q, x)) = ToSet(q) \cup {x}
  <1>1. /\ Append(q, x) \in Seq(S) /\ Len(Append(q, x)) = Len(q) + 1 /\ Len(q) \in Nat
        /\ Append(q, x)[Len(q) + 1] = x
        /\ \A i \in 1..Len(q) : Append(q, x)[i] = q[i]
        /\ DOMAIN q = 1..Len(q) /\ DOMAIN Append(q, x) = 1..(Len(q) + 1)
    OBVIOUS
  <1>2. ToSet(q) = {q[i] : i \in 1..Len(q)}
    BY <1>1 DEF ToSet
  <1>3. ToSet(Append(q, x)) = {Append(q, x)[i] : i \in 1..(Len(q) + 1)}
    BY <1>1 DEF ToSet
  <1>4. \A i \in 1..Len(q) : i \in 1..(Len(q) + 1)
    BY <1>1
  <1>5. \A i \in 1..(Len(q) + 1) : i \in 1..Len(q) \/ i = Len(q) + 1
    BY <1>1
  <1>6. Len(q) + 1 \in 1..(Len(q) + 1)
    BY <1>1
  <1> HIDE DEF ToSet
  <1>7. \A y : y \in ToSet(Append(q, x)) <=> y \in ToSet(q) \/ y = x
    BY <1>1, <1>2, <1>3, <1>4, <1>5, <1>6
  <1> QED BY <1>1, <1>7

\* Trades are numbers, and so are the times at which they were seen.
Numbered(events, alerts) ==
    /\ TradeIds(events, alerts) \subseteq Int
    /\ \A t \in TradeIds(events, alerts) :
          /\ Times(events, alerts, t) \subseteq Int /\ Times(events, alerts, t) # {}
          /\ IsFiniteSet(Times(events, alerts, t))

\* What a link does to what is accepted.
AcceptedAfter(E, s, link, r) ==
    /\ r.accepted \in Seq(LinksIn(E)) /\ \A x \in r.rejected : x[1] \in LinksIn(E)
    /\ Refused(s, link, r) => ToSet(r.accepted) = ToSet(s.accepted)
    /\ ~ Refused(s, link, r) => ToSet(r.accepted) = ToSet(s.accepted) \cup {link}
    /\ ToSet(s.accepted) \subseteq ToSet(r.accepted)
    /\ ToSet(r.accepted) \subseteq ToSet(s.accepted) \cup {link}

LEMMA AcceptedGrows ==
    ASSUME NEW ids, NEW E, NEW s, Rooted(ids, E, s), NEW link, link \in LinksIn(E), NEW r,
           Kept(s, link, r) \/ Refused(s, link, r) \/ Merged(ids, s, link, r)
    PROVE  AcceptedAfter(E, s, link, r)
  <1>1. s.accepted \in Seq(LinksIn(E)) /\ \A x \in s.rejected : x[1] \in LinksIn(E)
    BY DEF Rooted
  <1>2. /\ Append(s.accepted, link) \in Seq(LinksIn(E))
        /\ ToSet(Append(s.accepted, link)) = ToSet(s.accepted) \cup {link}
    BY <1>1, AppendedToSet
  <1>3. ASSUME Merged(ids, s, link, r)
        PROVE  r.accepted = Append(s.accepted, link) /\ r.rejected = s.rejected
    <2>1. PICK a \in ids, b \in ids, m \in ids, lo \in Int, hi \in Int :
              MergedAs(ids, s, link, r, a, b, m, lo, hi)
      BY <1>3 DEF Merged
    <2> QED BY <2>1, Zenon DEF MergedAs
  <1>4. \/ r.accepted = s.accepted /\ Refused(s, link, r)
        \/ r.accepted = Append(s.accepted, link) /\ ~ Refused(s, link, r)
        \/ r.accepted = Append(s.accepted, link) /\ r.accepted = s.accepted
    BY <1>3 DEF Kept, Refused
  <1>5. \A x \in r.rejected : x[1] \in LinksIn(E)
    <2>1. CASE Refused(s, link, r)
      <3>1. PICK reason : r.rejected = s.rejected \cup {<<link, reason>>}
        BY <2>1 DEF Refused
      <3> QED BY <1>1, <3>1
    <2>2. CASE ~ Refused(s, link, r)
      <3>1. r.rejected = s.rejected
        BY <1>3, <2>2 DEF Kept
      <3> QED BY <1>1, <3>1
    <2> QED BY <2>1, <2>2
  <1> HIDE DEF ToSet
  <1> QED BY <1>1, <1>2, <1>4, <1>5 DEF AcceptedAfter

\* Some trades that no link leaves now, none left before.
LEMMA LeftBefore ==
    ASSUME NEW s, NEW r, ToSet(s.accepted) \subseteq ToSet(r.accepted), NEW X, NoLinkLeaves(r, X)
    PROVE  NoLinkLeaves(s, X)
  BY DEF NoLinkLeaves

LEMMA KeptKeeps ==
    ASSUME NEW events, NEW alerts, Numbered(events, alerts),
           NEW E \in SUBSET TradeIds(events, alerts),
           NEW s, LinkingOK(events, alerts, E, s), NEW link \in LinksIn(E), NEW r, IsLinking(r),
           Kept(s, link, r) \/ Refused(s, link, r)
    PROVE  LinkingOK(events, alerts, E, r)
  <1> DEFINE ids == TradeIds(events, alerts)
  <1>1. Rooted(ids, E, s) /\ Joined(ids, s) /\ Spanned(events, alerts, ids, s) /\ Apart(events, ids, s)
    BY DEF LinkingOK
  <1>2. ids \in SUBSET Int /\ E \in SUBSET ids
    BY DEF Numbered
  <1> HIDE DEF ids
  <1>3. /\ r.accepted \in Seq(LinksIn(E)) /\ \A x \in r.rejected : x[1] \in LinksIn(E)
        /\ Refused(s, link, r) => ToSet(r.accepted) = ToSet(s.accepted)
        /\ ToSet(s.accepted) \subseteq ToSet(r.accepted)
        /\ ToSet(r.accepted) \subseteq ToSet(s.accepted) \cup {link}
    <2>1. Kept(s, link, r) \/ Refused(s, link, r) \/ Merged(ids, s, link, r)
      OBVIOUS
    <2>2. AcceptedAfter(E, s, link, r)
      BY <1>1, <2>1, AcceptedGrows
    <2> QED BY <2>2 DEF AcceptedAfter
  <1>4. r.root = s.root /\ r.lo = s.lo /\ r.hi = s.hi /\ r.instruments = s.instruments
    BY DEF Kept, Refused
  <1> HIDE DEF ToSet
  <1>5. Rooted(ids, E, r)
    BY <1>1, <1>3, <1>4 DEF Rooted
  <1>6. Joined(ids, r)
    <2>1. \A l \in ToSet(r.accepted) : r.root[l.src] = r.root[l.dst]
      BY <1>1, <1>3, <1>4 DEF Joined, Kept
    <2>2. \A X : NoLinkLeaves(r, X) => NoLinkLeaves(s, X)
      BY <1>3, LeftBefore
    <2> QED BY <1>1, <1>4, <2>1, <2>2 DEF Joined
  <1>7. Spanned(events, alerts, ids, r)
    BY <1>1, <1>4 DEF Spanned
  <1>8. Apart(events, ids, r)
    BY <1>1, <1>3, <1>4 DEF Apart
  <1> QED BY <1>5, <1>6, <1>7, <1>8 DEF LinkingOK, ids

LEMMA MergedKeeps ==
    ASSUME NEW events, NEW alerts, Numbered(events, alerts),
           NEW E \in SUBSET TradeIds(events, alerts),
           NEW s, LinkingOK(events, alerts, E, s), NEW link \in LinksIn(E), NEW r, IsLinking(r),
           Merged(TradeIds(events, alerts), s, link, r)
    PROVE  LinkingOK(events, alerts, E, r)
  <1> DEFINE ids == TradeIds(events, alerts)
  <1>1. Rooted(ids, E, s) /\ Joined(ids, s) /\ Spanned(events, alerts, ids, s) /\ Apart(events, ids, s)
    BY DEF LinkingOK
  <1>2. ids \in SUBSET Int /\ E \in SUBSET ids
    BY DEF Numbered
  <1>3. PICK a \in ids, b \in ids, m \in ids, lo \in Int, hi \in Int :
            MergedAs(ids, s, link, r, a, b, m, lo, hi)
    BY DEF Merged
  <1>4. \A t \in ids : Times(events, alerts, t) \subseteq Int
    BY DEF Numbered
  <1> HIDE DEF ids
  <1>5. /\ a = s.root[link.src] /\ b = s.root[link.dst] /\ a # b /\ m \in {a, b}
         /\ r.root = [t \in ids |-> IF s.root[t] \in {a, b} THEN m ELSE s.root[t]]
    BY <1>3, Zenon DEF MergedAs
  <1>6. s.root \in [ids -> ids] /\ \A t \in ids : s.root[s.root[t]] = s.root[t]
    BY <1>1, Zenon DEF Rooted
  <1>7. link.src \in ids /\ link.dst \in ids
    BY <1>2 DEF LinksIn
  <1>8. /\ r.accepted \in Seq(LinksIn(E)) /\ \A x \in r.rejected : x[1] \in LinksIn(E)
        /\ ToSet(r.accepted) = ToSet(s.accepted) \cup {link}
    <2>1. ~ Refused(s, link, r)
      <3>1. m \in {a, b} /\ a # b /\ r.root[a] = m /\ r.root[b] = m /\ s.root[a] = a /\ s.root[b] = b
        BY <1>5, <1>6, <1>7
      <3> QED BY <3>1 DEF Refused
    <2>2. Kept(s, link, r) \/ Refused(s, link, r) \/ Merged(ids, s, link, r)
      BY DEF ids
    <2>3. /\ r.accepted \in Seq(LinksIn(E)) /\ \A x \in r.rejected : x[1] \in LinksIn(E)
          /\ ~ Refused(s, link, r) => ToSet(r.accepted) = ToSet(s.accepted) \cup {link}
      <3>1. AcceptedAfter(E, s, link, r)
        BY <1>1, <2>2, AcceptedGrows
      <3> QED BY <3>1 DEF AcceptedAfter
    <2> QED BY <2>1, <2>3
  <1> HIDE DEF ToSet
  <1>9. \A t \in ids : /\ s.root[t] \in ids /\ s.root[s.root[t]] = s.root[t]
                       /\ s.root[t] \in {a, b} => r.root[t] = m
                       /\ s.root[t] \notin {a, b} => r.root[t] = s.root[t]
    BY <1>5, <1>6
  <1>10. /\ a # b /\ m \in {a, b} /\ a = s.root[link.src] /\ b = s.root[link.dst]
        /\ link.src \in ids /\ link.dst \in ids
        /\ s.root[a] = a /\ s.root[b] = b /\ s.root[m] = m
    BY <1>5, <1>6, <1>7
  <1>11. Rooted(ids, E, r)
    <2>1. r.root \in [ids -> ids] /\ \A t \in ids : r.root[r.root[t]] = r.root[t]
      <3>1. r.root = [t \in ids |-> IF s.root[t] \in {a, b} THEN m ELSE s.root[t]]
        BY <1>3 DEF MergedAs
      <3> QED BY <1>9, <1>10, <3>1
    <2>2. r.lo \in [ids -> Int] /\ r.hi \in [ids -> Int]
      <3>1. s.lo \in [ids -> Int] /\ s.hi \in [ids -> Int]
        BY <1>1 DEF Rooted
      <3>2. r.lo = [s.lo EXCEPT ![m] = lo] /\ r.hi = [s.hi EXCEPT ![m] = hi]
        BY <1>3 DEF MergedAs
      <3> QED BY <3>1, <3>2
    <2>3. r.instruments = [t \in ids |-> r.instruments[t]]
      <3>1. s.instruments = [t \in ids |-> s.instruments[t]]
        BY <1>1 DEF Rooted
      <3>2. r.instruments = [s.instruments EXCEPT ![m] = s.instruments[a] \cup s.instruments[b]]
        BY <1>3 DEF MergedAs
      <3> QED BY <3>1, <3>2
    <2> QED BY <1>8, <2>1, <2>2, <2>3 DEF Rooted
  <1>12. Joined(ids, r)
    <2>1. \A l \in ToSet(s.accepted) : l.src \in ids /\ l.dst \in ids
      <3>1. s.accepted \in Seq(LinksIn(E))
        BY <1>1 DEF Rooted
      <3>2. ToSet(s.accepted) \subseteq LinksIn(E)
        BY <3>1 DEF ToSet
      <3> QED BY <1>2, <3>2 DEF LinksIn
    <2>2. \A l \in ToSet(r.accepted) : r.root[l.src] = r.root[l.dst]
      BY <1>1, <1>8, <1>9, <1>10, <2>1 DEF Joined
    <2>3. ASSUME NEW t \in ids, NEW u \in ids, r.root[t] = r.root[u],
                 NEW X \in SUBSET ids, NoLinkLeaves(r, X)
          PROVE  t \in X <=> u \in X
      <3>1. NoLinkLeaves(s, X) /\ (link.src \in X <=> link.dst \in X)
        BY <1>8, <2>3 DEF NoLinkLeaves
      <3>2. \A x \in ids, y \in ids : s.root[x] = s.root[y] => (x \in X <=> y \in X)
        BY <1>1, <3>1 DEF Joined
      <3>3. \A x \in ids : s.root[x] \in {a, b} => (x \in X <=> link.src \in X)
        BY <1>10, <3>1, <3>2
      <3>4. s.root[t] = s.root[u] \/ (s.root[t] \in {a, b} /\ s.root[u] \in {a, b})
        BY <1>9, <1>10, <2>3
      <3> QED BY <3>2, <3>3, <3>4
    <2> QED BY <2>2, <2>3 DEF Joined
  <1>13. Spanned(events, alerts, ids, r)
    <2>1. /\ lo <= s.lo[a] /\ lo <= s.lo[b] /\ s.hi[a] <= hi /\ s.hi[b] <= hi /\ hi - lo <= MaxSpan
          /\ r.lo = [s.lo EXCEPT ![m] = lo] /\ r.hi = [s.hi EXCEPT ![m] = hi]
          /\ s.lo \in [ids -> Int] /\ s.hi \in [ids -> Int]
      BY <1>1, <1>3 DEF MergedAs, Rooted
    <2>2. ASSUME NEW t \in ids
          PROVE  /\ \A x \in Times(events, alerts, t) : r.lo[r.root[t]] <= x /\ x <= r.hi[r.root[t]]
                 /\ t # r.root[t] => r.hi[r.root[t]] - r.lo[r.root[t]] <= MaxSpan
      <3>1. CASE s.root[t] \in {a, b}
        <4>1. r.root[t] = m /\ r.lo[m] = lo /\ r.hi[m] = hi
          BY <1>9, <2>1, <3>1
        <4>2. ASSUME NEW x \in Times(events, alerts, t) PROVE lo <= x /\ x <= hi
          <5>1. s.lo[s.root[t]] <= x /\ x <= s.hi[s.root[t]] /\ x \in Int
            BY <1>1, <1>4 DEF Spanned
          <5>2. s.lo[s.root[t]] \in Int /\ s.hi[s.root[t]] \in Int
            BY <1>9, <2>1
          <5>3. lo <= s.lo[s.root[t]] /\ s.hi[s.root[t]] <= hi
            BY <2>1, <3>1
          <5> QED BY <5>1, <5>2, <5>3
        <4> QED BY <2>1, <4>1, <4>2
      <3>2. CASE s.root[t] \notin {a, b}
        <4>1. r.root[t] = s.root[t] /\ s.root[t] # m /\ s.root[t] \in ids
          BY <1>9, <1>10, <3>2
        <4>2. r.lo[s.root[t]] = s.lo[s.root[t]] /\ r.hi[s.root[t]] = s.hi[s.root[t]]
          BY <2>1, <4>1
        <4> QED BY <1>1, <4>1, <4>2 DEF Spanned
      <3> QED BY <3>1, <3>2
    <2> QED BY <2>2 DEF Spanned
  <1>14. Apart(events, ids, r)
    <2>1. /\ link.tier # "S" => s.instruments[a] = s.instruments[b]
          /\ r.instruments = [s.instruments EXCEPT ![m] = s.instruments[a] \cup s.instruments[b]]
          /\ s.instruments = [t \in ids |-> s.instruments[t]]
      BY <1>1, <1>3 DEF MergedAs, Rooted
    <2>2. \A l \in ToSet(s.accepted) : l.src \in ids
      <3>1. s.accepted \in Seq(LinksIn(E))
        BY <1>1 DEF Rooted
      <3>2. ToSet(s.accepted) \subseteq LinksIn(E)
        BY <3>1 DEF ToSet
      <3> QED BY <1>2, <3>2 DEF LinksIn
    <2>3. ASSUME NEW t \in ids,
                 \A l \in ToSet(r.accepted) : l.tier = "S" => r.root[l.src] # r.root[t]
          PROVE  r.instruments[r.root[t]] = OwnInstruments(events, t)
      <3>1. \A l \in ToSet(s.accepted) : l.tier = "S" => s.root[l.src] # s.root[t]
        BY <1>8, <1>9, <2>2, <2>3
      <3>2. s.instruments[s.root[t]] = OwnInstruments(events, t)
        BY <1>1, <3>1 DEF Apart
      <3>3. CASE s.root[t] \in {a, b}
        <4>1. r.root[t] = m /\ r.root[link.src] = m /\ link \in ToSet(r.accepted)
          BY <1>8, <1>9, <1>10, <3>3
        <4>2. link.tier # "S"
          BY <2>3, <4>1
        <4>3. s.instruments[a] = s.instruments[b] /\ s.instruments[s.root[t]] = s.instruments[a]
          BY <2>1, <3>3, <4>2
        <4>4. r.instruments[m] = s.instruments[a] \cup s.instruments[b]
          BY <2>1
        <4> QED BY <3>2, <4>1, <4>3, <4>4
      <3>4. CASE s.root[t] \notin {a, b}
        <4>1. r.root[t] = s.root[t] /\ s.root[t] # m /\ s.root[t] \in ids
          BY <1>9, <1>10, <3>4
        <4>2. r.instruments[s.root[t]] = s.instruments[s.root[t]]
          BY <2>1, <4>1
        <4> QED BY <3>2, <4>1, <4>2
      <3> QED BY <3>3, <3>4
    <2> QED BY <2>3 DEF Apart
  <1> QED BY <1>11, <1>12, <1>13, <1>14 DEF LinkingOK, ids

\* attempt() keeps what holds of the episodes; only lineage adds to lineage.
LEMMA AttemptKeeps ==
    ASSUME NEW events, NEW alerts, Numbered(events, alerts),
           NEW E \in SUBSET TradeIds(events, alerts),
           NEW s, LinkingOK(events, alerts, E, s), NEW link \in LinksIn(E)
    PROVE  /\ LinkingOK(events, alerts, E, Attempt(s, link))
           /\ link.tier # "S" => Strong(Attempt(s, link)) = Strong(s)
  <1> DEFINE ids == TradeIds(events, alerts)
             r == Attempt(s, link)
  <1>1. Rooted(ids, E, s) /\ ids \in SUBSET Int
    BY DEF LinkingOK, Numbered
  <1>2. IsLinking(r) /\ (Kept(s, link, r) \/ Refused(s, link, r) \/ Merged(ids, s, link, r))
    <2> HIDE DEF ids
    <2> QED BY <1>1, AttemptDoes DEF ids
  <1> HIDE DEF r
  <1>3. LinkingOK(events, alerts, E, r)
    BY <1>2, KeptKeeps, MergedKeeps
  <1>4. ToSet(s.accepted) \subseteq ToSet(r.accepted) /\ ToSet(r.accepted) \subseteq ToSet(s.accepted) \cup {link}
    <2>1. AcceptedAfter(E, s, link, r)
      BY <1>1, <1>2, AcceptedGrows
    <2> QED BY <2>1 DEF AcceptedAfter
  <1>5. link.tier # "S" => Strong(r) = Strong(s)
    BY <1>4 DEF Strong
  <1> QED BY <1>3, <1>5 DEF r

\* The recursion that AttemptAll is defined by has a solution.
LEMMA AttemptsExist ==
    ASSUME NEW s, NEW links, NEW N \in Nat
    PROVE  \E f : f = [n \in 0..N |-> IF n = 0 THEN s ELSE Attempt(f[n - 1], links[n])]
  <1> DEFINE Solves(f, k) == f = [n \in 0..k |-> IF n = 0 THEN s ELSE Attempt(f[n - 1], links[n])]
             S == {k \in Nat : \E f : Solves(f, k)}
  <1>1. 0 \in S
    <2> DEFINE f == [n \in 0..0 |-> s]
    <2>1. f = [n \in 0..0 |-> IF n = 0 THEN s ELSE Attempt(f[n - 1], links[n])]
      OBVIOUS
    <2> HIDE DEF f
    <2> QED BY <2>1
  <1>2. ASSUME NEW k \in Nat, k \in S PROVE k + 1 \in S
    <2>1. PICK f : Solves(f, k)
      BY <1>2
    <2> DEFINE g == [n \in 0..(k + 1) |-> IF n <= k THEN f[n] ELSE Attempt(f[k], links[n])]
    <2>2. ASSUME NEW n \in 0..(k + 1)
          PROVE  g[n] = IF n = 0 THEN s ELSE Attempt(g[n - 1], links[n])
      <3>1. n <= k => n \in 0..k /\ g[n] = f[n]
        OBVIOUS
      <3>2. n # 0 => n - 1 \in 0..k /\ n - 1 \in 0..(k + 1) /\ g[n - 1] = f[n - 1]
        OBVIOUS
      <3>3. ~(n <= k) => n # 0 /\ n - 1 = k /\ g[n] = Attempt(f[k], links[n])
        OBVIOUS
      <3> HIDE DEF g
      <3> QED BY <2>1, <3>1, <3>2, <3>3
    <2>3. g = [n \in 0..(k + 1) |-> IF n = 0 THEN s ELSE Attempt(g[n - 1], links[n])]
      BY <2>2, Zenon
    <2> HIDE DEF g
    <2> QED BY <2>3
  <1>3. Nat \subseteq S
    <2> HIDE DEF S
    <2> QED BY <1>1, <1>2, SetInduction
  <1> QED BY <1>3

LEMMA AttemptsRun ==
    ASSUME NEW s, NEW links, Len(links) \in Nat
    PROVE  \E f : /\ f[0] = s
                  /\ \A n \in 1..Len(links) : f[n] = Attempt(f[n - 1], links[n])
                  /\ AttemptAll(s, links) = f[Len(links)]
  <1> DEFINE f == CHOOSE f : f = [n \in 0..Len(links) |->
                                    IF n = 0 THEN s ELSE Attempt(f[n - 1], links[n])]
  <1>1. f = [n \in 0..Len(links) |-> IF n = 0 THEN s ELSE Attempt(f[n - 1], links[n])]
    <2>1. \E g : g = [n \in 0..Len(links) |-> IF n = 0 THEN s ELSE Attempt(g[n - 1], links[n])]
      BY AttemptsExist
    <2> QED BY <2>1, Zenon
  <1>2. AttemptAll(s, links) = f[Len(links)]
    BY Zenon DEF AttemptAll
  <1> HIDE DEF f
  <1>3. /\ 0 \in 0..Len(links)
        /\ \A n \in 1..Len(links) : n \in 0..Len(links) /\ n # 0
    OBVIOUS
  <1> QED BY <1>1, <1>2, <1>3

LEMMA AttemptAllKeeps ==
    ASSUME NEW events, NEW alerts, Numbered(events, alerts),
           NEW E \in SUBSET TradeIds(events, alerts),
           NEW s, LinkingOK(events, alerts, E, s), NEW links \in Seq(LinksIn(E))
    PROVE  /\ LinkingOK(events, alerts, E, AttemptAll(s, links))
           /\ (\A i \in 1..Len(links) : links[i].tier # "S")
                => Strong(AttemptAll(s, links)) = Strong(s)
  <1>1. Len(links) \in Nat /\ \A n \in 1..Len(links) : links[n] \in LinksIn(E)
    OBVIOUS
  <1>2. PICK f : /\ f[0] = s
                 /\ \A n \in 1..Len(links) : f[n] = Attempt(f[n - 1], links[n])
                 /\ AttemptAll(s, links) = f[Len(links)]
    BY <1>1, AttemptsRun
  <1> DEFINE weak == \A i \in 1..Len(links) : links[i].tier # "S"
             S == {n \in Nat : n <= Len(links) =>
                     LinkingOK(events, alerts, E, f[n]) /\ (weak => Strong(f[n]) = Strong(s))}
  <1>3. 0 \in S
    BY <1>2
  <1>4. ASSUME NEW n \in Nat, n \in S PROVE n + 1 \in S
    <2> SUFFICES ASSUME n + 1 <= Len(links)
                 PROVE  /\ LinkingOK(events, alerts, E, f[n + 1])
                        /\ weak => Strong(f[n + 1]) = Strong(s)
      OBVIOUS
    <2>1. n <= Len(links) /\ n + 1 \in 1..Len(links) /\ (n + 1) - 1 = n
      BY <1>1
    <2>2. LinkingOK(events, alerts, E, f[n]) /\ (weak => Strong(f[n]) = Strong(s))
      BY <1>4, <2>1
    <2>3. f[n + 1] = Attempt(f[n], links[n + 1]) /\ links[n + 1] \in LinksIn(E)
      BY <1>1, <1>2, <2>1
    <2>4. /\ LinkingOK(events, alerts, E, Attempt(f[n], links[n + 1]))
          /\ links[n + 1].tier # "S" => Strong(Attempt(f[n], links[n + 1])) = Strong(f[n])
      BY <2>2, <2>3, AttemptKeeps
    <2>5. weak => links[n + 1].tier # "S"
      BY <2>1
    <2> HIDE DEF weak
    <2> QED BY <2>2, <2>3, <2>4, <2>5
  <1>5. Nat \subseteq S
    <2> HIDE DEF S
    <2> QED BY <1>3, <1>4, SetInduction
  <1> QED BY <1>1, <1>2, <1>5

\* What is flagged or refused beforehand is of no consequence to the episodes.
LEMMA FlaggedKeeps ==
    ASSUME NEW events, NEW alerts, NEW E, NEW s, LinkingOK(events, alerts, E, s), NEW fs
    PROVE  /\ LinkingOK(events, alerts, E, Flagged(s, fs))
           /\ Strong(Flagged(s, fs)) = Strong(s) /\ Flagged(s, fs).root = s.root
  <1> DEFINE ids == TradeIds(events, alerts)
             flags == s.flags \cup fs
             r == [s EXCEPT !.flags = flags]
  <1>1. Flagged(s, fs) = r
    BY Zenon DEF Flagged
  <1>2. IsLinking(s)
    BY DEF LinkingOK, Rooted
  <1> HIDE DEF flags, ids
  <1>3. r = [root |-> s.root, lo |-> s.lo, hi |-> s.hi, instruments |-> s.instruments,
             accepted |-> s.accepted, rejected |-> s.rejected, flags |-> flags]
    BY <1>2 DEF IsLinking
  <1> HIDE DEF r
  <1>4. /\ IsLinking(r) /\ r.root = s.root /\ r.lo = s.lo /\ r.hi = s.hi
        /\ r.instruments = s.instruments /\ r.accepted = s.accepted /\ r.rejected = s.rejected
    BY <1>3 DEF IsLinking
  <1>5. LinkingOK(events, alerts, E, r)
    BY <1>4 DEF LinkingOK, Rooted, Joined, Spanned, Apart, NoLinkLeaves
  <1> QED BY <1>1, <1>4, <1>5 DEF Strong

LEMMA RejectedKeeps ==
    ASSUME NEW events, NEW alerts, NEW E, NEW s, LinkingOK(events, alerts, E, s), NEW far,
           \A x \in far : x[1] \in LinksIn(E)
    PROVE  /\ LinkingOK(events, alerts, E, [s EXCEPT !.rejected = @ \cup far])
           /\ Strong([s EXCEPT !.rejected = @ \cup far]) = Strong(s)
  <1> DEFINE ids == TradeIds(events, alerts)
             rejected == s.rejected \cup far
             r == [s EXCEPT !.rejected = rejected]
  <1>1. [s EXCEPT !.rejected = @ \cup far] = r
    BY Zenon
  <1>2. IsLinking(s) /\ \A x \in rejected : x[1] \in LinksIn(E)
    BY DEF LinkingOK, Rooted
  <1> HIDE DEF rejected, ids
  <1>3. r = [root |-> s.root, lo |-> s.lo, hi |-> s.hi, instruments |-> s.instruments,
             accepted |-> s.accepted, rejected |-> rejected, flags |-> s.flags]
    BY <1>2 DEF IsLinking
  <1> HIDE DEF r
  <1>4. /\ IsLinking(r) /\ r.root = s.root /\ r.lo = s.lo /\ r.hi = s.hi
        /\ r.instruments = s.instruments /\ r.accepted = s.accepted /\ r.rejected = rejected
    BY <1>3 DEF IsLinking
  <1>5. LinkingOK(events, alerts, E, r)
    BY <1>2, <1>4 DEF LinkingOK, Rooted, Joined, Spanned, Apart, NoLinkLeaves
  <1> QED BY <1>1, <1>4, <1>5 DEF Strong

-----------------------------------------------------------------------------
(* Linking: the stages.                                                    *)

IsBook(events, alerts) ==
    /\ IsFiniteSet(events) /\ IsFiniteSet(alerts)
    /\ \A e \in events \cup alerts : e.trade \in Nat /\ e.time \in Nat

LEMMA BookIsNumbered ==
    ASSUME NEW events, NEW alerts, IsBook(events, alerts)
    PROVE  /\ Numbered(events, alerts)
           /\ IsFiniteSet(ByTrade(events)) /\ IsFiniteSet(TradeIds(events, alerts))
           /\ ByTrade(events) \subseteq TradeIds(events, alerts)
  <1>1. IsFiniteSet({e.trade : e \in events}) /\ IsFiniteSet({a.trade : a \in alerts})
    <2> DEFINE f == [e \in events |-> e.trade]
               g == [a \in alerts |-> a.trade]
    <2>1. {e.trade : e \in events} = {f[e] : e \in events}
          /\ {a.trade : a \in alerts} = {g[a] : a \in alerts}
      OBVIOUS
    <2> HIDE DEF f, g
    <2>2. IsFiniteSet({f[e] : e \in events})
      BY ImageIsFinite DEF IsBook
    <2>3. IsFiniteSet({g[a] : a \in alerts})
      BY ImageIsFinite DEF IsBook
    <2> QED BY <2>1, <2>2, <2>3
  <1>2. IsFiniteSet({e.trade : e \in events} \cup {a.trade : a \in alerts})
    BY <1>1, FS_Union
  <1>3. TradeIds(events, alerts) \subseteq Int
    BY DEF TradeIds, ByTrade, IsBook
  <1>4. ASSUME NEW rs, rs = events \/ rs = alerts, NEW t, \E x \in rs : x.trade = t
        PROVE  LET times == {e.time : e \in {x \in rs : x.trade = t}}
               IN  times \subseteq Int /\ times # {} /\ IsFiniteSet(times)
    <2> DEFINE its == {x \in rs : x.trade = t}
               f == [e \in its |-> e.time]
               times == {e.time : e \in its}
    <2>1. IsFiniteSet(its)
      <3>1. its \subseteq rs /\ IsFiniteSet(rs)
        BY <1>4 DEF IsBook
      <3> HIDE DEF its
      <3> QED BY <3>1, FS_Subset
    <2>2. times = {f[e] : e \in its}
      OBVIOUS
    <2>3. times \subseteq Int /\ times # {}
      BY <1>4 DEF IsBook
    <2>4. IsFiniteSet({f[e] : e \in its})
      <3> HIDE DEF f, its
      <3> QED BY <2>1, ImageIsFinite
    <2> QED BY <2>2, <2>3, <2>4
  <1>5. ASSUME NEW t \in TradeIds(events, alerts)
        PROVE  /\ Times(events, alerts, t) \subseteq Int /\ Times(events, alerts, t) # {}
               /\ IsFiniteSet(Times(events, alerts, t))
    <2>1. CASE t \in ByTrade(events)
      <3>1. \E x \in events : x.trade = t
        BY <2>1 DEF ByTrade
      <3> QED BY <1>4, <2>1, <3>1 DEF Times
    <2>2. CASE t \notin ByTrade(events)
      <3>1. \E x \in alerts : x.trade = t
        BY <2>2 DEF TradeIds
      <3> QED BY <1>4, <2>2, <3>1 DEF Times
    <2> QED BY <2>1, <2>2
  <1> QED BY <1>1, <1>2, <1>3, <1>5 DEF Numbered, ByTrade, TradeIds

LEMMA UnlinkedIsOK ==
    ASSUME NEW events, NEW alerts, Numbered(events, alerts), NEW E
    PROVE  /\ LinkingOK(events, alerts, E, Unlinked(events, alerts))
           /\ Strong(Unlinked(events, alerts)) = {}
  <1> DEFINE ids == TradeIds(events, alerts)
             s == Unlinked(events, alerts)
  <1>1. s = [root |-> [t \in ids |-> t],
             lo |-> [t \in ids |-> Min(Times(events, alerts, t))],
             hi |-> [t \in ids |-> Max(Times(events, alerts, t))],
             instruments |-> [t \in ids |-> OwnInstruments(events, t)],
             accepted |-> << >>, rejected |-> {}, flags |-> {}]
    BY DEF Unlinked, OwnInstruments
  <1> HIDE DEF s
  <1>2. /\ IsLinking(s) /\ s.root = [t \in ids |-> t]
        /\ s.lo = [t \in ids |-> Min(Times(events, alerts, t))]
        /\ s.hi = [t \in ids |-> Max(Times(events, alerts, t))]
        /\ s.instruments = [t \in ids |-> OwnInstruments(events, t)]
        /\ s.accepted = << >> /\ s.rejected = {}
    BY <1>1 DEF IsLinking
  <1>3. \A t \in ids : LET T == Times(events, alerts, t)
                       IN  Min(T) \in Int /\ Max(T) \in Int /\ \A x \in T : Min(T) <= x /\ x <= Max(T)
    BY LeastAndGreatest DEF Numbered
  <1> HIDE DEF ids
  <1>4. ToSet(s.accepted) = {}
    BY <1>2 DEF ToSet
  <1>5. Rooted(ids, E, s)
    <2>1. s.root \in [ids -> ids] /\ \A t \in ids : s.root[s.root[t]] = s.root[t]
      BY <1>2
    <2>2. s.lo \in [ids -> Int] /\ s.hi \in [ids -> Int]
      BY <1>2, <1>3
    <2>3. s.instruments = [t \in ids |-> s.instruments[t]]
      BY <1>2
    <2>4. s.accepted \in Seq(LinksIn(E))
      BY <1>2
    <2> QED BY <1>2, <2>1, <2>2, <2>3, <2>4 DEF Rooted
  <1>6. Joined(ids, s)
    BY <1>2, <1>4 DEF Joined
  <1>7. Spanned(events, alerts, ids, s)
    BY <1>2, <1>3 DEF Spanned
  <1>8. Apart(events, ids, s)
    BY <1>2 DEF Apart
  <1> QED BY <1>4, <1>5, <1>6, <1>7, <1>8 DEF LinkingOK, Strong, ids, s

LEMMA LinkIsIn ==
    ASSUME NEW E, NEW src, NEW dst, src \in E, dst \in E
    PROVE  /\ Link(src, dst, "REBOOK_OF", "S") \in LinksIn(E)
           /\ Link(src, dst, "AGENT_LINK", "A") \in LinksIn(E)
           /\ Link(src, dst, "AGENT_LINK", "A").tier # "S"
           /\ \A name \in SharedKeys : /\ Link(src, dst, name, "M") \in LinksIn(E)
                                   /\ Link(src, dst, name, "M").tier # "S"
  <1>1. /\ Link(src, dst, "REBOOK_OF", "S") \in LinksIn(E)
        /\ Link(src, dst, "AGENT_LINK", "A") \in LinksIn(E)
    BY DEF Link, LinksIn, SharedKeys
  <1>2. Link(src, dst, "AGENT_LINK", "A").tier # "S"
    BY DEF Link
  <1>3. ASSUME NEW name \in SharedKeys
        PROVE  Link(src, dst, name, "M") \in LinksIn(E) /\ Link(src, dst, name, "M").tier # "S"
    <2>1. Link(src, dst, name, "M") \in LinksIn(E)
      BY DEF Link, LinksIn
    <2>2. Link(src, dst, name, "M").tier # "S"
      BY DEF Link
    <2> QED BY <2>1, <2>2
  <1> QED BY <1>1, <1>2, <1>3

\* A sequence with one link for each element of another.
LEMMA LinksAreSeq ==
    ASSUME NEW E, NEW S, NEW order \in Seq(S), NEW links, links = [i \in DOMAIN order |-> links[i]],
           \A i \in DOMAIN order : links[i] \in LinksIn(E)
    PROVE  links \in Seq(LinksIn(E)) /\ Len(links) = Len(order) /\ DOMAIN order = 1..Len(order)
  <1>1. Len(order) \in Nat /\ DOMAIN order = 1..Len(order)
    OBVIOUS
  <1>2. links \in [1..Len(order) -> LinksIn(E)]
    BY <1>1
  <1> QED BY <1>1, <1>2

LEMMA LineageIsOK ==
    ASSUME NEW events, NEW alerts, IsBook(events, alerts),
           NEW E \in SUBSET TradeIds(events, alerts), ByTrade(events) \subseteq E,
           NEW s, LinkingOK(events, alerts, E, s)
    PROVE  LinkingOK(events, alerts, E, Lineage(events, s))
  <1> DEFINE stated == {t \in ByTrade(events) : Original(events, t) \notin {NoKey, t}}
             degenerate == {t \in stated : Original(events, t) \in Degenerate}
             strong == {t \in stated \ degenerate : Original(events, t) \in ByTrade(events)}
             order == InOrder(strong, <)
             links == [i \in DOMAIN order |->
                         Link(order[i], Original(events, order[i]), "REBOOK_OF", "S")]
             flags == (degenerate \X {"DEGENERATE_ORIGINAL_TRADE_ID"})
                      \cup ((stated \ (degenerate \cup strong)) \X {"DANGLING_ORIGINAL_TRADE_ID"})
  <1>1. Lineage(events, s) = AttemptAll(Flagged(s, flags), links)
    BY Zenon DEF Lineage
  <1>2. strong \subseteq ByTrade(events) /\ \A t \in strong : Original(events, t) \in ByTrade(events)
    OBVIOUS
  <1> HIDE DEF strong, flags
  <1>3. order \in Seq(strong)
    <2>1. IsFiniteSet(ByTrade(events)) /\ ByTrade(events) \subseteq Int
      BY BookIsNumbered DEF Numbered
    <2>2. IsFiniteSet(strong) /\ strong \subseteq Int
      BY <1>2, <2>1, FS_Subset
    <2> QED BY <2>2, NumbersInOrder
  <1> HIDE DEF order
  <1>4. \A i \in DOMAIN order : links[i] \in LinksIn(E)
    <2> TAKE i \in DOMAIN order
    <2>1. order[i] \in strong
      BY <1>3
    <2>2. links[i] = Link(order[i], Original(events, order[i]), "REBOOK_OF", "S")
      OBVIOUS
    <2>3. order[i] \in E /\ Original(events, order[i]) \in E
      BY <1>2, <2>1
    <2> QED BY <2>2, <2>3, LinkIsIn
  <1>5. links = [i \in DOMAIN order |-> links[i]]
    OBVIOUS
  <1> HIDE DEF links
  <1>6. links \in Seq(LinksIn(E))
    BY <1>3, <1>4, <1>5, LinksAreSeq
  <1>7. Numbered(events, alerts) /\ LinkingOK(events, alerts, E, Flagged(s, flags))
    BY BookIsNumbered, FlaggedKeeps
  <1> QED BY <1>1, <1>6, <1>7, AttemptAllKeeps

\* Pairs of trades, of which those in the book have their ends in E.
Confirmable(events, alerts, E, confirmed) ==
    \A c \in confirmed :
        /\ c = <<c[1], c[2]>>
        /\ {c[1], c[2]} \subseteq TradeIds(events, alerts) => {c[1], c[2]} \subseteq E

LEMMA OverlayIsOK ==
    ASSUME NEW events, NEW alerts, IsBook(events, alerts),
           NEW E \in SUBSET TradeIds(events, alerts),
           NEW confirmed, Confirmable(events, alerts, E, confirmed),
           NEW s, LinkingOK(events, alerts, E, s)
    PROVE  /\ LinkingOK(events, alerts, E, Overlay(confirmed, s))
           /\ Strong(Overlay(confirmed, s)) = Strong(s)
  <1> DEFINE known == {c \in confirmed : {c[1], c[2]} \subseteq DOMAIN s.root}
             order == InOrder(known, PairBefore)
             links == [i \in DOMAIN order |-> Link(order[i][1], order[i][2], "AGENT_LINK", "A")]
             ids == TradeIds(events, alerts)
  <1>1. Overlay(confirmed, s) = AttemptAll(s, links)
    BY Zenon DEF Overlay
  <1>2. DOMAIN s.root = ids /\ ids \subseteq Int /\ IsFiniteSet(ids) /\ Numbered(events, alerts)
    <2>1. s.root \in [ids -> ids]
      BY DEF LinkingOK, Rooted
    <2> QED BY <2>1, BookIsNumbered DEF Numbered
  <1>3. known \subseteq ids \X ids /\ \A c \in known : c[1] \in E /\ c[2] \in E
    BY <1>2 DEF Confirmable
  <1> HIDE DEF known, ids
  <1>4. order \in Seq(known)
    <2>1. IsFiniteSet(ids \X ids)
      BY <1>2, FS_Product
    <2>2. IsFiniteSet(known) /\ known \subseteq Int \X Int
      BY <1>2, <1>3, <2>1, FS_Subset
    <2> QED BY <2>2, PairsInOrder
  <1> HIDE DEF order
  <1>5. \A i \in DOMAIN order : links[i] \in LinksIn(E) /\ links[i].tier # "S"
    <2> TAKE i \in DOMAIN order
    <2>1. order[i] \in known
      BY <1>4
    <2>2. links[i] = Link(order[i][1], order[i][2], "AGENT_LINK", "A")
      OBVIOUS
    <2>3. order[i][1] \in E /\ order[i][2] \in E
      BY <1>3, <2>1
    <2> QED BY <2>2, <2>3, LinkIsIn
  <1>6. links = [i \in DOMAIN order |-> links[i]]
    OBVIOUS
  <1> HIDE DEF links
  <1>7. links \in Seq(LinksIn(E)) /\ \A i \in 1..Len(links) : links[i].tier # "S"
    <2>1. links \in Seq(LinksIn(E)) /\ Len(links) = Len(order) /\ DOMAIN order = 1..Len(order)
      BY <1>4, <1>5, <1>6, LinksAreSeq
    <2> QED BY <1>5, <2>1
  <1> QED BY <1>1, <1>2, <1>7, AttemptAllKeeps

LEMMA MediumIsOK ==
    ASSUME NEW events, NEW alerts, IsBook(events, alerts),
           NEW E \in SUBSET TradeIds(events, alerts), ByTrade(events) \subseteq E,
           NEW name \in SharedKeys, NEW v, NEW s, LinkingOK(events, alerts, E, s)
    PROVE  /\ LinkingOK(events, alerts, E, MediumOf(events, alerts, name, s, v))
           /\ Strong(MediumOf(events, alerts, name, s, v)) = Strong(s)
  <1> DEFINE members == Members(events, name, v)
             anchor == Min(members)
             first(t) == Min(Times(events, alerts, t))
             near == {t \in members \ {anchor} :
                        first(t) - first(anchor) \in (0 - MediumGap)..MediumGap}
             link(t) == Link(t, anchor, name, "M")
             far == {<<link(t), "OVER_GAP">> : t \in members \ (near \cup {anchor})}
             order == InOrder(near, <)
             links == [i \in DOMAIN order |-> link(order[i])]
             refused == [s EXCEPT !.rejected = @ \cup far]
  <1>1. MediumOf(events, alerts, name, s, v) =
            IF Cardinality(members) > MaxFanout THEN Flagged(s, members \X {"HUB_DEMOTED"})
            ELSE AttemptAll(refused, links)
    BY Zenon DEF MediumOf
  <1>2. members \subseteq ByTrade(events)
    BY Zenon DEF Members
  <1>3. near \subseteq members
    OBVIOUS
  <1>4. /\ Numbered(events, alerts) /\ IsFiniteSet(ByTrade(events)) /\ ByTrade(events) \subseteq Int
        /\ ByTrade(events) \subseteq TradeIds(events, alerts)
    BY BookIsNumbered DEF Numbered
  <1>5. IsFiniteSet(members) /\ members \subseteq Int
    <2> HIDE DEF members
    <2> QED BY <1>2, <1>4, FS_Subset
  <1>6. members # {} => anchor \in members
    <2> HIDE DEF members
    <2> QED BY <1>5, LeastAndGreatest
  <1>7. \A t \in members : link(t) \in LinksIn(E) /\ link(t).tier # "S"
    <2> HIDE DEF members, anchor
    <2> TAKE t \in members
    <2>1. t \in E /\ anchor \in E
      BY <1>2, <1>6
    <2> QED BY <2>1, LinkIsIn
  <1>8. order \in Seq(near)
    <2> HIDE DEF near, members
    <2>1. IsFiniteSet(near) /\ near \subseteq Int
      BY <1>3, <1>5, FS_Subset
    <2> QED BY <2>1, NumbersInOrder
  <1>9. \A x \in far : x[1] \in LinksIn(E)
    <2>1. \A t \in members \ (near \cup {anchor}) : t \in members
      OBVIOUS
    <2> HIDE DEF members, anchor, near, link
    <2> QED BY <1>7, <2>1
  <1>10. LinkingOK(events, alerts, E, refused) /\ Strong(refused) = Strong(s)
    <2> HIDE DEF far
    <2> QED BY <1>9, RejectedKeeps
  <1>11. links \in Seq(LinksIn(E)) /\ \A i \in 1..Len(links) : links[i].tier # "S"
    <2> HIDE DEF members, near, order, anchor
    <2>1. \A i \in DOMAIN order : order[i] \in members
      BY <1>3, <1>8
    <2>2. \A i \in DOMAIN order : links[i] \in LinksIn(E) /\ links[i].tier # "S"
      <3> HIDE DEF link
      <3> QED BY <1>7, <2>1
    <2>3. links = [i \in DOMAIN order |-> links[i]]
      OBVIOUS
    <2> HIDE DEF links
    <2>4. links \in Seq(LinksIn(E)) /\ Len(links) = Len(order) /\ DOMAIN order = 1..Len(order)
      BY <1>8, <2>2, <2>3, LinksAreSeq
    <2> QED BY <2>2, <2>4
  <1> HIDE DEF members, near, order, links, far, refused
  <1>12. CASE Cardinality(members) > MaxFanout
    BY <1>1, <1>12, FlaggedKeeps
  <1>13. CASE ~ (Cardinality(members) > MaxFanout)
    BY <1>1, <1>4, <1>10, <1>11, <1>13, AttemptAllKeeps
  <1> QED BY <1>12, <1>13

IsMediumRun(f, events, alerts, name, s, order, N) ==
    f = [n \in 0..N |-> IF n = 0 THEN s ELSE MediumOf(events, alerts, name, f[n - 1], order[n])]

\* The recursion that SharedKey is defined by has a solution.
LEMMA MediumsExist ==
    ASSUME NEW events, NEW alerts, NEW name, NEW s, NEW order, NEW N \in Nat
    PROVE  \E f : IsMediumRun(f, events, alerts, name, s, order, N)
  <1> DEFINE Solves(f, k) ==
               f = [n \in 0..k |-> IF n = 0 THEN s
                                   ELSE MediumOf(events, alerts, name, f[n - 1], order[n])]
             S == {k \in Nat : \E f : Solves(f, k)}
  <1>1. 0 \in S
    <2> DEFINE f == [n \in 0..0 |-> s]
    <2>1. f = [n \in 0..0 |-> IF n = 0 THEN s
                              ELSE MediumOf(events, alerts, name, f[n - 1], order[n])]
      OBVIOUS
    <2> HIDE DEF f
    <2> QED BY <2>1
  <1>2. ASSUME NEW k \in Nat, k \in S PROVE k + 1 \in S
    <2>1. PICK f : Solves(f, k)
      BY <1>2
    <2> DEFINE g == [n \in 0..(k + 1) |-> IF n <= k THEN f[n]
                                          ELSE MediumOf(events, alerts, name, f[k], order[n])]
    <2>2. ASSUME NEW n \in 0..(k + 1)
          PROVE  g[n] = IF n = 0 THEN s ELSE MediumOf(events, alerts, name, g[n - 1], order[n])
      <3>1. n <= k => n \in 0..k /\ g[n] = f[n]
        OBVIOUS
      <3>2. n # 0 => n - 1 \in 0..k /\ n - 1 \in 0..(k + 1) /\ g[n - 1] = f[n - 1]
        OBVIOUS
      <3>3. ~(n <= k) => n # 0 /\ n - 1 = k /\ g[n] = MediumOf(events, alerts, name, f[k], order[n])
        OBVIOUS
      <3> HIDE DEF g
      <3> QED BY <2>1, <3>1, <3>2, <3>3
    <2>3. g = [n \in 0..(k + 1) |-> IF n = 0 THEN s
                                    ELSE MediumOf(events, alerts, name, g[n - 1], order[n])]
      BY <2>2, Zenon
    <2> HIDE DEF g
    <2> QED BY <2>3
  <1>3. Nat \subseteq S
    <2> HIDE DEF S
    <2> QED BY <1>1, <1>2, SetInduction
  <1>4. \E f : Solves(f, N)
    BY <1>3
  <1> QED BY <1>4 DEF IsMediumRun

LEMMA OrderHasLength ==
    ASSUME NEW S, IsFiniteSet(S)
    PROVE  Len(InOrder(S, <)) \in Nat
  <1> DEFINE seq == InOrder(S, <)
             T == {seq[i] : i \in 1..Cardinality(S)}
  <1>1. Cardinality(S) \in Nat
    BY FS_CardinalityType
  <1>2. seq = [i \in 1..Cardinality(S) |-> CHOOSE x \in S : Cardinality({y \in S : y < x}) = i - 1]
    BY DEF InOrder
  <1>3. seq \in [1..Cardinality(S) -> T]
    BY <1>2
  <1> HIDE DEF seq, T
  <1>4. seq \in Seq(T)
    BY <1>1, <1>3
  <1>5. Len(seq) \in Nat
    BY <1>4
  <1> QED BY <1>5 DEF seq

LEMMA SharedKeyIsOK ==
    ASSUME NEW events, NEW alerts, IsBook(events, alerts),
           NEW E \in SUBSET TradeIds(events, alerts), ByTrade(events) \subseteq E,
           NEW name \in SharedKeys, NEW s, LinkingOK(events, alerts, E, s)
    PROVE  /\ LinkingOK(events, alerts, E, SharedKey(events, alerts, name, s))
           /\ Strong(SharedKey(events, alerts, name, s)) = Strong(s)
  <1> DEFINE keys == {KeyOf(name, History(events, t)[1]) : t \in ByTrade(events)} \ {NoKey}
             useless == {t \in ByTrade(events) : KeyOf(name, History(events, t)[1]) \in Degenerate}
             order == InOrder(keys \ Degenerate, <)
             start == Flagged(s, useless \X {"DEGENERATE_KEY"})
             after == CHOOSE f : f = [n \in 0..Len(order) |->
                        IF n = 0 THEN start ELSE MediumOf(events, alerts, name, f[n - 1], order[n])]
  <1>1. SharedKey(events, alerts, name, s) = after[Len(order)]
    BY Zenon DEF SharedKey
  <1>2. Len(order) \in Nat
    <2> DEFINE key == [t \in ByTrade(events) |-> KeyOf(name, History(events, t)[1])]
               all == {key[t] : t \in ByTrade(events)}
    <2>1. IsFiniteSet(all)
      <3> HIDE DEF key
      <3> QED BY BookIsNumbered, ImageIsFinite
    <2>2. keys \ Degenerate \subseteq all
      OBVIOUS
    <2> HIDE DEF keys, all
    <2>3. IsFiniteSet(keys \ Degenerate)
      BY <2>1, <2>2, FS_Subset
    <2> QED BY <2>3, OrderHasLength
  <1> HIDE DEF order, useless
  <1>3. LinkingOK(events, alerts, E, start) /\ Strong(start) = Strong(s)
    BY FlaggedKeeps
  <1> HIDE DEF start
  <1>4. after = [n \in 0..Len(order) |->
                   IF n = 0 THEN start ELSE MediumOf(events, alerts, name, after[n - 1], order[n])]
    <2>1. \E f : IsMediumRun(f, events, alerts, name, start, order, Len(order))
      BY <1>2, MediumsExist
    <2> QED BY <2>1, Zenon DEF IsMediumRun
  <1> HIDE DEF after
  <1>5. /\ after[0] = start
        /\ \A n \in 1..Len(order) : after[n] = MediumOf(events, alerts, name, after[n - 1], order[n])
    <2>1. /\ 0 \in 0..Len(order)
          /\ \A n \in 1..Len(order) : n \in 0..Len(order) /\ n # 0
      BY <1>2
    <2> QED BY <1>4, <2>1
  <1> DEFINE S == {n \in Nat : n <= Len(order) =>
                     LinkingOK(events, alerts, E, after[n]) /\ Strong(after[n]) = Strong(s)}
  <1>6. 0 \in S
    BY <1>3, <1>5
  <1>7. ASSUME NEW n \in Nat, n \in S PROVE n + 1 \in S
    <2> SUFFICES ASSUME n + 1 <= Len(order)
                 PROVE  /\ LinkingOK(events, alerts, E, after[n + 1])
                        /\ Strong(after[n + 1]) = Strong(s)
      OBVIOUS
    <2>1. n <= Len(order) /\ n + 1 \in 1..Len(order) /\ (n + 1) - 1 = n
      BY <1>2
    <2>2. LinkingOK(events, alerts, E, after[n]) /\ Strong(after[n]) = Strong(s)
      BY <1>7, <2>1
    <2>3. after[n + 1] = MediumOf(events, alerts, name, after[n], order[n + 1])
      BY <1>5, <2>1
    <2> QED BY <2>2, <2>3, MediumIsOK
  <1>8. Nat \subseteq S
    <2> HIDE DEF S
    <2> QED BY <1>6, <1>7, SetInduction
  <1> QED BY <1>1, <1>2, <1>8

\* Whatever is loaded, the episodes are as the links say, and lineage is what
\* it is without any other link.
LEMMA LinkedIsOK ==
    ASSUME NEW events, NEW alerts, IsBook(events, alerts),
           NEW E \in SUBSET TradeIds(events, alerts), ByTrade(events) \subseteq E,
           NEW confirmed, Confirmable(events, alerts, E, confirmed)
    PROVE  /\ LinkingOK(events, alerts, E, Linked(events, alerts, confirmed))
           /\ Strong(Linked(events, alerts, confirmed)) =
                Strong(Lineage(events, Unlinked(events, alerts)))
  <1> DEFINE lineage == Lineage(events, Unlinked(events, alerts))
             overlaid == Overlay(confirmed, lineage)
             urn == SharedKey(events, alerts, "URN_REF", overlaid)
             all == SharedKey(events, alerts, "ALTERNATE_TRADE_ID", urn)
  <1>1. Linked(events, alerts, confirmed) = all
    BY Zenon DEF Linked
  <1>2. LinkingOK(events, alerts, E, lineage)
    BY BookIsNumbered, UnlinkedIsOK, LineageIsOK
  <1> HIDE DEF lineage
  <1>3. LinkingOK(events, alerts, E, overlaid) /\ Strong(overlaid) = Strong(lineage)
    BY <1>2, OverlayIsOK
  <1> HIDE DEF overlaid
  <1>4. "URN_REF" \in SharedKeys /\ "ALTERNATE_TRADE_ID" \in SharedKeys
    BY DEF SharedKeys
  <1>5. LinkingOK(events, alerts, E, urn) /\ Strong(urn) = Strong(overlaid)
    BY <1>3, <1>4, SharedKeyIsOK
  <1> HIDE DEF urn
  <1>6. LinkingOK(events, alerts, E, all) /\ Strong(all) = Strong(urn)
    BY <1>4, <1>5, SharedKeyIsOK
  <1> HIDE DEF all
  <1> QED BY <1>1, <1>3, <1>5, <1>6 DEF lineage

\* What EpisodesAreSound asks of the episodes follows from LinkingOK.
LEMMA EpisodesFollow ==
    ASSUME NEW events, NEW alerts, IsBook(events, alerts),
           NEW E \in SUBSET TradeIds(events, alerts), NEW s,
           LinkingOK(events, alerts, E, s)
    PROVE  /\ JoinedByLinks(s)
           /\ SpanIsBounded(events, alerts, s)
           /\ InstrumentsStayApart(events, s)
  <1> DEFINE ids == TradeIds(events, alerts)
  <1>1. Rooted(ids, E, s) /\ Joined(ids, s) /\ Spanned(events, alerts, ids, s) /\ Apart(events, ids, s)
    BY DEF LinkingOK
  <1>2. /\ Numbered(events, alerts) /\ ids \subseteq Int /\ IsFiniteSet(ids)
        /\ ByTrade(events) \subseteq ids
        /\ \A t \in ids : /\ Times(events, alerts, t) \subseteq Int /\ Times(events, alerts, t) # {}
                          /\ IsFiniteSet(Times(events, alerts, t))
    BY BookIsNumbered DEF Numbered
  <1>3. E \subseteq ids
    OBVIOUS
  <1> HIDE DEF ids
  <1>4. \A l \in ToSet(s.accepted) : l.src \in ids /\ l.dst \in ids
    <2>1. s.accepted \in Seq(LinksIn(E))
      BY <1>1 DEF Rooted
    <2>2. ToSet(s.accepted) \subseteq LinksIn(E)
      BY <2>1 DEF ToSet
    <2> QED BY <1>3, <2>2 DEF LinksIn
  <1>5. /\ s.root \in [ids -> ids] /\ DOMAIN s.root = ids
        /\ \A t \in ids : s.root[t] \in ids /\ s.root[s.root[t]] = s.root[t]
        /\ s.lo \in [ids -> Int] /\ s.hi \in [ids -> Int]
    BY <1>1 DEF Rooted
  <1>6. JoinedByLinks(s)
    <2>1. ASSUME NEW t \in ids, NEW u \in ids,
                 \A X \in SUBSET ids : NoLinkLeaves(s, X) => (t \in X <=> u \in X)
          PROVE  s.root[t] = s.root[u]
      <3> DEFINE X == {x \in ids : s.root[x] = s.root[t]}
      <3>1. \A l \in ToSet(s.accepted) : s.root[l.src] = s.root[l.dst] /\ (l.src \in ids <=> l.dst \in ids)
        BY <1>1, <1>4 DEF Joined
      <3>2. NoLinkLeaves(s, X)
        BY <3>1 DEF NoLinkLeaves
      <3>3. X \in SUBSET ids /\ t \in X
        OBVIOUS
      <3>4. u \in X
        <4> HIDE DEF X
        <4> QED BY <2>1, <3>2, <3>3
      <3> QED BY <3>4
    <2>2. \A t \in ids, u \in ids :
            s.root[t] = s.root[u] =>
                \A X \in SUBSET ids : NoLinkLeaves(s, X) => (t \in X <=> u \in X)
      BY <1>1 DEF Joined
    <2> QED BY <1>5, <2>1, <2>2 DEF JoinedByLinks
  <1>7. \A e \in Episodes(s) : \E t \in ids : e = {u \in ids : s.root[u] = s.root[t]}
    BY <1>5 DEF Episodes, EpisodeOf
  <1>8. SpanIsBounded(events, alerts, s)
    <2> SUFFICES ASSUME NEW e \in Episodes(s), Cardinality(e) > 1
                 PROVE  LET times == UNION {Times(events, alerts, t) : t \in e}
                        IN  Max(times) - Min(times) <= MaxSpan
      BY DEF SpanIsBounded
    <2> DEFINE times == UNION {Times(events, alerts, t) : t \in e}
    <2>1. PICK t \in ids : e = {u \in ids : s.root[u] = s.root[t]}
      BY <1>7
    <2> DEFINE r == s.root[t]
    <2>2. e \subseteq ids /\ t \in e /\ IsFiniteSet(e)
      <3>1. e \subseteq ids /\ t \in e
        BY <2>1
      <3> QED BY <1>2, <3>1, FS_Subset
    <2>3. \E u \in e : u # r
      <3> SUFFICES ASSUME e \subseteq {r} PROVE FALSE
        OBVIOUS
      <3>1. IsFiniteSet({r}) /\ Cardinality({r}) = 1
        BY FS_Singleton
      <3>2. Cardinality(e) <= 1 /\ Cardinality(e) \in Nat
        BY <2>2, <3>1, FS_Subset, FS_CardinalityType
      <3> QED BY <3>2
    <2>4. s.hi[r] - s.lo[r] <= MaxSpan /\ s.hi[r] \in Int /\ s.lo[r] \in Int
      <3>1. PICK u \in e : u # r
        BY <2>3
      <3>2. u \in ids /\ s.root[u] = r /\ r \in ids
        BY <1>5, <2>1, <3>1
      <3> QED BY <1>1, <1>5, <3>1, <3>2 DEF Spanned
    <2>5. \A x \in times : x \in Int /\ s.lo[r] <= x /\ x <= s.hi[r]
      BY <1>1, <1>2, <2>1 DEF Spanned
    <2>6. IsFiniteSet(times) /\ times # {} /\ times \subseteq Int
      <3> DEFINE all == {Times(events, alerts, u) : u \in e}
                 f == [u \in e |-> Times(events, alerts, u)]
      <3>1. IsFiniteSet({f[u] : u \in e})
        <4> HIDE DEF f
        <4> QED BY <2>2, ImageIsFinite
      <3>2. all = {f[u] : u \in e}
        OBVIOUS
      <3>3. \A T \in all : IsFiniteSet(T)
        BY <1>2, <2>2
      <3>4. IsFiniteSet(UNION all)
        <4> HIDE DEF all, f
        <4> QED BY <3>1, <3>2, <3>3, FS_UNION
      <3>5. times # {}
        BY <1>2, <2>2
      <3> QED BY <2>5, <3>4, <3>5
    <2> HIDE DEF times, r
    <2>7. Min(times) \in times /\ Max(times) \in times
      BY <2>6, LeastAndGreatest
    <2>8. /\ Min(times) \in Int /\ s.lo[r] <= Min(times)
          /\ Max(times) \in Int /\ Max(times) <= s.hi[r]
      BY <2>5, <2>7
    <2>9. MaxSpan \in Int
      BY SnapshotsAssumption DEF LinkingAssumption
    <2>10. Max(times) - Min(times) <= MaxSpan
      BY <2>4, <2>8, <2>9
    <2> QED BY <2>10 DEF times
  <1>9. InstrumentsStayApart(events, s)
    <2> SUFFICES ASSUME NEW e \in Episodes(s),
                        \A l \in ToSet(s.accepted) : l.tier = "S" => l.src \notin e,
                        NEW t \in e \cap ByTrade(events), NEW u \in e \cap ByTrade(events)
                 PROVE  History(events, t)[1].instrument = History(events, u)[1].instrument
      BY DEF InstrumentsStayApart
    <2>1. PICK v \in ids : e = {x \in ids : s.root[x] = s.root[v]}
      BY <1>7
    <2>2. \A l \in ToSet(s.accepted) : l.tier = "S" => s.root[l.src] # s.root[v]
      BY <1>4, <2>1
    <2>3. t \in ids /\ u \in ids /\ s.root[t] = s.root[v] /\ s.root[u] = s.root[v]
      BY <2>1
    <2>4. OwnInstruments(events, t) = OwnInstruments(events, u)
      BY <1>1, <2>2, <2>3 DEF Apart
    <2> QED BY <2>4 DEF OwnInstruments
  <1> QED BY <1>6, <1>8, <1>9

-----------------------------------------------------------------------------
(* What the source tables and the confirmed links are, and stay.           *)

OldLinks(c) ==
    \A l \in c.links :
        {l[1], l[2]} \subseteq {r.data.trade : r \in Visible("trade_events", c.asOf) \ c.during}

\* One thread goes on, and nothing is stored.
LEMMA SourcesStay ==
    ASSUME Inv, SourcesOK, NEW t \in Threads, NEW c, NEW step, Continue(t, c, step),
           UNCHANGED <<rows, confirmedBy>>, c.asOf \in Nat, \A r \in c.batch : IsRow(r),
           step = "confirm" => Proposed(c.proposal),
           step \in {"check", "load", "insert"} => OldLinks(c)
    PROVE  SourcesOK'
  <1>1. /\ pc'[t] = step /\ call'[t] = c
        /\ \A u \in Threads \ {t} : pc'[u] = pc[u] /\ call'[u] = call[u]
    BY DEF Continue, Inv, TypeOK, CallsOK
  <1>2. RowsOK /\ LinksStand /\ LinksAreOld /\ \A u \in Threads : call[u].asOf \in Nat
    BY DEF SourcesOK
  <1>3. ASSUME NEW u \in Threads, NEW r \in call'[u].batch PROVE IsRow(r)
    <2>1. CASE u = t
      BY <1>1, <1>3, <2>1
    <2>2. CASE u # t
      BY <1>1, <1>2, <1>3, <2>2 DEF RowsOK
    <2> QED BY <2>1, <2>2
  <1>4. RowsOK'
    BY <1>2, <1>3 DEF RowsOK
  <1>5. \A u \in Threads : call'[u].asOf \in Nat
    BY <1>1, <1>2
  <1>6. \A p : Proposed(p)' <=> Proposed(p)
    BY DEF Proposed, Visible
  <1>7. LinksStand'
    <2>1. \A p \in DOMAIN confirmedBy' : Proposed(p)'
      BY <1>2, <1>6 DEF LinksStand
    <2>2. ASSUME NEW u \in Threads, pc'[u] = "confirm" PROVE Proposed(call'[u].proposal)
      <3>1. CASE u = t
        BY <1>1, <2>2, <3>1
      <3>2. CASE u # t
        BY <1>1, <1>2, <2>2, <3>2 DEF LinksStand
      <3> QED BY <3>1, <3>2
    <2>3. ASSUME NEW u \in Threads, pc'[u] = "confirm" PROVE Proposed(call[u].proposal)'
      <3>1. PICK p : p = call'[u].proposal
        OBVIOUS
      <3>2. Proposed(p)'
        BY <1>6, <2>2, <2>3, <3>1
      <3> QED BY <3>1, <3>2
    <2> QED BY <2>1, <2>3 DEF LinksStand
  <1>8. LinksAreOld'
    <2>1. ASSUME NEW u \in Threads, pc'[u] \in {"check", "load", "insert"} PROVE OldLinks(call'[u])
      <3>1. CASE u = t
        BY <1>1, <2>1, <3>1
      <3>2. CASE u # t
        BY <1>1, <1>2, <2>1, <3>2 DEF LinksAreOld, OldLinks
      <3> QED BY <3>1, <3>2
    <2>2. \A table, asOf : Visible(table, asOf)' = Visible(table, asOf)
      BY DEF Visible
    <2> QED BY <2>1, <2>2 DEF LinksAreOld, OldLinks
  <1> QED BY <1>4, <1>5, <1>7, <1>8 DEF SourcesOK

\* What other threads know of a call while rows or links are stored.
Undisturbed(u) ==
    /\ pc'[u] \in {pc[u], "settle"}
    /\ call'[u].asOf = call[u].asOf /\ call'[u].links = call[u].links
    /\ call'[u].batch = call[u].batch /\ call'[u].proposal = call[u].proposal
    /\ (call'[u].during \ call[u].during) \cap rows = {}

LEMMA SourcesGrow ==
    ASSUME SourcesOK, Grows, \A r \in rows' \ rows : IsRow(r),
           \A p \in DOMAIN confirmedBy' \ DOMAIN confirmedBy : Proposed(p),
           \A u \in Threads : Undisturbed(u)
    PROVE  SourcesOK'
  <1>1. RowsOK /\ LinksStand /\ LinksAreOld /\ \A u \in Threads : call[u].asOf \in Nat
    BY DEF SourcesOK
  <1>2. \A table, asOf : Visible(table, asOf) \subseteq Visible(table, asOf)' /\ Visible(table, asOf) \subseteq rows
    BY GrowthShows DEF Visible
  <1>3. \A p : Proposed(p) => Proposed(p)'
    BY <1>2 DEF Proposed
  <1>4. RowsOK' /\ \A u \in Threads : call'[u].asOf \in Nat
    BY <1>1 DEF RowsOK, Undisturbed
  <1>5. LinksStand'
    <2>1. \A p \in DOMAIN confirmedBy' : Proposed(p)'
      BY <1>1, <1>3 DEF LinksStand
    <2>2. ASSUME NEW u \in Threads, pc'[u] = "confirm" PROVE Proposed(call[u].proposal)'
      <3>1. PICK p : p = call[u].proposal
        OBVIOUS
      <3>2. pc[u] = "confirm" /\ call'[u].proposal = p
        BY <2>2, <3>1 DEF Undisturbed
      <3>3. Proposed(p)'
        BY <1>1, <1>3, <3>1, <3>2 DEF LinksStand
      <3> QED BY <3>2, <3>3
    <2> QED BY <2>1, <2>2 DEF LinksStand
  <1>6. LinksAreOld'
    <2> SUFFICES ASSUME NEW u \in Threads, pc'[u] \in {"check", "load", "insert"},
                        NEW l \in call'[u].links, NEW trade \in {l[1], l[2]}
                 PROVE  trade \in {r.data.trade :
                                   r \in Visible("trade_events", call[u].asOf)' \ call'[u].during}
      BY DEF LinksAreOld
    <2>1. PICK c, d : c = call[u] /\ d = call'[u]
      OBVIOUS
    <2>2. /\ pc[u] \in {"check", "load", "insert"} /\ d.asOf = c.asOf /\ d.links = c.links
          /\ (d.during \ c.during) \cap rows = {}
      BY <2>1 DEF Undisturbed
    <2>3. PICK r \in Visible("trade_events", c.asOf) \ c.during : trade = r.data.trade
      BY <1>1, <2>1, <2>2 DEF LinksAreOld
    <2>4. r \in Visible("trade_events", c.asOf)' \ d.during
      BY <1>2, <2>2, <2>3
    <2>5. trade \in {q.data.trade : q \in Visible("trade_events", d.asOf)' \ d.during}
      BY <2>2, <2>3, <2>4
    <2> QED BY <2>1, <2>5
  <1> QED BY <1>4, <1>5, <1>6 DEF SourcesOK

LEMMA InitSources == Init => SourcesOK
  <1> SUFFICES ASSUME Init PROVE SourcesOK
    OBVIOUS
  <1>1. NoCall.batch = {} /\ NoCall.asOf = 0
    BY DEF NoCall
  <1>2. \A t \in Threads : call[t] = NoCall /\ pc[t] = "idle"
    BY DEF Init
  <1>3. RowsOK
    BY <1>1, <1>2, SnapshotsAssumption DEF Init, RowsOK
  <1>4. LinksStand /\ LinksAreOld
    BY <1>2 DEF Init, LinksStand, LinksAreOld
  <1> QED BY <1>1, <1>2, <1>3, <1>4 DEF SourcesOK

\* A call that begins to store rows: they are rows.
LEMMA StoringKeepsSources ==
    ASSUME Inv, SourcesOK, NEW t \in Threads, NEW c, c.asOf \in Nat, \A r \in c.batch : IsRow(r),
           Begin(t, c, "commit"), UNCHANGED store
    PROVE  SourcesOK'
  <1>1. Continue(t, c, "commit") /\ UNCHANGED <<rows, confirmedBy>>
    BY DEF Begin, Continue, store
  <1> QED BY <1>1, SourcesStay

LEMMA CopiesAreRows ==
    ASSUME NEW r, IsRow(r), r.table = "outcomes", NEW key, NEW data
    PROVE  IsRow([r EXCEPT !.key = key, !.data = data])
  <1>1. PICK k, t, d : r = [table |-> "outcomes", key |-> k, time |-> t, data |-> d] /\ t \in Nat
    BY DEF IsRow
  <1> DEFINE q == [r EXCEPT !.key = key]
  <1>2. q = [table |-> "outcomes", key |-> key, time |-> t, data |-> d]
    BY <1>1
  <1>3. [q EXCEPT !.data = data] = [table |-> "outcomes", key |-> key, time |-> t, data |-> data]
    <2> HIDE DEF q
    <2> QED BY <1>2
  <1>4. [r EXCEPT !.key = key, !.data = data] = [q EXCEPT !.data = data]
    BY <1>1
  <1> QED BY <1>1, <1>3, <1>4 DEF IsRow

LEMMA WritersKeepSources ==
    ASSUME Inv, SourcesOK, NEW t \in Threads,
           \/ \E batch \in Batches : Ingest(t, batch)
           \/ \E user \in Users, label \in {"CLEARED", "ESCALATED"}, at \in DecidedAts :
                 RecordDecision(t, user, label, at)
           \/ \E user \in Users, row \in rows : Curate(t, user, row)
    PROVE  SourcesOK'
  <1>1. ASSUME NEW batch \in Batches, Ingest(t, batch) PROVE SourcesOK'
    <2> DEFINE c == [NoCall EXCEPT !.batch = batch]
    <2>1. c.asOf \in Nat /\ c.batch = batch
      BY DEF NoCall
    <2>2. Begin(t, c, "commit") /\ UNCHANGED store
      BY <1>1 DEF Ingest
    <2> HIDE DEF c
    <2>3. \A r \in c.batch : IsRow(r)
      BY <2>1, SnapshotsAssumption
    <2> QED BY <2>1, <2>2, <2>3, StoringKeepsSources
  <1>2. ASSUME NEW user \in Users, NEW label \in {"CLEARED", "ESCALATED"}, NEW at \in DecidedAts,
               RecordDecision(t, user, label, at)
        PROVE  SourcesOK'
    <2> DEFINE row(a) == [table |-> "outcomes", key |-> <<a, user, at>>, time |-> at,
                          data |-> [alert |-> a, label |-> label, quality |-> "RAW", by |-> user]]
               batch == {row(a) : a \in CaseAlerts}
               c == [NoCall EXCEPT !.user = user, !.batch = batch]
    <2>1. Begin(t, c, "commit") /\ UNCHANGED store
      BY <1>2 DEF RecordDecision
    <2>2. \A r \in batch : IsRow(r)
      BY SnapshotsAssumption DEF IsRow
    <2> HIDE DEF batch
    <2>3. c.asOf \in Nat /\ c.batch = batch
      BY DEF NoCall
    <2> HIDE DEF c
    <2> QED BY <2>1, <2>2, <2>3, StoringKeepsSources
  <1>3. ASSUME NEW user \in Users, NEW r \in rows, Curate(t, user, r) PROVE SourcesOK'
    <2> DEFINE curated == [r EXCEPT !.key = <<"C", r.key>>, !.data.quality = "CURATED"]
               c == [NoCall EXCEPT !.user = user, !.batch = {curated}]
    <2>1. Begin(t, c, "commit") /\ UNCHANGED store /\ r.table = "outcomes"
      BY <1>3 DEF Curate
    <2>2. IsRow(r)
      BY DEF SourcesOK, RowsOK
    <2>3. IsRow(curated)
      <3>1. PICK k, d : curated = [r EXCEPT !.key = k, !.data = d]
        OBVIOUS
      <3> QED BY <2>1, <2>2, <3>1, CopiesAreRows
    <2> HIDE DEF curated
    <2>4. c.asOf \in Nat /\ c.batch = {curated}
      BY DEF NoCall
    <2> HIDE DEF c
    <2> QED BY <2>1, <2>3, <2>4, StoringKeepsSources
  <1> QED BY <1>1, <1>2, <1>3

LEMMA ConfirmLinkKeepsSources ==
    ASSUME Inv, SourcesOK, NEW t \in Threads, NEW user, NEW p, ConfirmLink(t, user, p)
    PROVE  SourcesOK'
  <1> DEFINE c == [NoCall EXCEPT !.user = user, !.proposal = p]
  <1>1. c.asOf \in Nat /\ c.batch = {} /\ c.proposal = p
    BY DEF NoCall
  <1>2. Begin(t, c, "confirm") /\ UNCHANGED store /\ Proposed(p)
    BY DEF ConfirmLink
  <1> HIDE DEF c
  <1>3. Continue(t, c, "confirm") /\ UNCHANGED <<rows, confirmedBy>>
    BY <1>2 DEF Begin, Continue, store
  <1> QED BY <1>1, <1>2, <1>3, SourcesStay

LEMMA ReadPolicyKeepsSources ==
    ASSUME Inv, SourcesOK, NEW t \in Threads, NEW asOf \in AsOfs, NEW history,
           ReadPolicy(t, asOf, history)
    PROVE  SourcesOK'
  <1> DEFINE c == [NoCall EXCEPT !.asOf = asOf, !.history = history, !.policy = policy,
                                 !.known = Confirmed(asOf), !.since = {policy}]
  <1>1. c.asOf = asOf /\ c.batch = {}
    BY DEF NoCall
  <1>2. Begin(t, c, "links") /\ UNCHANGED store
    BY DEF ReadPolicy
  <1> HIDE DEF c
  <1>3. Continue(t, c, "links") /\ UNCHANGED <<rows, confirmedBy>>
    BY <1>2 DEF Begin, Continue, store
  <1>4. c.asOf \in Nat
    BY <1>1, SnapshotsAssumption
  <1> QED BY <1>1, <1>3, <1>4, SourcesStay

\* A call that ends, or goes on with what it has.
LEMMA GoingOnKeepsSources ==
    ASSUME Inv, SourcesOK, NEW t \in Threads, UNCHANGED <<rows, confirmedBy>>, NEW step,
           step # "confirm", NEW c, Continue(t, c, step),
           \/ c = NoCall /\ step = "idle"
           \/ c.asOf = call[t].asOf /\ c.batch = call[t].batch
              /\ (step \in {"check", "load", "insert"} => OldLinks(c))
    PROVE  SourcesOK'
  <1>1. NoCall.asOf \in Nat /\ NoCall.batch = {}
    BY DEF NoCall
  <1>2. c.asOf \in Nat /\ \A r \in c.batch : IsRow(r)
    BY <1>1 DEF SourcesOK, RowsOK
  <1> QED BY <1>2, SourcesStay

\* Links that are read are those of trades that were stored when their
\* proposals were made.
LEMMA ReadLinksKeepsSources ==
    ASSUME Inv, SourcesOK, NEW t \in Threads, ReadLinks(t)
    PROVE  SourcesOK'
  <1>1. PICK c, d : c = call[t] /\ d = [c EXCEPT !.links = Confirmed(c.asOf)]
    OBVIOUS
  <1>2. GoodCall("links", c) /\ IsCall(c) /\ c.asOf \in Nat
    BY <1>1, ReadingStep DEF ReadLinks, SourcesOK
  <1>3. /\ IsCall(d) /\ d.links = Confirmed(c.asOf)
        /\ \A field \in DOMAIN NoCall \ {"links"} : d[field] = c[field]
    BY <1>1, <1>2, LinksAreSet
  <1>4. d.asOf = c.asOf /\ d.during = {} /\ d.batch = c.batch
    BY <1>2, <1>3 DEF NoCall, GoodCall
  <1>5. OldLinks(d)
    <2> SUFFICES ASSUME NEW l \in d.links, NEW trade \in {l[1], l[2]}
                 PROVE  trade \in {r.data.trade : r \in Visible("trade_events", c.asOf)}
      BY <1>4 DEF OldLinks
    <2>1. PICK p \in DOMAIN confirmedBy : p.at <= c.asOf /\ l = <<p.b, p.a>>
      BY <1>3 DEF Confirmed
    <2>2. Proposed(p) /\ p.at \in Nat
      BY SnapshotsAssumption DEF SourcesOK, LinksStand, Inv, TypeOK
    <2>3. PICK r \in Visible("trade_events", p.at) : trade = r.data.trade
      BY <2>1, <2>2 DEF Proposed
    <2>4. r \in rows /\ r.table = "trade_events" /\ r.time <= p.at /\ r.time \in Nat
      BY <2>3 DEF Visible, SourcesOK, RowsOK, IsRow
    <2>5. r.time <= c.asOf
      BY <1>2, <2>1, <2>2, <2>4
    <2>6. r \in Visible("trade_events", c.asOf)
      BY <2>4, <2>5 DEF Visible
    <2> QED BY <2>3, <2>6
  <1>6. Continue(t, d, "check") /\ UNCHANGED <<rows, confirmedBy>>
    BY <1>1 DEF ReadLinks, store
  <1> QED BY <1>1, <1>4, <1>5, <1>6, GoingOnKeepsSources

LEMMA ReadersKeepSources ==
    ASSUME Inv, SourcesOK, NEW t \in Threads,
           Check(t) \/ Load(t) \/ Insert(t) \/ Fetch(t) \/ Settle(t) \/ SettleFails(t)
    PROVE  SourcesOK'
  <1>1. PICK c : c = call[t]
    OBVIOUS
  <1>2. IsCall(c)
    BY <1>1, ReadingStep
  <1>3. CASE Fetch(t) \/ Settle(t) \/ SettleFails(t)
    <2>1. UNCHANGED <<rows, confirmedBy>> /\ Continue(t, NoCall, "idle")
      BY <1>3 DEF Fetch, Settle, SettleFails, End, store
    <2> QED BY <2>1, GoingOnKeepsSources
  <1>4. pc[t] \in {"check", "load", "insert"} => OldLinks(c)
    BY <1>1 DEF SourcesOK, LinksAreOld, OldLinks
  <1>5. CASE Check(t)
    <2>1. PICK step \in {"fetch", "load"} : Continue(t, c, step)
      BY <1>1, <1>5 DEF Check
    <2>2. UNCHANGED <<rows, confirmedBy>> /\ OldLinks(c)
      BY <1>4, <1>5 DEF Check, store
    <2> QED BY <1>1, <2>1, <2>2, GoingOnKeepsSources
  <1>6. CASE Insert(t)
    <2>1. Continue(t, c, "fetch") /\ UNCHANGED <<rows, confirmedBy>>
      BY <1>1, <1>6 DEF Insert, store
    <2> QED BY <1>1, <2>1, GoingOnKeepsSources
  <1>7. CASE Load(t)
    <2>1. PICK n, seen, step, d :
            /\ step \in {"insert", "load"} /\ d = [c EXCEPT !.loaded = n, !.content = seen]
            /\ Continue(t, d, step)
      BY <1>1, <1>7 DEF Load
    <2>2. d.asOf = c.asOf /\ d.batch = c.batch /\ d.links = c.links /\ d.during = c.during
      BY <1>2, <2>1 DEF IsCall, NoCall
    <2>3. UNCHANGED <<rows, confirmedBy>> /\ OldLinks(c)
      BY <1>4, <1>7 DEF Load, store
    <2>4. OldLinks(d)
      BY <2>2, <2>3 DEF OldLinks
    <2> QED BY <1>1, <2>1, <2>2, <2>3, <2>4, GoingOnKeepsSources
  <1> QED BY <1>3, <1>5, <1>6, <1>7

LEMMA WitnessesAreUndisturbed ==
    ASSUME Inv, NEW batch, call' = Witnessed(call, batch), NEW u \in Threads,
           pc'[u] \in {pc[u], "settle"}
    PROVE  Undisturbed(u)
  <1>1. PICK c, d : c = call[u] /\ d = call'[u]
    OBVIOUS
  <1>2. IsCall(c)
    BY <1>1, ReadingStep
  <1>3. CASE Loading(u)
    <2>1. d = [c EXCEPT !.during = c.during \cup (batch \ rows)]
      BY <1>1, <1>3 DEF Witnessed
    <2>2. /\ d.during = c.during \cup (batch \ rows)
          /\ \A field \in DOMAIN NoCall \ {"during"} : d[field] = c[field]
      BY <1>2, <2>1, DuringIsSet
    <2>3. d.asOf = c.asOf /\ d.links = c.links /\ d.batch = c.batch /\ d.proposal = c.proposal
      BY <2>2 DEF NoCall
    <2> QED BY <1>1, <2>2, <2>3 DEF Undisturbed
  <1>4. CASE ~Loading(u)
    <2>1. d = c
      BY <1>1, <1>4 DEF Witnessed
    <2> QED BY <1>1, <2>1 DEF Undisturbed
  <1> QED BY <1>3, <1>4

LEMMA ToldAreUndisturbed ==
    ASSUME Inv, NEW v, call' = Activated(call, v), NEW u \in Threads, pc'[u] \in {pc[u], "settle"}
    PROVE  Undisturbed(u)
  <1>1. PICK c, d : c = call[u] /\ d = call'[u]
    OBVIOUS
  <1>2. IsCall(c)
    BY <1>1, ReadingStep
  <1>3. CASE Reading(u)
    <2>1. d = [c EXCEPT !.since = c.since \cup {v}]
      BY <1>1, <1>3 DEF Activated
    <2>2. \A field \in DOMAIN NoCall \ {"since"} : d[field] = c[field]
      BY <1>2, <2>1, SinceIsSet
    <2>3. /\ d.asOf = c.asOf /\ d.links = c.links /\ d.batch = c.batch
          /\ d.proposal = c.proposal /\ d.during = c.during
      BY <2>2 DEF NoCall
    <2> QED BY <1>1, <2>3 DEF Undisturbed
  <1>4. CASE ~Reading(u)
    <2>1. d = c
      BY <1>1, <1>4 DEF Activated
    <2> QED BY <1>1, <2>1 DEF Undisturbed
  <1> QED BY <1>3, <1>4

LEMMA StoresKeepSources ==
    ASSUME Inv, SourcesOK,
           (\E batch \in Batches : IngestElsewhere(batch)) \/ (\E t \in Threads : Commit(t))
    PROVE  SourcesOK'
  <1>1. ASSUME NEW batch, \A r \in batch : IsRow(r), rows' = rows \cup batch, UNCHANGED confirmedBy,
               call' = Witnessed(call, batch), \A u \in Threads : pc'[u] \in {pc[u], "settle"}
        PROVE  SourcesOK'
    <2>1. Grows /\ (\A r \in rows' \ rows : IsRow(r)) /\ \A u \in Threads : Undisturbed(u)
      BY <1>1, WitnessesAreUndisturbed DEF Grows
    <2> QED BY <1>1, <2>1, SourcesGrow
  <1>2. ASSUME NEW batch \in Batches, IngestElsewhere(batch) PROVE SourcesOK'
    <2>1. /\ rows' = rows \cup batch /\ UNCHANGED <<confirmedBy, pc>>
          /\ call' = Witnessed(call, batch)
      BY <1>2 DEF IngestElsewhere, Elsewhere
    <2>2. \A r \in batch : IsRow(r)
      BY SnapshotsAssumption
    <2> QED BY <1>1, <2>1, <2>2
  <1>3. ASSUME NEW t \in Threads, Commit(t) PROVE SourcesOK'
    <2>1. PICK batch : batch = call[t].batch
      OBVIOUS
    <2>2. CASE End(t) /\ UNCHANGED rows
      <3>1. UNCHANGED <<rows, confirmedBy>> /\ Continue(t, NoCall, "idle")
        BY <1>3, <2>2 DEF Commit, End
      <3> QED BY <3>1, GoingOnKeepsSources
    <2>3. CASE rows' = rows \cup batch /\ pc' = [pc EXCEPT ![t] = "settle"] /\ call' = Witnessed(call, batch)
      <3>1. UNCHANGED confirmedBy /\ pc \in [Threads -> Steps]
        BY <1>3 DEF Commit, Inv, TypeOK
      <3>2. \A r \in batch : IsRow(r)
        BY <2>1 DEF SourcesOK, RowsOK
      <3>3. \A u \in Threads : pc'[u] \in {pc[u], "settle"}
        BY <2>3, <3>1
      <3> QED BY <1>1, <2>3, <3>1, <3>2, <3>3
    <2> QED BY <1>3, <2>1, <2>2, <2>3 DEF Commit
  <1> QED BY <1>2, <1>3

\* A link that is confirmed was proposed between trades that are stored.
LEMMA ConfirmationsKeepSources ==
    ASSUME Inv, SourcesOK,
           \/ \E user \in Users, p \in Proposals : ConfirmElsewhere(user, p)
           \/ \E t \in Threads : ConfirmPut(t)
    PROVE  SourcesOK'
  <1>1. ASSUME NEW user, NEW p, Proposed(p), Canonical(p) => confirmedBy[p] = user,
               confirmedBy' = Signed(p, user), UNCHANGED rows, \A u \in Threads : Undisturbed(u)
        PROVE  SourcesOK'
    <2>1. Grows /\ DOMAIN confirmedBy' = DOMAIN confirmedBy \cup {p}
      BY <1>1 DEF Grows, Signed, Canonical
    <2> QED BY <1>1, <2>1, SourcesGrow
  <1>2. ASSUME NEW u \in Threads, call'[u] = call[u], pc'[u] \in {pc[u], "settle"}
        PROVE  Undisturbed(u)
    BY <1>2 DEF Undisturbed
  <1>3. ASSUME NEW user \in Users, NEW p \in Proposals, ConfirmElsewhere(user, p) PROVE SourcesOK'
    <2>1. /\ Proposed(p) /\ ~Canonical(p) /\ confirmedBy' = Signed(p, user)
          /\ UNCHANGED <<rows, call, pc>>
      BY <1>3 DEF ConfirmElsewhere, Elsewhere
    <2> QED BY <1>1, <1>2, <2>1
  <1>4. ASSUME NEW t \in Threads, ConfirmPut(t) PROVE SourcesOK'
    <2>1. PICK c, p, user : c = call[t] /\ p = c.proposal /\ user = c.user
      OBVIOUS
    <2>2. CASE End(t) /\ UNCHANGED confirmedBy
      <3>1. UNCHANGED <<rows, confirmedBy>> /\ Continue(t, NoCall, "idle")
        BY <1>4, <2>2 DEF ConfirmPut, End
      <3> QED BY <3>1, GoingOnKeepsSources
    <2>3. CASE /\ Canonical(p) => confirmedBy[p] = user
               /\ confirmedBy' = Signed(p, user) /\ Continue(t, c, "settle")
      <3>1. UNCHANGED rows /\ pc[t] = "confirm"
        BY <1>4 DEF ConfirmPut
      <3>2. Proposed(p)
        BY <2>1, <3>1 DEF SourcesOK, LinksStand
      <3>3. \A u \in Threads : call'[u] = call[u] /\ pc'[u] \in {pc[u], "settle"}
        BY <2>1, <2>3 DEF Continue, Inv, TypeOK, CallsOK
      <3> QED BY <1>1, <1>2, <2>3, <3>1, <3>2, <3>3
    <2> QED BY <1>4, <2>1, <2>2, <2>3 DEF ConfirmPut
  <1> QED BY <1>3, <1>4

LEMMA ReleasesKeepSources ==
    ASSUME Inv, SourcesOK, NEW v,
           ReleaseElsewhere(v) \/ \E t \in Threads : Release(t, v)
    PROVE  SourcesOK'
  <1>1. UNCHANGED <<rows, confirmedBy>> /\ call' = Activated(call, v)
    BY DEF ReleaseElsewhere, Elsewhere, Release
  <1>2. \A u \in Threads : pc'[u] \in {pc[u], "settle"}
    BY DEF ReleaseElsewhere, Elsewhere, Release, Inv, TypeOK
  <1>3. Grows /\ \A u \in Threads : Undisturbed(u)
    BY <1>1, <1>2, ToldAreUndisturbed DEF Grows
  <1> QED BY <1>1, <1>3, SourcesGrow

LEMMA NextSources == Inv /\ SourcesOK /\ [Next]_vars => SourcesOK'
  <1> SUFFICES ASSUME Inv, SourcesOK, [Next]_vars PROVE SourcesOK'
    OBVIOUS
  <1>1. CASE UNCHANGED vars
    <2>1. UNCHANGED <<rows, confirmedBy, pc, call>>
      BY <1>1 DEF vars, store
    <2>2. Grows /\ \A u \in Threads : Undisturbed(u)
      BY <2>1 DEF Grows, Undisturbed
    <2> QED BY <2>1, <2>2, SourcesGrow
  <1>2. ASSUME NEW t \in Threads, Step(t) PROVE SourcesOK'
    BY <1>2, ReadLinksKeepsSources, ReadersKeepSources, StoresKeepSources,
       ConfirmationsKeepSources DEF Step
  <1>3. ASSUME NEW t \in Threads,
               \/ \E asOf \in AsOfs, history \in Histories : ReadPolicy(t, asOf, history)
               \/ \E batch \in Batches : Ingest(t, batch)
               \/ \E user \in Users, label \in {"CLEARED", "ESCALATED"}, at \in DecidedAts :
                     RecordDecision(t, user, label, at)
               \/ \E user \in Users, row \in rows : Curate(t, user, row)
               \/ \E user \in Users, p \in Proposals : ConfirmLink(t, user, p)
               \/ \E v \in Policies : Release(t, v)
        PROVE  SourcesOK'
    <2>1. ASSUME NEW asOf \in AsOfs, NEW history \in Histories, ReadPolicy(t, asOf, history)
          PROVE  SourcesOK'
      BY <2>1, ReadPolicyKeepsSources
    <2>2. ASSUME NEW user \in Users, NEW p \in Proposals, ConfirmLink(t, user, p) PROVE SourcesOK'
      BY <2>2, ConfirmLinkKeepsSources
    <2>3. ASSUME NEW v \in Policies, Release(t, v) PROVE SourcesOK'
      BY <2>3, ReleasesKeepSources
    <2> QED BY <1>3, <2>1, <2>2, <2>3, WritersKeepSources
  <1>4. ASSUME \/ \E batch \in Batches : IngestElsewhere(batch)
               \/ \E user \in Users, p \in Proposals : ConfirmElsewhere(user, p)
               \/ \E v \in Policies : ReleaseElsewhere(v)
        PROVE  SourcesOK'
    <2>1. ASSUME NEW v \in Policies, ReleaseElsewhere(v) PROVE SourcesOK'
      BY <2>1, ReleasesKeepSources
    <2> QED BY <1>4, <2>1, StoresKeepSources, ConfirmationsKeepSources
  <1> QED BY <1>1, <1>2, <1>3, <1>4 DEF Next

LEMMA SourcesInvariance == Spec => []SourcesOK
  <1> QED BY InitSources, NextSources, Invariance, PTL DEF Spec

-----------------------------------------------------------------------------
(* Episodes of what is about to be cached.                                 *)

\* What a load has gathered is a book of trades and alerts.
LEMMA BuiltIsBook ==
    ASSUME Inv, SourcesOK, NEW t \in Threads, pc[t] = "insert", NEW s, s = Snapshot(call[t])
    PROVE  /\ IsBook(Of(s.content, "trade_events"), Of(s.content, "alerts"))
           /\ IsFiniteSet(Of(s.content, "outcomes"))
           /\ \A l \in s.links : l = <<l[1], l[2]>>
  <1>1. PICK c : c = call[t]
    OBVIOUS
  <1>2. GoodCall("insert", c)
    BY <1>1, ReadingStep
  <1>3. s.content = c.content /\ s.links = c.links
    BY <1>1 DEF Snapshot
  <1>4. s.content \subseteq rows
    BY <1>2, <1>3 DEF GoodCall, ContentOK, Visible
  <1>5. ASSUME NEW table PROVE IsFiniteSet(Of(s.content, table))
    <2>1. View(s, table) \in SUBSET rows
      BY <1>4 DEF View
    <2>2. IsFiniteSet(View(s, table))
      BY <2>1, FS_Subset DEF Inv
    <2> QED BY <2>2, OfIsFinite
  <1>6. \A r \in rows : r.table \in {"trade_events", "alerts"} => r.data.trade \in Nat /\ r.data.time \in Nat
    BY DEF SourcesOK, RowsOK, IsRow
  <1>7. IsBook(Of(s.content, "trade_events"), Of(s.content, "alerts"))
    <2>1. \A e \in Of(s.content, "trade_events") \cup Of(s.content, "alerts") : e.trade \in Nat /\ e.time \in Nat
      BY <1>4, <1>6 DEF Of
    <2> QED BY <1>5, <2>1 DEF IsBook
  <1>8. \A l \in s.links : l = <<l[1], l[2]>>
    <2>1. s.links \subseteq Confirmed(c.asOf)
      BY <1>2, <1>3 DEF GoodCall
    <2>2. \A l \in Confirmed(c.asOf) : \E x, y : l = <<x, y>>
      BY DEF Confirmed
    <2>3. ASSUME NEW l, NEW x, NEW y, l = <<x, y>> PROVE l = <<l[1], l[2]>>
      BY <2>3
    <2> QED BY <2>1, <2>2, <2>3
  <1> QED BY <1>5, <1>7, <1>8

LEMMA StoriesAreSound == Inv /\ SourcesOK => EpisodesAreSound
  <1> SUFFICES ASSUME Inv, SourcesOK, NEW t \in Threads, pc[t] = "insert", NEW s, s = Snapshot(call[t])
               PROVE  LET events == Of(s.content, "trade_events")
                          alerts == Of(s.content, "alerts")
                      IN  /\ JoinedByLinks(Story(s))
                          /\ SpanIsBounded(events, alerts, Story(s))
                          /\ InstrumentsStayApart(events, Story(s))
                          /\ LineageStands(events, alerts, s.links)
    BY DEF EpisodesAreSound, Built
  <1> DEFINE events == Of(s.content, "trade_events")
             alerts == Of(s.content, "alerts")
             E == TradeIds(events, alerts)
  <1>1. IsBook(events, alerts) /\ \A l \in s.links : l = <<l[1], l[2]>>
    BY BuiltIsBook
  <1>2. Story(s) = Linked(events, alerts, s.links)
    BY DEF Story
  <1>3. E \in SUBSET TradeIds(events, alerts) /\ ByTrade(events) \subseteq E
    BY <1>1, BookIsNumbered
  <1>4. Confirmable(events, alerts, E, s.links)
    BY <1>1 DEF Confirmable
  <1> HIDE DEF events, alerts, E
  <1>5. /\ LinkingOK(events, alerts, E, Story(s))
        /\ Strong(Story(s)) = Strong(Lineage(events, Unlinked(events, alerts)))
    BY <1>1, <1>2, <1>3, <1>4, LinkedIsOK
  <1>6. /\ JoinedByLinks(Story(s)) /\ SpanIsBounded(events, alerts, Story(s))
        /\ InstrumentsStayApart(events, Story(s))
    BY <1>1, <1>3, <1>5, EpisodesFollow
  <1>7. LineageStands(events, alerts, s.links)
    BY <1>2, <1>5 DEF LineageStands, Strong
  <1> QED BY <1>6, <1>7 DEF events, alerts

\* Of whatever has been loaded, torn or not, build_episodes() makes episodes
\* that are what the accepted links join, within the span, and of one
\* instrument without lineage; nothing takes a rebooking from its original.
THEOREM EpisodesStaySound == Spec => []EpisodesAreSound
  <1> QED BY StoriesAreSound, Invariance, SourcesInvariance, PTL

-----------------------------------------------------------------------------
(* The graph of what is about to be cached has no loose ends.              *)

LEMMA TradeNodesAre ==
    ASSUME NEW events
    PROVE  /\ \A e \in events : {<<"trade", e.trade>>, <<"version", <<e.trade, e.version>>>>} \subseteq TradeNodes(events)
           /\ \A t \in ByTrade(events) : <<"trade", t>> \in TradeNodes(events)
           /\ \A t \in ByTrade(events) : \A f : f = History(events, t)[1] =>
                 {<<"book", f.book>>, <<"desk", f.desk>>, <<"instrument", f.instrument>>} \subseteq TradeNodes(events)
  <1> DEFINE ofEvent(e) == {<<"trade", e.trade>>, <<"version", <<e.trade, e.version>>>>}
             ofTrade(t) == {<<"book", History(events, t)[1].book>>, <<"desk", History(events, t)[1].desk>>,
                            <<"instrument", History(events, t)[1].instrument>>}
             all == {ofTrade(t) : t \in ByTrade(events)}
  <1>1. TradeNodes(events) = (UNION {ofEvent(e) : e \in events}) \cup UNION all
    BY DEF TradeNodes
  <1>2. ASSUME NEW e \in events PROVE ofEvent(e) \subseteq TradeNodes(events)
    <2>1. ofEvent(e) \in {ofEvent(x) : x \in events}
      OBVIOUS
    <2> HIDE DEF ofEvent, ofTrade
    <2> QED BY <1>1, <2>1
  <1>3. ASSUME NEW t \in ByTrade(events) PROVE ofTrade(t) \subseteq TradeNodes(events)
    <2>1. ofTrade(t) \in all
      OBVIOUS
    <2> HIDE DEF ofEvent, ofTrade, all
    <2> QED BY <1>1, <2>1
  <1>4. ASSUME NEW t \in ByTrade(events) PROVE <<"trade", t>> \in TradeNodes(events)
    <2>1. PICK e \in events : e.trade = t
      BY DEF ByTrade
    <2> QED BY <1>2, <2>1
  <1> QED BY <1>2, <1>3, <1>4

LEMMA GraphIsClosed ==
    ASSUME NEW rules, NEW events, NEW alerts, NEW outcomes, NEW proposals, NEW s,
           s.root \in [TradeIds(events, alerts) -> TradeIds(events, alerts)],
           \A l \in ToSet(s.accepted) : {l.src, l.dst} \subseteq ByTrade(events),
           \A r \in s.rejected : {r[1].src, r[1].dst} \subseteq ByTrade(events)
    PROVE  IsClosed(BuildGraph(rules, events, alerts, outcomes, s, proposals))
  <1> DEFINE g == BuildGraph(rules, events, alerts, outcomes, s, proposals)
             Inside(e) == e[1] \in g.node /\ e[2] \in g.node
  <1>1. /\ TradeNodes(events) \subseteq g.node
        /\ \A r \in rules : <<"rule", r>> \in g.node /\ <<"subrule", r>> \in g.node
        /\ \A e \in Episodes(s) : <<"episode", e>> \in g.node
        /\ \A a \in alerts : <<"alert", a.alert>> \in g.node /\ <<"subrule", a.subrule>> \in g.node
        /\ \A o \in Judged(alerts, outcomes) : <<"outcome", o>> \in g.node
    BY DEF BuildGraph
  <1>2. g.edge = TradeEdges(events) \cup EpisodeEdges(events, s)
                 \cup {Edge(<<"subrule", r>>, <<"rule", r>>, "SUBRULE_OF") : r \in rules}
                 \cup AlertEdges(events, alerts) \cup OutcomeEdges(alerts, outcomes)
                 \cup ProposalEdges(events, proposals)
    BY DEF BuildGraph
  <1> HIDE DEF g
  <1>3. \A t \in ByTrade(events) : <<"trade", t>> \in g.node
    BY <1>1, TradeNodesAre
  <1>4. ASSUME NEW e \in TradeEdges(events) PROVE Inside(e)
    <2>1. CASE \E v \in events : e = Edge(<<"version", <<v.trade, v.version>>>>, <<"trade", v.trade>>, "VERSION_OF")
      BY <1>1, <2>1, TradeNodesAre DEF Edge
    <2>2. ASSUME NEW t \in ByTrade(events), NEW f, f = History(events, t)[1],
                 e \in {Edge(<<"trade", t>>, <<"book", f.book>>, "BOOKED_IN"),
                        Edge(<<"book", f.book>>, <<"desk", f.desk>>, "PART_OF"),
                        Edge(<<"trade", t>>, <<"instrument", f.instrument>>, "TRADES")}
          PROVE  Inside(e)
      <3>1. {<<"book", f.book>>, <<"desk", f.desk>>, <<"instrument", f.instrument>>} \subseteq g.node
        BY <1>1, <2>2, TradeNodesAre
      <3> QED BY <1>3, <2>2, <3>1 DEF Edge
    <2> QED BY <2>1, <2>2 DEF TradeEdges
  <1>5. ASSUME NEW e \in EpisodeEdges(events, s) PROVE Inside(e)
    <2>1. ASSUME NEW t \in ByTrade(events) PROVE <<"episode", EpisodeOf(s, t)>> \in g.node
      <3>1. t \in DOMAIN s.root
        BY DEF TradeIds
      <3> QED BY <1>1, <3>1 DEF Episodes
    <2>2. CASE \E t \in ByTrade(events) : e = Edge(<<"trade", t>>, <<"episode", EpisodeOf(s, t)>>, "MEMBER_OF")
      BY <1>3, <2>1, <2>2 DEF Edge
    <2>3. CASE \E l \in ToSet(s.accepted) : e = Edge(<<"trade", l.src>>, <<"trade", l.dst>>, l.kind)
      BY <1>3, <2>3 DEF Edge
    <2>4. CASE \E r \in s.rejected :
                  e = <<<<"trade", r[1].src>>, <<"trade", r[1].dst>>, r[1].kind, "REJECTED">>
      BY <1>3, <2>4
    <2> QED BY <2>2, <2>3, <2>4 DEF EpisodeEdges
  <1>6. ASSUME NEW e \in AlertEdges(events, alerts) PROVE Inside(e)
    <2>1. CASE \E a \in alerts : Target(events, a) \in TradeNodes(events)
                                 /\ e = Edge(<<"alert", a.alert>>, Target(events, a), "ALERT_ON")
      <3>1. PICK a \in alerts : /\ Target(events, a) \in TradeNodes(events)
                                /\ e = Edge(<<"alert", a.alert>>, Target(events, a), "ALERT_ON")
        BY <2>1
      <3>2. e[1] = <<"alert", a.alert>> /\ e[2] = Target(events, a)
        BY <3>1 DEF Edge
      <3> QED BY <1>1, <3>1, <3>2
    <2>2. CASE \E a \in alerts : e = Edge(<<"alert", a.alert>>, <<"subrule", a.subrule>>, "FIRED_BY")
      BY <1>1, <2>2 DEF Edge
    <2> QED BY <2>1, <2>2 DEF AlertEdges
  <1>7. ASSUME NEW e \in OutcomeEdges(alerts, outcomes) PROVE Inside(e)
    <2>1. PICK o \in Judged(alerts, outcomes) : e = Edge(<<"outcome", o>>, <<"alert", o.alert>>, "OUTCOME_OF")
      BY DEF OutcomeEdges
    <2>2. <<"alert", o.alert>> \in g.node
      BY <1>1 DEF Judged
    <2> QED BY <1>1, <2>1, <2>2 DEF Edge
  <1>8. ASSUME NEW e \in ProposalEdges(events, proposals) PROVE Inside(e)
    BY <1>3 DEF ProposalEdges
  <1>9. ASSUME NEW r \in rules PROVE Inside(Edge(<<"subrule", r>>, <<"rule", r>>, "SUBRULE_OF"))
    BY <1>1 DEF Edge
  <1>10. \A e \in g.edge : Inside(e)
    BY <1>2, <1>4, <1>5, <1>6, <1>7, <1>8, <1>9
  <1> QED BY <1>10 DEF IsClosed, Ends, g

LEMMA UnionOfImageIsFinite ==
    ASSUME NEW S, IsFiniteSet(S), NEW f, \A x \in S : IsFiniteSet(f[x])
    PROVE  IsFiniteSet(UNION {f[x] : x \in S})
  <1> DEFINE T == {f[x] : x \in S}
  <1>1. IsFiniteSet(T) /\ \A X \in T : IsFiniteSet(X)
    BY ImageIsFinite
  <1> HIDE DEF T
  <1>2. IsFiniteSet(UNION T)
    BY <1>1, FS_UNION
  <1> QED BY <1>2 DEF T

LEMMA GraphIsFinite ==
    ASSUME NEW rules, NEW events, NEW alerts, NEW outcomes, NEW proposals, NEW s,
           IsFiniteSet(rules), IsFiniteSet(events), IsFiniteSet(alerts), IsFiniteSet(outcomes),
           IsFiniteSet(ByTrade(events)), IsFiniteSet(DOMAIN s.root)
    PROVE  IsFiniteSet(BuildGraph(rules, events, alerts, outcomes, s, proposals).node)
  <1>1. IsFiniteSet(TradeNodes(events))
    <2> DEFINE f == [e \in events |-> {<<"trade", e.trade>>, <<"version", <<e.trade, e.version>>>>}]
               h == [t \in ByTrade(events) |->
                       {<<"book", History(events, t)[1].book>>, <<"desk", History(events, t)[1].desk>>,
                        <<"instrument", History(events, t)[1].instrument>>}]
    <2>1. TradeNodes(events) = (UNION {f[e] : e \in events}) \cup UNION {h[t] : t \in ByTrade(events)}
      BY DEF TradeNodes
    <2>2. ASSUME NEW x, NEW y PROVE IsFiniteSet({x, y})
      <3>1. {x, y} = {x} \cup {y}
        OBVIOUS
      <3>2. IsFiniteSet({x}) /\ IsFiniteSet({y})
        BY FS_Singleton
      <3> QED BY <3>1, <3>2, FS_Union
    <2>3. ASSUME NEW x, NEW y, NEW z PROVE IsFiniteSet({x, y, z})
      <3>1. {x, y, z} = {x, y} \cup {z}
        OBVIOUS
      <3>2. IsFiniteSet({x, y}) /\ IsFiniteSet({z})
        BY <2>2, FS_Singleton
      <3> QED BY <3>1, <3>2, FS_Union
    <2>4. (\A e \in events : IsFiniteSet(f[e])) /\ \A t \in ByTrade(events) : IsFiniteSet(h[t])
      BY <2>2, <2>3
    <2> HIDE DEF f, h
    <2>5. IsFiniteSet(UNION {f[e] : e \in events})
      BY <2>4, UnionOfImageIsFinite
    <2>6. IsFiniteSet(UNION {h[t] : t \in ByTrade(events)})
      BY <2>4, UnionOfImageIsFinite
    <2>7. IsFiniteSet((UNION {f[e] : e \in events}) \cup UNION {h[t] : t \in ByTrade(events)})
      <3> DEFINE A == UNION {f[e] : e \in events}
                 B == UNION {h[t] : t \in ByTrade(events)}
      <3>1. IsFiniteSet(A) /\ IsFiniteSet(B)
        BY <2>5, <2>6
      <3> HIDE DEF A, B
      <3>2. IsFiniteSet(A \cup B)
        BY <3>1, FS_Union
      <3> QED BY <3>2 DEF A, B
    <2> QED BY <2>1, <2>7
  <1> DEFINE ruleNodes == {<<"rule", r>> : r \in rules}
             subruleNodes == {<<"subrule", r>> : r \in rules}
             episodeNodes == {<<"episode", e>> : e \in Episodes(s)}
             alertNodes == {<<"alert", a.alert>> : a \in alerts}
             firedNodes == {<<"subrule", a.subrule>> : a \in alerts}
             outcomeNodes == {<<"outcome", o>> : o \in Judged(alerts, outcomes)}
  <1>2. IsFiniteSet(ruleNodes) /\ IsFiniteSet(subruleNodes)
    <2> DEFINE f == [r \in rules |-> <<"rule", r>>]
               h == [r \in rules |-> <<"subrule", r>>]
    <2>1. ruleNodes = {f[r] : r \in rules} /\ subruleNodes = {h[r] : r \in rules}
      OBVIOUS
    <2> HIDE DEF f, h, ruleNodes, subruleNodes
    <2> QED BY <2>1, ImageIsFinite
  <1>3. IsFiniteSet(alertNodes) /\ IsFiniteSet(firedNodes)
    <2> DEFINE f == [a \in alerts |-> <<"alert", a.alert>>]
               h == [a \in alerts |-> <<"subrule", a.subrule>>]
    <2>1. alertNodes = {f[a] : a \in alerts} /\ firedNodes = {h[a] : a \in alerts}
      OBVIOUS
    <2> HIDE DEF f, h, alertNodes, firedNodes
    <2> QED BY <2>1, ImageIsFinite
  <1>4. IsFiniteSet(episodeNodes)
    <2> DEFINE f == [t \in DOMAIN s.root |-> <<"episode", EpisodeOf(s, t)>>]
    <2>1. episodeNodes = {f[t] : t \in DOMAIN s.root}
      BY DEF Episodes
    <2> HIDE DEF f, episodeNodes
    <2> QED BY <2>1, ImageIsFinite
  <1>5. IsFiniteSet(outcomeNodes)
    <2> DEFINE judged == Judged(alerts, outcomes)
               f == [o \in judged |-> <<"outcome", o>>]
    <2>1. judged \in SUBSET outcomes
      BY DEF Judged
    <2>2. outcomeNodes = {f[o] : o \in judged}
      OBVIOUS
    <2> HIDE DEF f, outcomeNodes, judged
    <2>3. IsFiniteSet(judged)
      BY <2>1, FS_Subset
    <2> QED BY <2>2, <2>3, ImageIsFinite
  <1>6. BuildGraph(rules, events, alerts, outcomes, s, proposals).node =
          TradeNodes(events) \cup ruleNodes \cup subruleNodes \cup episodeNodes \cup alertNodes
          \cup firedNodes \cup outcomeNodes
    BY DEF BuildGraph
  <1> HIDE DEF ruleNodes, subruleNodes, episodeNodes, alertNodes, firedNodes, outcomeNodes
  <1> QED BY <1>1, <1>2, <1>3, <1>4, <1>5, <1>6, FS_Union

\* Of the links a load has read it has the trades: they were stored before.
LEMMA LinkedTradesAreLoaded ==
    ASSUME Inv, SourcesOK, NEW t \in Threads, pc[t] = "insert", NEW l \in call[t].links
    PROVE  {l[1], l[2]} \subseteq ByTrade(Of(call[t].content, "trade_events"))
  <1>1. PICK c : c = call[t]
    OBVIOUS
  <1>2. GoodCall("insert", c)
    BY <1>1, ReadingStep
  <1>3. PICK i \in 1..Len(Tables) : Tables[i] = "trade_events"
    BY SnapshotsAssumption, TablesKnown DEF ToSet
  <1>4. Visible("trade_events", c.asOf) \subseteq c.content \cup c.during
    <2>1. i \in 1..c.loaded /\ LoadOK(c)
      BY <1>2, <1>3 DEF GoodCall
    <2> QED BY <1>3, <2>1 DEF LoadOK
  <1>5. {l[1], l[2]} \subseteq {r.data.trade : r \in Visible("trade_events", c.asOf) \ c.during}
    BY <1>1 DEF SourcesOK, LinksAreOld
  <1>6. \A r \in Visible("trade_events", c.asOf) \ c.during :
           r.data.trade \in ByTrade(Of(c.content, "trade_events"))
    BY <1>4 DEF ByTrade, Of, Visible
  <1> QED BY <1>1, <1>5, <1>6

LEMMA GraphHolds ==
    ASSUME Inv, SourcesOK, NEW s \in Built
    PROVE  IsClosed(GraphOf(s)) /\ IsFiniteSet(GraphOf(s).node)
  <1>1. PICK t \in Threads : pc[t] = "insert" /\ s = Snapshot(call[t])
    BY DEF Built
  <1> DEFINE events == Of(s.content, "trade_events")
             alerts == Of(s.content, "alerts")
             outcomes == Of(s.content, "outcomes")
             E == ByTrade(events)
             proposals == {[a |-> p.a, b |-> p.b, status |-> IF Canonical(p) THEN "CANONICAL" ELSE p.status] :
                           p \in {x \in Proposals : Proposed(x) /\ x.at <= s.asOf}}
  <1>2. /\ IsBook(events, alerts) /\ IsFiniteSet(outcomes)
        /\ \A l \in s.links : l = <<l[1], l[2]>>
    BY <1>1, BuiltIsBook
  <1>3. s.content = call[t].content /\ s.links = call[t].links
    BY <1>1 DEF Snapshot
  <1>4. \A l \in s.links : {l[1], l[2]} \subseteq E
    BY <1>1, <1>3, LinkedTradesAreLoaded
  <1>5. GraphOf(s) = BuildGraph(Subrules, events, alerts, outcomes, Story(s), proposals)
    BY DEF GraphOf
  <1>6. Story(s) = Linked(events, alerts, s.links)
    BY DEF Story
  <1>7. IsFiniteSet(events) /\ IsFiniteSet(alerts) /\ IsFiniteSet(Subrules)
    BY <1>2, SnapshotsAssumption DEF IsBook
  <1> HIDE DEF events, alerts, outcomes, proposals
  <1>8. /\ E \in SUBSET TradeIds(events, alerts) /\ ByTrade(events) \subseteq E
        /\ IsFiniteSet(ByTrade(events)) /\ IsFiniteSet(TradeIds(events, alerts))
    BY <1>2, BookIsNumbered
  <1>9. Confirmable(events, alerts, E, s.links)
    BY <1>2, <1>4 DEF Confirmable
  <1> HIDE DEF E
  <1>10. LinkingOK(events, alerts, E, Story(s))
    BY <1>2, <1>6, <1>8, <1>9, LinkedIsOK
  <1>11. /\ Story(s).root \in [TradeIds(events, alerts) -> TradeIds(events, alerts)]
         /\ Story(s).accepted \in Seq(LinksIn(E)) /\ \A r \in Story(s).rejected : r[1] \in LinksIn(E)
    BY <1>10 DEF LinkingOK, Rooted
  <1>12. \A l \in LinksIn(E) : {l.src, l.dst} \subseteq ByTrade(events)
    BY DEF LinksIn, E
  <1>13. \A l \in ToSet(Story(s).accepted) : l \in LinksIn(E)
    BY <1>11 DEF ToSet
  <1>14. IsClosed(GraphOf(s))
    BY <1>5, <1>11, <1>12, <1>13, GraphIsClosed
  <1>15. IsFiniteSet(GraphOf(s).node)
    BY <1>2, <1>5, <1>7, <1>8, <1>11, GraphIsFinite
  <1> QED BY <1>14, <1>15

-----------------------------------------------------------------------------
(* Walking the graph: what the helpers of neighborhood() give.             *)

Pick(S) == CHOOSE x \in S : TRUE

IsRemoval(f, S, N) == f = [n \in 0..N |-> IF n = 0 THEN S ELSE f[n - 1] \ {Pick(f[n - 1])}]

LEMMA RemovalsExist ==
    ASSUME NEW S, NEW N \in Nat
    PROVE  \E f : IsRemoval(f, S, N)
  <1> DEFINE Solves(f, k) == f = [n \in 0..k |-> IF n = 0 THEN S ELSE f[n - 1] \ {Pick(f[n - 1])}]
             T == {k \in Nat : \E f : Solves(f, k)}
  <1>1. 0 \in T
    <2> DEFINE f == [n \in 0..0 |-> S]
    <2>1. f = [n \in 0..0 |-> IF n = 0 THEN S ELSE f[n - 1] \ {Pick(f[n - 1])}]
      OBVIOUS
    <2> HIDE DEF f
    <2> QED BY <2>1
  <1>2. ASSUME NEW k \in Nat, k \in T PROVE k + 1 \in T
    <2>1. PICK f : Solves(f, k)
      BY <1>2
    <2> DEFINE g == [n \in 0..(k + 1) |-> IF n <= k THEN f[n] ELSE f[k] \ {Pick(f[k])}]
    <2>2. ASSUME NEW n \in 0..(k + 1)
          PROVE  g[n] = IF n = 0 THEN S ELSE g[n - 1] \ {Pick(g[n - 1])}
      <3>1. n <= k => n \in 0..k /\ g[n] = f[n]
        OBVIOUS
      <3>2. n # 0 => n - 1 \in 0..k /\ n - 1 \in 0..(k + 1) /\ g[n - 1] = f[n - 1]
        OBVIOUS
      <3>3. ~(n <= k) => n # 0 /\ n - 1 = k /\ g[n] = f[k] \ {Pick(f[k])}
        OBVIOUS
      <3> HIDE DEF g
      <3> QED BY <2>1, <3>1, <3>2, <3>3
    <2>3. g = [n \in 0..(k + 1) |-> IF n = 0 THEN S ELSE g[n - 1] \ {Pick(g[n - 1])}]
      BY <2>2, Zenon
    <2> HIDE DEF g
    <2> QED BY <2>3
  <1>3. Nat \subseteq T
    <2> HIDE DEF T
    <2> QED BY <1>1, <1>2, SetInduction
  <1>4. \E f : Solves(f, N)
    BY <1>3
  <1> QED BY <1>4 DEF IsRemoval

\* A list of the elements of S, each once.
Lists(L, S) ==
    /\ Len(L) \in Nat /\ \A k \in 1..Len(L) : L[k] \in S
    /\ \A x \in S : \E k \in 1..Len(L) : L[k] = x
    /\ \A j, k \in 1..Len(L) : L[j] = L[k] => j = k

LEMMA ListedLists ==
    ASSUME NEW S, IsFiniteSet(S)
    PROVE  Lists(Listed(S), S)
  <1> DEFINE N == Cardinality(S)
             left == CHOOSE f : f = [n \in 0..N |-> IF n = 0 THEN S
                                                    ELSE f[n - 1] \ {CHOOSE x \in f[n - 1] : TRUE}]
             L == Listed(S)
  <1>1. N \in Nat
    BY FS_CardinalityType
  <1>2. L = [n \in 1..N |-> CHOOSE x \in left[n - 1] : TRUE]
    BY Zenon DEF Listed
  <1> HIDE DEF N
  <1>3. IsRemoval(left, S, N)
    <2>1. \E f : IsRemoval(f, S, N)
      BY <1>1, RemovalsExist
    <2> QED BY <2>1, Zenon DEF IsRemoval, Pick
  <1> HIDE DEF left, L
  <1>4. /\ left[0] = S
        /\ \A n \in 1..N : left[n] = left[n - 1] \ {Pick(left[n - 1])}
    <2>1. 0 \in 0..N /\ \A n \in 1..N : n \in 0..N /\ n # 0
      BY <1>1
    <2> QED BY <1>3, <2>1 DEF IsRemoval
  <1>5. L \in [1..N -> {L[n] : n \in 1..N}] /\ \A n \in 1..N : L[n] = Pick(left[n - 1])
    BY <1>2 DEF Pick
  <1> DEFINE T == {n \in Nat : n <= N =>
                     /\ left[n] = S \ {L[k] : k \in 1..n}
                     /\ IsFiniteSet(left[n]) /\ Cardinality(left[n]) = N - n}
  <1>6. 0 \in T
    BY <1>1, <1>4 DEF N
  <1>7. ASSUME NEW n \in Nat, n \in T PROVE n + 1 \in T
    <2> SUFFICES ASSUME n + 1 <= N
                 PROVE  /\ left[n + 1] = S \ {L[k] : k \in 1..(n + 1)}
                        /\ IsFiniteSet(left[n + 1]) /\ Cardinality(left[n + 1]) = N - (n + 1)
      OBVIOUS
    <2>1. n <= N /\ n + 1 \in 1..N /\ (n + 1) - 1 = n
      BY <1>1
    <2>2. /\ left[n] = S \ {L[k] : k \in 1..n}
          /\ IsFiniteSet(left[n]) /\ Cardinality(left[n]) = N - n
      BY <1>7, <2>1
    <2>3. left[n + 1] = left[n] \ {L[n + 1]} /\ L[n + 1] = Pick(left[n])
      BY <1>4, <1>5, <2>1
    <2>4. left[n] # {}
      BY <1>1, <2>2, FS_EmptySet
    <2>5. L[n + 1] \in left[n]
      BY <2>3, <2>4 DEF Pick
    <2>6. 1..(n + 1) = 1..n \cup {n + 1}
      OBVIOUS
    <2>7. left[n + 1] = S \ {L[k] : k \in 1..(n + 1)}
      BY <2>2, <2>3, <2>6
    <2> DEFINE X == left[n]
               x == L[n + 1]
    <2>8. IsFiniteSet(X) /\ x \in X /\ Cardinality(X) = N - n
      BY <2>2, <2>5
    <2> HIDE DEF X, x
    <2>9. IsFiniteSet(X \ {x}) /\ Cardinality(X \ {x}) = Cardinality(X) - 1
      BY <2>8, FS_RemoveElement
    <2>10. left[n + 1] = X \ {x}
      BY <2>3 DEF X, x
    <2> QED BY <1>1, <2>7, <2>8, <2>9, <2>10
  <1>8. Nat \subseteq T
    <2> HIDE DEF T
    <2> QED BY <1>6, <1>7, SetInduction
  <1>9. ASSUME NEW n \in 1..N PROVE L[n] \in S \ {L[k] : k \in 1..(n - 1)}
    <2>1. n - 1 \in Nat /\ n - 1 <= N
      BY <1>1
    <2>2. /\ left[n - 1] = S \ {L[k] : k \in 1..(n - 1)}
          /\ IsFiniteSet(left[n - 1]) /\ Cardinality(left[n - 1]) = N - (n - 1)
      BY <1>8, <2>1
    <2>3. left[n - 1] # {}
      BY <1>1, <2>2, FS_EmptySet
    <2>4. L[n] \in left[n - 1]
      BY <1>5, <2>3 DEF Pick
    <2> QED BY <2>2, <2>4
  <1>10. left[N] = {} /\ left[N] = S \ {L[k] : k \in 1..N}
    <2>1. left[N] = S \ {L[k] : k \in 1..N} /\ IsFiniteSet(left[N]) /\ Cardinality(left[N]) = 0
      BY <1>1, <1>8
    <2> QED BY <2>1, FS_EmptySet
  <1>11. Len(L) = N /\ \A k \in 1..N : L[k] \in S
    <2>1. L \in [1..N -> S]
      BY <1>5, <1>9
    <2> QED BY <1>1, <2>1
  <1>12. ASSUME NEW j \in 1..N, NEW k \in 1..N, j < k PROVE L[j] # L[k]
    <2>1. j \in 1..(k - 1)
      BY <1>1, <1>12
    <2> QED BY <1>9, <2>1
  <1>13. \A j, k \in 1..N : L[j] = L[k] => j = k
    BY <1>1, <1>12
  <1>14. \A x \in S : \E k \in 1..N : L[k] = x
    BY <1>10
  <1> QED BY <1>1, <1>11, <1>13, <1>14 DEF Lists, L

IsNear(f, g, root, N) ==
    f = [n \in 0..N |-> IF n = 0 THEN {root} ELSE f[n - 1] \cup Around(g, f[n - 1])]

LEMMA NearExists ==
    ASSUME NEW g, NEW root, NEW N \in Nat
    PROVE  \E f : IsNear(f, g, root, N)
  <1> DEFINE Solves(f, k) ==
               f = [n \in 0..k |-> IF n = 0 THEN {root} ELSE f[n - 1] \cup Around(g, f[n - 1])]
             T == {k \in Nat : \E f : Solves(f, k)}
  <1>1. 0 \in T
    <2> DEFINE f == [n \in 0..0 |-> {root}]
    <2>1. f = [n \in 0..0 |-> IF n = 0 THEN {root} ELSE f[n - 1] \cup Around(g, f[n - 1])]
      OBVIOUS
    <2> HIDE DEF f
    <2> QED BY <2>1
  <1>2. ASSUME NEW k \in Nat, k \in T PROVE k + 1 \in T
    <2>1. PICK f : Solves(f, k)
      BY <1>2
    <2> DEFINE h == [n \in 0..(k + 1) |-> IF n <= k THEN f[n] ELSE f[k] \cup Around(g, f[k])]
    <2>2. ASSUME NEW n \in 0..(k + 1)
          PROVE  h[n] = IF n = 0 THEN {root} ELSE h[n - 1] \cup Around(g, h[n - 1])
      <3>1. n <= k => n \in 0..k /\ h[n] = f[n]
        OBVIOUS
      <3>2. n # 0 => n - 1 \in 0..k /\ n - 1 \in 0..(k + 1) /\ h[n - 1] = f[n - 1]
        OBVIOUS
      <3>3. ~(n <= k) => n # 0 /\ n - 1 = k /\ h[n] = f[k] \cup Around(g, f[k])
        OBVIOUS
      <3> HIDE DEF h
      <3> QED BY <2>1, <3>1, <3>2, <3>3
    <2>3. h = [n \in 0..(k + 1) |-> IF n = 0 THEN {root} ELSE h[n - 1] \cup Around(g, h[n - 1])]
      BY <2>2, Zenon
    <2> HIDE DEF h
    <2> QED BY <2>3
  <1>3. Nat \subseteq T
    <2> HIDE DEF T
    <2> QED BY <1>1, <1>2, SetInduction
  <1>4. \E f : Solves(f, N)
    BY <1>3
  <1> QED BY <1>4 DEF IsNear

\* What is near grows with the distance, by what is around it.
Spreads(near, g, root, D) ==
    /\ near[0] = {root}
    /\ \A d \in 0..D : d < D => near[d + 1] = near[d] \cup Around(g, near[d])

LEMMA WithinSpreads ==
    ASSUME NEW g, NEW root, NEW D \in Nat
    PROVE  \E near : Spreads(near, g, root, D) /\ Within(g, root, D) = near[D]
  <1> DEFINE near == CHOOSE f : f = [n \in 0..D |-> IF n = 0 THEN {root}
                                                    ELSE f[n - 1] \cup Around(g, f[n - 1])]
  <1>1. Within(g, root, D) = near[D]
    BY Zenon DEF Within
  <1>2. IsNear(near, g, root, D)
    <2>1. \E f : IsNear(f, g, root, D)
      BY NearExists
    <2> QED BY <2>1, Zenon DEF IsNear
  <1> HIDE DEF near
  <1>3. near[0] = {root}
    BY <1>2 DEF IsNear
  <1>4. ASSUME NEW d \in 0..D, d < D PROVE near[d + 1] = near[d] \cup Around(g, near[d])
    <2>1. d + 1 \in 0..D /\ d + 1 # 0 /\ (d + 1) - 1 = d
      BY <1>4
    <2> QED BY <1>2, <2>1 DEF IsNear
  <1> QED BY <1>1, <1>3, <1>4 DEF Spreads

Nearer(near, D) == \A d, e \in 0..D : d <= e => near[d] \subseteq near[e]

LEMMA SpreadingGrows ==
    ASSUME NEW g, NEW root, NEW D \in Nat, NEW near, Spreads(near, g, root, D)
    PROVE  Nearer(near, D)
  <1> DEFINE T == {k \in Nat : k <= D => \A d \in 0..k : near[d] \subseteq near[k]}
  <1>1. 0 \in T
    OBVIOUS
  <1>2. ASSUME NEW k \in Nat, k \in T PROVE k + 1 \in T
    <2> SUFFICES ASSUME k + 1 <= D, NEW d \in 0..(k + 1) PROVE near[d] \subseteq near[k + 1]
      OBVIOUS
    <2>1. k \in 0..D /\ k < D
      OBVIOUS
    <2>2. near[k] \subseteq near[k + 1]
      BY <2>1 DEF Spreads
    <2>3. d # k + 1 => near[d] \subseteq near[k]
      BY <1>2, <2>1
    <2> QED BY <2>2, <2>3
  <1>3. Nat \subseteq T
    <2> HIDE DEF T
    <2> QED BY <1>1, <1>2, SetInduction
  <1> QED BY <1>3 DEF Nearer

IsWalk(f, g, root, depth, limit, N) ==
    f = [n \in 0..N |-> IF n = 0 THEN [found |-> <<[node |-> root, depth |-> 0]>>, kept |-> {}, truncated |-> FALSE]
                        ELSE Visit(g, depth, limit, f[n - 1], n)]

LEMMA WalksExist ==
    ASSUME NEW g, NEW root, NEW depth, NEW limit, NEW N \in Nat
    PROVE  \E f : IsWalk(f, g, root, depth, limit, N)
  <1> DEFINE start == [found |-> <<[node |-> root, depth |-> 0]>>, kept |-> {}, truncated |-> FALSE]
             Solves(f, k) ==
               f = [n \in 0..k |-> IF n = 0 THEN start ELSE Visit(g, depth, limit, f[n - 1], n)]
             T == {k \in Nat : \E f : Solves(f, k)}
  <1> HIDE DEF start
  <1>1. 0 \in T
    <2> DEFINE f == [n \in 0..0 |-> start]
    <2>1. f = [n \in 0..0 |-> IF n = 0 THEN start ELSE Visit(g, depth, limit, f[n - 1], n)]
      OBVIOUS
    <2> HIDE DEF f
    <2> QED BY <2>1
  <1>2. ASSUME NEW k \in Nat, k \in T PROVE k + 1 \in T
    <2>1. PICK f : Solves(f, k)
      BY <1>2
    <2> DEFINE h == [n \in 0..(k + 1) |-> IF n <= k THEN f[n] ELSE Visit(g, depth, limit, f[k], n)]
    <2>2. ASSUME NEW n \in 0..(k + 1)
          PROVE  h[n] = IF n = 0 THEN start ELSE Visit(g, depth, limit, h[n - 1], n)
      <3>1. n <= k => n \in 0..k /\ h[n] = f[n]
        OBVIOUS
      <3>2. n # 0 => n - 1 \in 0..k /\ n - 1 \in 0..(k + 1) /\ h[n - 1] = f[n - 1]
        OBVIOUS
      <3>3. ~(n <= k) => n # 0 /\ n - 1 = k /\ h[n] = Visit(g, depth, limit, f[k], n)
        OBVIOUS
      <3> HIDE DEF h
      <3> QED BY <2>1, <3>1, <3>2, <3>3
    <2>3. h = [n \in 0..(k + 1) |-> IF n = 0 THEN start ELSE Visit(g, depth, limit, h[n - 1], n)]
      BY <2>2, Zenon
    <2> HIDE DEF h
    <2> QED BY <2>3
  <1>3. Nat \subseteq T
    <2> HIDE DEF T
    <2> QED BY <1>1, <1>2, SetInduction
  <1>4. \E f : Solves(f, N)
    BY <1>3
  <1> QED BY <1>4 DEF IsWalk, start

\* The turns of a walk, one after the other.
Turns(f, g, root, depth, limit) ==
    /\ f[0].found = <<[node |-> root, depth |-> 0]>> /\ f[0].truncated = FALSE
    /\ \A n \in 1..limit : f[n] = Visit(g, depth, limit, f[n - 1], n)
    /\ Walk(g, root, depth, limit, limit) = f[limit]

LEMMA WalkGoes ==
    ASSUME NEW g, NEW root, NEW depth, NEW limit \in Nat
    PROVE  \E f : Turns(f, g, root, depth, limit)
  <1> DEFINE f == CHOOSE f : f = [n \in 0..limit |->
                    IF n = 0 THEN [found |-> <<[node |-> root, depth |-> 0]>>, kept |-> {}, truncated |-> FALSE]
                    ELSE Visit(g, depth, limit, f[n - 1], n)]
  <1>1. Walk(g, root, depth, limit, limit) = f[limit]
    BY Zenon DEF Walk
  <1>2. IsWalk(f, g, root, depth, limit, limit)
    <2>1. \E h : IsWalk(h, g, root, depth, limit, limit)
      BY WalksExist
    <2> QED BY <2>1, Zenon DEF IsWalk
  <1> HIDE DEF f
  <1>3. 0 \in 0..limit /\ \A n \in 1..limit : n \in 0..limit /\ n # 0
    OBVIOUS
  <1>4. f[0] = [found |-> <<[node |-> root, depth |-> 0]>>, kept |-> {}, truncated |-> FALSE]
    BY <1>2, <1>3, Zenon DEF IsWalk
  <1>5. \A n \in 1..limit : f[n] = Visit(g, depth, limit, f[n - 1], n)
    BY <1>2, <1>3 DEF IsWalk
  <1> QED BY <1>1, <1>4, <1>5 DEF Turns

\* What has been found, and behind it the first of the others.
FoundMore(F, others, room, depth) == F \o [k \in 1..room |-> [node |-> others[k], depth |-> depth]]

\* What one turn does: nothing, or it adds of the others as many as there is
\* room for.
Turned(g, depth, limit, q, i, r, others, room) ==
    /\ Lists(others, Around(g, {q.found[i].node}) \ {q.found[j].node : j \in DOMAIN q.found})
    /\ room \in 0..Len(others)
    /\ room = Len(others) \/ (room < Len(others) /\ room = limit - Len(q.found))
    /\ room <= limit - Len(q.found)
    /\ r.found = FoundMore(q.found, others, room, q.found[i].depth + 1)
    /\ r.truncated <=> q.truncated \/ room < Len(others)

LEMMA VisitDoes ==
    ASSUME NEW g, IsClosed(g), IsFiniteSet(g.node), NEW depth \in Nat, NEW limit \in Nat,
           NEW q, Len(q.found) \in 0..limit, NEW i \in 1..Len(q.found), q.found[i].depth < depth,
           q.found[i].depth \in Nat
    PROVE  \E others, room : Turned(g, depth, limit, q, i, Visit(g, depth, limit, q, i), others, room)
  <1> DEFINE here == q.found[i]
             around == {e \in g.edge : here.node \in Ends(e)}
             left == (UNION {Ends(e) : e \in around}) \ {q.found[j].node : j \in DOMAIN q.found}
             others == Listed(left)
             room == Min({limit - Len(q.found), Len(others)})
             r == [found |-> q.found \o [k \in 1..room |-> [node |-> others[k], depth |-> here.depth + 1]],
                   kept |-> q.kept \cup around,
                   truncated |-> q.truncated \/ room < Len(others)]
  <1>1. Visit(g, depth, limit, q, i) = IF i > Len(q.found) \/ here.depth >= depth THEN q ELSE r
    BY Zenon DEF Visit
  <1>2. ~(i > Len(q.found)) /\ ~(here.depth >= depth)
    OBVIOUS
  <1>3. left = Around(g, {q.found[i].node}) \ {q.found[j].node : j \in DOMAIN q.found}
    BY DEF Around, Ends
  <1>4. IsFiniteSet(left)
    <2>1. left \in SUBSET g.node
      BY DEF IsClosed
    <2> HIDE DEF left
    <2> QED BY <2>1, FS_Subset
  <1> HIDE DEF left
  <1>5. Lists(others, left)
    BY <1>4, ListedLists
  <1> HIDE DEF others
  <1>6. /\ room \in 0..Len(others) /\ room <= limit - Len(q.found)
        /\ room = Len(others) \/ (room < Len(others) /\ room = limit - Len(q.found))
    <2> DEFINE a == limit - Len(q.found)
               b == Len(others)
    <2>1. a \in Nat /\ b \in Nat
      BY <1>5 DEF Lists
    <2>2. room = Min({a, b})
      OBVIOUS
    <2> HIDE DEF room, a, b
    <2>3. a \in Int /\ b \in Int
      BY <2>1
    <2>4. Min({a, b}) \in {a, b} /\ Min({a, b}) <= a /\ Min({a, b}) <= b
      BY <2>3, LeastOfTwo, Zenon
    <2> QED BY <2>1, <2>2, <2>4 DEF a, b
  <1> HIDE DEF room
  <1>7. Visit(g, depth, limit, q, i) = r
    BY <1>1, <1>2
  <1>8. r.found = FoundMore(q.found, others, room, here.depth + 1)
    BY DEF FoundMore
  <1>9. r.truncated <=> q.truncated \/ room < Len(others)
    OBVIOUS
  <1> HIDE DEF r
  <1> QED BY <1>3, <1>5, <1>6, <1>7, <1>8, <1>9 DEF Turned

\* The nodes found so far, nearest first, each at a distance at which it is.
Placed(g, root, D, limit, near, F) ==
    /\ F \in Seq([node : g.node, depth : 0..D])
    /\ Len(F) \in 1..limit /\ F[1].node = root /\ F[1].depth = 0
    /\ \A j, k \in 1..Len(F) : F[j].node = F[k].node => j = k
    /\ \A j \in 1..Len(F) : F[j].node \in near[F[j].depth]
    /\ \A j, k \in 1..Len(F) : j <= k => F[j].depth <= F[k].depth

\* None of them is much farther than the one whose turn is next.
NextIsFar(F, n) == n < Len(F) => \A j \in 1..Len(F) : F[j].depth <= F[n + 1].depth + 1

\* What is around those whose turn is over has been found.
TurnsAreDone(g, D, F, n) ==
    \A i \in 1..Len(F) : i <= n /\ F[i].depth < D =>
        \A m \in Around(g, {F[i].node}) :
            \E j \in 1..Len(F) : F[j].node = m /\ F[j].depth <= F[i].depth + 1

\* There was no room for something that is near.
CutOff(D, limit, near, F) ==
    Len(F) = limit /\ \E m \in near[D] : \A j \in 1..Len(F) : F[j].node # m

Searched(g, root, D, limit, near, q, n) ==
    /\ Placed(g, root, D, limit, near, q.found) /\ NextIsFar(q.found, n)
    /\ ~q.truncated => TurnsAreDone(g, D, q.found, n)
    /\ q.truncated => CutOff(D, limit, near, q.found)

\* F with the first of the others after it.
Extends(F, others, room, depth, H) ==
    /\ Len(H) = Len(F) + room
    /\ \A j \in 1..Len(F) : H[j] = F[j]
    /\ \A k \in 1..room : H[Len(F) + k].node = others[k] /\ H[Len(F) + k].depth = depth
    /\ \A j \in (Len(F) + 1)..Len(H) : \E k \in 1..room : j = Len(F) + k

LEMMA FoundExtends ==
    ASSUME NEW X, NEW D \in Nat, NEW F, F \in Seq([node : X, depth : 0..D]),
           NEW others, NEW room \in Nat, \A k \in 1..room : others[k] \in X, NEW depth \in 0..D,
           NEW H, H = FoundMore(F, others, room, depth)
    PROVE  Extends(F, others, room, depth, H) /\ H \in Seq([node : X, depth : 0..D])
  <1> DEFINE S == [node : X, depth : 0..D]
             G == [k \in 1..room |-> [node |-> others[k], depth |-> depth]]
  <1>1. room \in Nat /\ Len(F) \in Nat
    OBVIOUS
  <1>2. \A k \in 1..room : others[k] \in X
    OBVIOUS
  <1>3. G \in [1..room -> S]
    BY <1>2
  <1>4. G \in Seq(S) /\ Len(G) = room
    BY <1>1, <1>3
  <1>5. \A k \in 1..room : G[k].node = others[k] /\ G[k].depth = depth
    OBVIOUS
  <1>6. H = F \o G
    BY DEF FoundMore
  <1>7. F \in Seq(S)
    OBVIOUS
  <1> HIDE DEF S, G
  <1>8. H \in Seq(S) /\ Len(H) = Len(F) + room
    <2>1. F \o G \in Seq(S) /\ Len(F \o G) = Len(F) + Len(G)
      BY <1>4, <1>7, ConcatProperties
    <2> QED BY <1>4, <1>6, <2>1
  <1>9. \A j \in 1..Len(F) : H[j] = F[j]
    BY <1>4, <1>6, <1>7
  <1>10. ASSUME NEW k \in 1..room PROVE H[Len(F) + k] = G[k]
    <2>1. PICK m : m = Len(F) + k
      OBVIOUS
    <2>2. m \in 1..(Len(F) + Len(G)) /\ ~(m <= Len(F)) /\ m - Len(F) = k
      BY <1>1, <1>4, <2>1
    <2>3. (F \o G)[m] = G[m - Len(F)]
      BY <1>4, <1>7, <2>2
    <2> QED BY <1>6, <2>1, <2>2, <2>3
  <1>11. ASSUME NEW j \in (Len(F) + 1)..Len(H) PROVE \E k \in 1..room : j = Len(F) + k
    <2>1. j - Len(F) \in 1..room /\ j = Len(F) + (j - Len(F))
      BY <1>1, <1>8
    <2> QED BY <2>1
  <1> QED BY <1>5, <1>8, <1>9, <1>10, <1>11 DEF Extends, S

LEMMA PlacesAreTyped ==
    ASSUME NEW g, NEW root, NEW D, NEW limit, NEW near, NEW F, Placed(g, root, D, limit, near, F)
    PROVE  \A j \in 1..Len(F) : F[j].node \in g.node /\ F[j].depth \in 0..D
  <1> DEFINE S == [node : g.node, depth : 0..D]
  <1>1. F \in Seq(S)
    BY DEF Placed
  <1>2. \A x \in S : x.node \in g.node /\ x.depth \in 0..D
    OBVIOUS
  <1> HIDE DEF S
  <1>3. \A j \in 1..Len(F) : F[j] \in S
    BY <1>1
  <1> QED BY <1>2, <1>3

\* Around one node that is near is what is a step farther.
LEMMA NeighboursAreNear ==
    ASSUME NEW g, NEW root, NEW D \in Nat, NEW near, Spreads(near, g, root, D),
           NEW d \in 0..D, d < D, NEW x \in near[d]
    PROVE  Around(g, {x}) \subseteq near[d + 1]
  <1>1. Around(g, {x}) \subseteq Around(g, near[d])
    BY DEF Around
  <1> QED BY <1>1 DEF Spreads

\* A turn that has nothing to do.
LEMMA IdleTurn ==
    ASSUME NEW g, NEW root, NEW D \in Nat, NEW limit \in Nat, NEW near, NEW q, NEW n \in Nat,
           Searched(g, root, D, limit, near, q, n),
           n + 1 > Len(q.found) \/ ~(q.found[n + 1].depth < D)
    PROVE  Searched(g, root, D, limit, near, q, n + 1)
  <1> DEFINE F == q.found
  <1>1. Placed(g, root, D, limit, near, F) /\ NextIsFar(F, n)
    BY DEF Searched
  <1>2. \A j \in 1..Len(F) : F[j].depth \in 0..D
    BY <1>1, PlacesAreTyped
  <1>3. Len(F) \in Nat
    BY <1>1 DEF Placed
  <1>4. \A j, k \in 1..Len(F) : j <= k => F[j].depth <= F[k].depth
    BY <1>1 DEF Placed
  <1>5. NextIsFar(F, n + 1)
    <2> SUFFICES ASSUME n + 1 < Len(F), NEW j \in 1..Len(F)
                 PROVE  F[j].depth <= F[(n + 1) + 1].depth + 1
      BY DEF NextIsFar
    <2>1. n + 1 \in 1..Len(F) /\ (n + 1) + 1 \in 1..Len(F) /\ n < Len(F)
      BY <1>3
    <2>2. F[j].depth <= F[n + 1].depth + 1
      BY <1>1, <2>1 DEF NextIsFar
    <2>3. F[n + 1].depth <= F[(n + 1) + 1].depth
      BY <1>4, <2>1
    <2>4. F[j].depth \in Int /\ F[n + 1].depth \in Int /\ F[(n + 1) + 1].depth \in Int
      BY <1>2, <2>1
    <2>5. \A x, y, z \in Int : x <= y + 1 /\ y <= z => x <= z + 1
      OBVIOUS
    <2> HIDE DEF F
    <2> QED BY <2>2, <2>3, <2>4, <2>5
  <1>6. ASSUME TurnsAreDone(g, D, F, n) PROVE TurnsAreDone(g, D, F, n + 1)
    <2>1. \A i \in 1..Len(F) : i <= n + 1 /\ F[i].depth < D => i <= n
      BY <1>3
    <2> QED BY <1>6, <2>1 DEF TurnsAreDone
  <1> QED BY <1>1, <1>5, <1>6 DEF Searched

\* A turn that looks around.
LEMMA BusyTurn ==
    ASSUME NEW g, IsClosed(g), NEW root, NEW D \in Nat, NEW limit \in Nat, NEW near,
           Spreads(near, g, root, D), Nearer(near, D),
           NEW q, NEW n \in Nat, Searched(g, root, D, limit, near, q, n),
           n + 1 \in 1..Len(q.found), q.found[n + 1].depth < D,
           NEW r, NEW others, NEW room, Turned(g, D, limit, q, n + 1, r, others, room)
    PROVE  Searched(g, root, D, limit, near, r, n + 1)
  <1> DEFINE F == q.found
             H == r.found
             here == F[n + 1].node
             depth == F[n + 1].depth
             around == Around(g, {here})
             known == {F[j].node : j \in DOMAIN F}
             L == Len(F)
  <1>1. Placed(g, root, D, limit, near, F) /\ NextIsFar(F, n)
    BY DEF Searched
  <1>2. \A j \in 1..L : F[j].node \in g.node /\ F[j].depth \in 0..D
    BY <1>1, PlacesAreTyped
  <1>3. L \in 1..limit /\ DOMAIN F = 1..L
    BY <1>1 DEF Placed
  <1>4. depth \in 0..D /\ depth + 1 \in 0..D /\ depth < D /\ n + 1 \in 1..L /\ here \in g.node
    BY <1>2
  <1>5. Lists(others, around \ known) /\ room \in 0..Len(others) /\ Len(others) \in Nat
    BY DEF Turned, Lists
  <1>6. around \subseteq near[depth + 1] /\ near[depth + 1] \subseteq near[D]
    <2>1. here \in near[depth]
      BY <1>1, <1>4 DEF Placed
    <2>2. around \subseteq near[depth + 1]
      BY <1>4, <2>1, NeighboursAreNear
    <2>3. near[depth + 1] \subseteq near[D]
      BY <1>4 DEF Nearer
    <2> QED BY <2>2, <2>3
  <1>7. Extends(F, others, room, depth + 1, H) /\ H \in Seq([node : g.node, depth : 0..D])
    <2>1. H = FoundMore(F, others, room, depth + 1)
      BY DEF Turned
    <2>2. around \subseteq g.node
      BY DEF Around, IsClosed
    <2>3. room \in Nat /\ \A k \in 1..room : others[k] \in g.node
      <3>1. room \in Nat /\ \A k \in 1..room : k \in 1..Len(others)
        BY <1>5
      <3>2. \A k \in 1..Len(others) : others[k] \in around
        BY <1>5 DEF Lists
      <3> HIDE DEF around
      <3> QED BY <2>2, <3>1, <3>2
    <2>4. F \in Seq([node : g.node, depth : 0..D])
      BY <1>1 DEF Placed
    <2>5. depth + 1 \in 0..D
      BY <1>4
    <2> DEFINE X == g.node
               deeper == depth + 1
    <2>6. F \in Seq([node : X, depth : 0..D]) /\ room \in Nat /\ deeper \in 0..D
      BY <2>3, <2>4, <2>5
    <2>7. \A k \in 1..room : others[k] \in X
      BY <2>3
    <2>8. H = FoundMore(F, others, room, deeper)
      BY <2>1
    <2> HIDE DEF F, H, X, deeper
    <2>9. Extends(F, others, room, deeper, H) /\ H \in Seq([node : X, depth : 0..D])
      BY <2>6, <2>7, <2>8, FoundExtends
    <2> QED BY <2>9 DEF X, deeper
  <1>8. /\ room <= limit - L
        /\ room = Len(others) \/ (room < Len(others) /\ room = limit - L)
        /\ r.truncated <=> q.truncated \/ room < Len(others)
    BY DEF Turned
  <1>9. /\ ~q.truncated => TurnsAreDone(g, D, F, n)
        /\ q.truncated => CutOff(D, limit, near, F)
    BY DEF Searched
  <1>10. \A x : x \in known <=> \E j \in 1..L : F[j].node = x
    BY <1>3
  <1>11. /\ \A j, k \in 1..L : F[j].node = F[k].node => j = k
         /\ \A j \in 1..L : F[j].node \in near[F[j].depth]
         /\ \A j, k \in 1..L : j <= k => F[j].depth <= F[k].depth
         /\ F[1].node = root /\ F[1].depth = 0
    BY <1>1 DEF Placed
  <1>12. \A j \in 1..L : F[j].depth <= depth + 1
    BY <1>1, <1>4, <1>3 DEF NextIsFar
  <1>13. /\ \A k \in 1..Len(others) : others[k] \in around \ known
         /\ \A x \in around \ known : \E k \in 1..Len(others) : others[k] = x
         /\ \A j, k \in 1..Len(others) : others[j] = others[k] => j = k
    BY <1>5 DEF Lists
  <1> HIDE DEF F, H, here, depth, around, known
  <1>14. /\ Len(H) = L + room /\ L \in Nat /\ room \in Nat /\ Len(H) \in 1..limit
         /\ \A j \in 1..L : H[j] = F[j]
         /\ \A k \in 1..room : /\ H[L + k].node = others[k] /\ H[L + k].depth = depth + 1
                               /\ k \in 1..Len(others)
         /\ \A j \in (L + 1)..Len(H) : \E k \in 1..room : j = L + k
    BY <1>3, <1>5, <1>7, <1>8 DEF Extends
  <1> HIDE DEF L
  <1>15. \A j \in 1..Len(H) : j \in 1..L \/ \E k \in 1..room : j = L + k
    BY <1>14
  <1>16. Placed(g, root, D, limit, near, H)
    <2>1. ASSUME NEW j \in 1..Len(H), NEW k \in 1..Len(H), H[j].node = H[k].node PROVE j = k
      <3>1. CASE j \in 1..L /\ k \in 1..L
        BY <2>1, <3>1, <1>11, <1>14
      <3>2. ASSUME NEW a \in 1..L, NEW b \in 1..room PROVE H[a].node # H[L + b].node
        BY <1>10, <1>13, <1>14
      <3>3. ASSUME NEW a \in 1..room, NEW b \in 1..room, j = L + a, k = L + b PROVE j = k
        <4>1. others[a] = others[b] /\ a \in 1..Len(others) /\ b \in 1..Len(others)
          BY <2>1, <3>3, <1>14
        <4> QED BY <3>3, <4>1, <1>13
      <3> QED BY <2>1, <1>15, <3>1, <3>2, <3>3
    <2>2. ASSUME NEW j \in 1..Len(H) PROVE H[j].node \in near[H[j].depth]
      <3>1. CASE j \in 1..L
        BY <3>1, <1>11, <1>14
      <3>2. ASSUME NEW k \in 1..room, j = L + k PROVE H[j].node \in near[H[j].depth]
        BY <3>2, <1>6, <1>13, <1>14
      <3> QED BY <1>15, <3>1, <3>2
    <2>3. ASSUME NEW j \in 1..Len(H)
          PROVE  H[j].depth \in Int /\ (j \notin 1..L => H[j].depth = depth + 1)
      <3>1. CASE j \in 1..L
        BY <3>1, <1>2, <1>14 DEF L
      <3>2. CASE j \notin 1..L
        <4>1. PICK k \in 1..room : j = L + k
          BY <1>15, <3>2
        <4>2. H[j].depth = depth + 1
          BY <1>14, <4>1
        <4> QED BY <1>4, <3>2, <4>2
      <3> QED BY <3>1, <3>2
    <2>4. ASSUME NEW j \in 1..Len(H), NEW k \in 1..Len(H), j <= k PROVE H[j].depth <= H[k].depth
      <3>1. CASE j \in 1..L /\ k \in 1..L
        BY <2>4, <3>1, <1>11, <1>14
      <3>2. CASE j \in 1..L /\ k \notin 1..L
        BY <2>3, <3>2, <1>12, <1>14
      <3>3. CASE j \notin 1..L /\ k \notin 1..L
        BY <2>3, <3>3, <1>4
      <3>4. j \in 1..L \/ k \notin 1..L
        BY <2>4, <1>14
      <3> QED BY <3>1, <3>2, <3>3, <3>4
    <2>5. H[1].node = root /\ H[1].depth = 0
      BY <1>3, <1>11, <1>14 DEF L
    <2> QED BY <1>7, <1>14, <2>1, <2>2, <2>4, <2>5 DEF Placed
  <1>17. ASSUME NEW j \in 1..Len(H) PROVE H[j].depth \in 0..D /\ H[j].depth <= depth + 1
    <2>1. CASE j \in 1..L
      BY <2>1, <1>2, <1>12, <1>14 DEF L
    <2>2. ASSUME NEW k \in 1..room, j = L + k PROVE H[j].depth \in 0..D /\ H[j].depth <= depth + 1
      <3>1. H[j].depth = depth + 1
        BY <1>14, <2>2
      <3> QED BY <1>4, <3>1
    <2> QED BY <1>15, <2>1, <2>2
  <1>18. NextIsFar(H, n + 1)
    <2> SUFFICES ASSUME n + 1 < Len(H), NEW j \in 1..Len(H)
                 PROVE  H[j].depth <= H[(n + 1) + 1].depth + 1
      BY DEF NextIsFar
    <2>1. PICK i : i = (n + 1) + 1
      OBVIOUS
    <2>2. i \in 1..Len(H) /\ n + 1 \in 1..Len(H) /\ n + 1 <= i /\ n + 1 \in 1..L
      BY <1>4, <1>14, <2>1 DEF L
    <2>3. H[n + 1].depth <= H[i].depth
      BY <1>16, <2>2 DEF Placed
    <2>4. H[n + 1].depth = depth
      BY <1>14, <2>2 DEF depth
    <2>5. H[j].depth <= depth + 1 /\ H[j].depth \in Int /\ H[i].depth \in Int /\ depth \in Int
      BY <1>17, <1>4, <2>2
    <2>6. H[j].depth <= H[i].depth + 1
      BY <2>3, <2>4, <2>5
    <2> QED BY <2>1, <2>6
  <1>19. ASSUME ~r.truncated PROVE TurnsAreDone(g, D, H, n + 1)
    <2>1. ~q.truncated /\ room = Len(others) /\ TurnsAreDone(g, D, F, n)
      BY <1>8, <1>9, <1>19
    <2>2. ASSUME NEW m \in around
          PROVE  \E j \in 1..Len(H) : H[j].node = m /\ H[j].depth <= depth + 1
      <3>1. CASE m \in known
        <4>1. PICK j \in 1..L : F[j].node = m
          BY <1>10, <3>1 DEF L
        <4>2. j \in 1..Len(H) /\ H[j] = F[j]
          BY <1>14
        <4> QED BY <1>17, <4>1, <4>2
      <3>2. CASE m \notin known
        <4>1. PICK k \in 1..room : others[k] = m
          BY <1>13, <2>1, <2>2, <3>2
        <4>2. L + k \in 1..Len(H)
          BY <1>14
        <4> QED BY <1>14, <1>17, <4>1, <4>2
      <3> QED BY <3>1, <3>2
    <2>3. ASSUME NEW i \in 1..Len(H), i <= n + 1, H[i].depth < D, NEW m \in Around(g, {H[i].node})
          PROVE  \E j \in 1..Len(H) : H[j].node = m /\ H[j].depth <= H[i].depth + 1
      <3>1. i \in 1..L /\ H[i] = F[i]
        BY <1>4, <1>14, <2>3 DEF L
      <3>2. CASE i = n + 1
        <4>1. H[i].depth = depth /\ m \in around
          BY <2>3, <3>1, <3>2 DEF depth, around, here
        <4> QED BY <2>2, <4>1
      <3>3. CASE i # n + 1
        <4>1. i <= n
          BY <2>3, <3>3
        <4>2. PICK j \in 1..L : F[j].node = m /\ F[j].depth <= F[i].depth + 1
          BY <2>1, <2>3, <3>1, <4>1 DEF TurnsAreDone, L
        <4>3. j \in 1..Len(H) /\ H[j] = F[j]
          BY <1>14
        <4> QED BY <3>1, <4>2, <4>3
      <3> QED BY <3>2, <3>3
    <2> QED BY <2>3 DEF TurnsAreDone
  <1>20. ASSUME r.truncated PROVE CutOff(D, limit, near, H)
    <2>1. CASE q.truncated
      <3>1. L = limit /\ \E m \in near[D] : \A j \in 1..L : F[j].node # m
        BY <1>9, <2>1 DEF CutOff, L
      <3>2. room = 0
        BY <1>8, <1>14, <3>1 DEF L
      <3>3. Len(H) = L
        BY <1>14, <3>2
      <3> QED BY <1>14, <3>1, <3>3 DEF CutOff
    <2>2. CASE ~q.truncated
      <3>1. room < Len(others) /\ room = limit - L
        BY <1>8, <1>20, <2>2
      <3>2. Len(H) = limit
        BY <1>14, <3>1
      <3>3. room + 1 \in 1..Len(others)
        BY <1>5, <1>14, <3>1
      <3> DEFINE m == others[room + 1]
      <3>4. m \in near[D]
        BY <1>6, <1>13, <3>3
      <3>5. ASSUME NEW j \in 1..Len(H) PROVE H[j].node # m
        <4>1. CASE j \in 1..L
          <5>1. F[j].node # m
            BY <1>10, <1>13, <3>3, <4>1 DEF L
          <5> QED BY <1>14, <4>1, <5>1
        <4>2. ASSUME NEW k \in 1..room, j = L + k PROVE H[j].node # m
          <5>1. k # room + 1 /\ k \in 1..Len(others)
            BY <1>14
          <5>2. others[k] # m
            BY <1>13, <3>3, <5>1
          <5> QED BY <1>14, <4>2, <5>2
        <4> QED BY <1>15, <4>1, <4>2
      <3> HIDE DEF m
      <3> QED BY <3>2, <3>4, <3>5 DEF CutOff
    <2> QED BY <2>1, <2>2
  <1> QED BY <1>16, <1>18, <1>19, <1>20 DEF Searched, H

\* Before the first turn the root has been found.
LEMMA SearchBegins ==
    ASSUME NEW g, NEW root \in g.node, NEW D \in Nat, NEW limit \in Nat \ {0},
           NEW near, Spreads(near, g, root, D),
           NEW q, q.found = <<[node |-> root, depth |-> 0]>>, q.truncated = FALSE
    PROVE  Searched(g, root, D, limit, near, q, 0)
  <1> DEFINE S == [node : g.node, depth : 0..D]
             first == [node |-> root, depth |-> 0]
             F == q.found
  <1>1. first \in S /\ first.node = root /\ first.depth = 0
    OBVIOUS
  <1>2. F = <<first>>
    OBVIOUS
  <1> HIDE DEF S, first, F
  <1>3. F \in Seq(S) /\ Len(F) = 1 /\ F[1] = first
    BY <1>1, <1>2
  <1>4. \A j \in 1..Len(F) : j = 1
    BY <1>3
  <1>5. Placed(g, root, D, limit, near, F)
    <2>1. F[1].node = root /\ F[1].depth = 0 /\ root \in near[0]
      BY <1>1, <1>3 DEF Spreads
    <2>2. Len(F) \in 1..limit
      BY <1>3
    <2>3. \A j, k \in 1..Len(F) : F[j].depth <= F[k].depth
      BY <1>4, <2>1
    <2>4. \A j \in 1..Len(F) : F[j].node \in near[F[j].depth]
      BY <1>4, <2>1
    <2> QED BY <1>3, <1>4, <2>1, <2>2, <2>3, <2>4 DEF Placed, S
  <1>6. NextIsFar(F, 0)
    <2>1. F[1].depth = 0
      BY <1>1, <1>3
    <2>2. \A j \in 1..Len(F) : F[j].depth <= F[1].depth + 1
      BY <1>4, <2>1
    <2>3. 0 + 1 = 1
      OBVIOUS
    <2> QED BY <2>2, <2>3 DEF NextIsFar
  <1>7. TurnsAreDone(g, D, F, 0)
    BY <1>3 DEF TurnsAreDone
  <1> QED BY <1>5, <1>6, <1>7 DEF Searched, F

LEMMA VisitKeepsSearch ==
    ASSUME NEW g, IsClosed(g), IsFiniteSet(g.node), NEW root, NEW D \in Nat, NEW limit \in Nat,
           NEW near, Spreads(near, g, root, D), Nearer(near, D),
           NEW q, NEW n \in Nat, Searched(g, root, D, limit, near, q, n)
    PROVE  Searched(g, root, D, limit, near, Visit(g, D, limit, q, n + 1), n + 1)
  <1>1. Placed(g, root, D, limit, near, q.found)
    BY DEF Searched
  <1>2. Len(q.found) \in 1..limit /\ \A j \in 1..Len(q.found) : q.found[j].depth \in 0..D
    BY <1>1, PlacesAreTyped DEF Placed
  <1>3. CASE n + 1 > Len(q.found) \/ ~(q.found[n + 1].depth < D)
    <2>1. n + 1 > Len(q.found) \/ q.found[n + 1].depth >= D
      <3>1. CASE n + 1 > Len(q.found)
        BY <3>1
      <3>2. CASE ~(n + 1 > Len(q.found))
        <4>1. n + 1 \in 1..Len(q.found)
          BY <1>2, <3>2
        <4>2. q.found[n + 1].depth \in 0..D
          BY <1>2, <4>1
        <4> QED BY <1>3, <3>2, <4>2
      <3> QED BY <3>1, <3>2
    <2>2. Visit(g, D, limit, q, n + 1) = q
      BY <2>1, Zenon DEF Visit
    <2> QED BY <1>3, <2>2, IdleTurn
  <1>4. CASE ~(n + 1 > Len(q.found)) /\ q.found[n + 1].depth < D
    <2>1. n + 1 \in 1..Len(q.found) /\ Len(q.found) \in 0..limit
      BY <1>2, <1>4
    <2>2. q.found[n + 1].depth \in Nat
      BY <1>2, <2>1
    <2>3. PICK others, room : Turned(g, D, limit, q, n + 1, Visit(g, D, limit, q, n + 1), others, room)
      BY <1>4, <2>1, <2>2, VisitDoes
    <2> QED BY <1>4, <2>1, <2>3, BusyTurn
  <1> QED BY <1>3, <1>4

LEMMA WalkSearches ==
    ASSUME NEW g, IsClosed(g), IsFiniteSet(g.node), NEW root \in g.node, NEW D \in Nat,
           NEW limit \in Nat \ {0}, NEW near, Spreads(near, g, root, D)
    PROVE  Searched(g, root, D, limit, near, Walk(g, root, D, limit, limit), limit)
  <1>1. PICK f : Turns(f, g, root, D, limit)
    <2>1. limit \in Nat
      OBVIOUS
    <2> QED BY <2>1, WalkGoes
  <1>2. Nearer(near, D)
    BY SpreadingGrows
  <1> DEFINE T == {n \in Nat : n <= limit => Searched(g, root, D, limit, near, f[n], n)}
  <1>3. 0 \in T
    <2>1. f[0].found = <<[node |-> root, depth |-> 0]>> /\ f[0].truncated = FALSE
      BY <1>1 DEF Turns
    <2>2. Searched(g, root, D, limit, near, f[0], 0)
      BY <2>1, SearchBegins
    <2> QED BY <2>2
  <1>4. ASSUME NEW n \in Nat, n \in T PROVE n + 1 \in T
    <2> SUFFICES ASSUME n + 1 <= limit PROVE Searched(g, root, D, limit, near, f[n + 1], n + 1)
      OBVIOUS
    <2>1. n <= limit /\ n + 1 \in 1..limit /\ (n + 1) - 1 = n /\ limit \in Nat
      OBVIOUS
    <2>2. Searched(g, root, D, limit, near, f[n], n)
      BY <1>4, <2>1
    <2>3. f[n + 1] = Visit(g, D, limit, f[n], n + 1)
      BY <1>1, <2>1 DEF Turns
    <2> QED BY <1>2, <2>1, <2>2, <2>3, VisitKeepsSearch
  <1>5. Nat \subseteq T
    <2> HIDE DEF T
    <2> QED BY <1>3, <1>4, SetInduction
  <1>6. limit \in Nat /\ Walk(g, root, D, limit, limit) = f[limit]
    BY <1>1 DEF Turns
  <1> QED BY <1>5, <1>6

\* Once every turn is over, all that is near has been found, or there was no
\* room for it.
SeenBy(q) == {q.found[j].node : j \in DOMAIN q.found}

LEMMA SearchIsExact ==
    ASSUME NEW g, NEW root, NEW D \in Nat, NEW limit \in Nat, NEW near,
           Spreads(near, g, root, D), Nearer(near, D),
           NEW q, Searched(g, root, D, limit, near, q, limit)
    PROVE  /\ SeenBy(q) \subseteq near[D] /\ Cardinality(SeenBy(q)) <= limit
           /\ ~q.truncated <=> SeenBy(q) = near[D]
  <1> DEFINE F == q.found
             seen == {F[j].node : j \in DOMAIN F}
  <1>1. Placed(g, root, D, limit, near, F)
    BY DEF Searched
  <1>2. /\ Len(F) \in 1..limit /\ DOMAIN F = 1..Len(F)
        /\ \A j \in 1..Len(F) : F[j].depth \in 0..D
    <2> DEFINE S == [node : g.node, depth : 0..D]
    <2>1. F \in Seq(S) /\ Len(F) \in 1..limit
      BY <1>1 DEF Placed
    <2>2. \A j \in 1..Len(F) : F[j].depth \in 0..D
      BY <1>1, PlacesAreTyped
    <2> HIDE DEF S, F
    <2>3. DOMAIN F = 1..Len(F)
      BY <2>1
    <2> QED BY <2>1, <2>2, <2>3
  <1>3. seen \subseteq near[D]
    BY <1>1, <1>2 DEF Placed, Nearer
  <1>4. IsFiniteSet(seen) /\ Cardinality(seen) <= limit
    <2> DEFINE L == Len(F)
               h == [j \in 1..L |-> F[j].node]
    <2>1. h \in Surjection(1..L, seen)
      BY <1>2 DEF Surjection
    <2>2. L \in Nat /\ L <= limit
      BY <1>2
    <2> HIDE DEF h, seen, L
    <2>3. IsFiniteSet(1..L) /\ Cardinality(1..L) = L
      BY <2>2, FS_Interval
    <2>4. IsFiniteSet(seen) /\ Cardinality(seen) <= Cardinality(1..L)
      BY <2>1, <2>3, FS_Surjection
    <2>5. Cardinality(seen) \in Nat
      BY <2>4, FS_CardinalityType
    <2> QED BY <2>2, <2>3, <2>4, <2>5
  <1>5. ASSUME q.truncated PROVE seen # near[D]
    <2>1. CutOff(D, limit, near, F)
      BY <1>5 DEF Searched
    <2> QED BY <1>2, <2>1 DEF CutOff
  <1>6. ASSUME ~q.truncated PROVE near[D] \subseteq seen
    <2>1. \A i \in 1..Len(F) : F[i].depth < D =>
             \A m \in Around(g, {F[i].node}) :
                \E j \in 1..Len(F) : F[j].node = m /\ F[j].depth <= F[i].depth + 1
      <3>1. TurnsAreDone(g, D, F, limit)
        BY <1>6 DEF Searched
      <3>2. \A i \in 1..Len(F) : i <= limit
        BY <1>2
      <3> QED BY <3>1, <3>2 DEF TurnsAreDone
    <2> DEFINE T == {d \in Nat : d <= D =>
                       \A m \in near[d] : \E j \in 1..Len(F) : F[j].node = m /\ F[j].depth <= d}
    <2>2. 0 \in T
      <3>1. \A m \in near[0] : m = root
        BY DEF Spreads
      <3>2. 1 \in 1..Len(F) /\ F[1].node = root /\ F[1].depth = 0
        BY <1>1, <1>2 DEF Placed
      <3> QED BY <3>1, <3>2
    <2>3. ASSUME NEW d \in Nat, d \in T PROVE d + 1 \in T
      <3> SUFFICES ASSUME d + 1 <= D, NEW m \in near[d + 1]
                   PROVE  \E j \in 1..Len(F) : F[j].node = m /\ F[j].depth <= d + 1
        OBVIOUS
      <3>1. d \in 0..D /\ d < D
        OBVIOUS
      <3>2. \A x \in near[d] : \E j \in 1..Len(F) : F[j].node = x /\ F[j].depth <= d
        BY <2>3, <3>1
      <3>3. near[d + 1] = near[d] \cup Around(g, near[d])
        BY <3>1 DEF Spreads
      <3>4. CASE m \in near[d]
        <4>1. PICK j \in 1..Len(F) : F[j].node = m /\ F[j].depth <= d
          BY <3>2, <3>4
        <4>2. F[j].depth <= d + 1
          BY <1>2, <4>1
        <4> QED BY <4>1, <4>2
      <3>5. CASE m \in Around(g, near[d])
        <4>1. PICK x \in near[d] : m \in Around(g, {x})
          BY <3>5 DEF Around
        <4>2. PICK i \in 1..Len(F) : F[i].node = x /\ F[i].depth <= d
          BY <3>2
        <4>3. F[i].depth \in 0..D /\ F[i].depth < D
          BY <1>2, <3>1, <4>2
        <4>4. PICK j \in 1..Len(F) : F[j].node = m /\ F[j].depth <= F[i].depth + 1
          BY <2>1, <4>1, <4>2, <4>3
        <4>5. F[j].depth <= d + 1
          BY <1>2, <4>2, <4>3, <4>4
        <4> QED BY <4>4, <4>5
      <3> QED BY <3>3, <3>4, <3>5
    <2>4. Nat \subseteq T
      <3> HIDE DEF T
      <3> QED BY <2>2, <2>3, SetInduction
    <2>5. \A m \in near[D] : \E j \in 1..Len(F) : F[j].node = m
      BY <2>4
    <2> QED BY <1>2, <2>5
  <1>7. SeenBy(q) = seen
    BY DEF SeenBy
  <1> QED BY <1>3, <1>4, <1>5, <1>6, <1>7

\* Of a graph without loose ends, neighborhood() shows what is near and says so
\* when that is not all, whatever the depth and the limit.
LEMMA NearIsShown ==
    ASSUME NEW g, IsClosed(g), IsFiniteSet(g.node), NEW root \in g.node, NEW D \in Nat,
           NEW limit \in Nat \ {0}
    PROVE  ShowsWhatIsNear(g, root, D, limit)
  <1>1. PICK near : Spreads(near, g, root, D) /\ Within(g, root, D) = near[D]
    BY WithinSpreads
  <1> DEFINE q == Walk(g, root, D, limit, limit)
             seen == SeenBy(q)
             shown == Neighborhood(g, root, D, limit)
  <1>2. shown = [node |-> seen, edge |-> {e \in q.kept : Ends(e) \subseteq seen},
                 truncated |-> q.truncated]
    BY Zenon DEF Neighborhood, SeenBy
  <1>3. shown.node = seen /\ shown.truncated = q.truncated
    BY <1>2
  <1>4. Searched(g, root, D, limit, near, q, limit) /\ limit \in Nat
    BY <1>1, WalkSearches
  <1> HIDE DEF q, shown
  <1>5. /\ seen \subseteq near[D] /\ Cardinality(seen) <= limit
        /\ ~q.truncated <=> seen = near[D]
    <2>1. Nearer(near, D)
      BY <1>1, SpreadingGrows
    <2>2. Spreads(near, g, root, D)
      BY <1>1
    <2> QED BY <1>4, <2>1, <2>2, SearchIsExact
  <1> HIDE DEF seen
  <1>6. /\ shown.node \subseteq Within(g, root, D) /\ Cardinality(shown.node) <= limit
        /\ ~shown.truncated <=> shown.node = Within(g, root, D)
    BY <1>1, <1>3, <1>5
  <1> QED BY <1>6, Zenon DEF ShowsWhatIsNear, shown

LEMMA GraphsAreClosed == Inv /\ SourcesOK => GraphsCanBeWalked
  <1> SUFFICES ASSUME Inv, SourcesOK, NEW s \in Built
               PROVE  /\ IsClosed(GraphOf(s))
                      /\ \A n \in GraphOf(s).node : ShowsWhatIsNear(GraphOf(s), n, 2, 6)
    BY DEF GraphsCanBeWalked
  <1>1. PICK g : g = GraphOf(s)
    OBVIOUS
  <1>2. IsClosed(g) /\ IsFiniteSet(g.node)
    BY <1>1, GraphHolds
  <1>3. ASSUME NEW n \in g.node PROVE ShowsWhatIsNear(g, n, 2, 6)
    BY <1>2, NearIsShown
  <1> QED BY <1>1, <1>2, <1>3

\* However torn a snapshot is, no edge of build_graph() leads out of its graph,
\* and neighborhood() shows what is near or says that there is more.
THEOREM GraphsAreWalkable == Spec => []GraphsCanBeWalked
  <1> QED BY GraphsAreClosed, Invariance, SourcesInvariance, PTL

=============================================================================
