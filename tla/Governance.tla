----------------------------- MODULE Governance -----------------------------
(***************************************************************************)
(* The governed path by which detection and bulk policy change             *)
(* (src/asas/evolution/governance.py), one action per store access.        *)
(*                                                                         *)
(* A call (seed, create, record_step, submit, reject, approve, rollback)   *)
(* is a sequence of store transactions. Each transaction is atomic (the    *)
(* store serialises its writers), but nothing spans two of them, so calls  *)
(* made by several API worker threads or by the CLI interleave between     *)
(* them, and a call may stop after any of them (a crash, a storage error). *)
(*                                                                         *)
(* The store keeps the first payload written under a (kind, key, version), *)
(* accepts the same payload again and refuses another one                  *)
(* (ImmutableRecordError). Events, activations, bundles and the candidates *)
(* people propose carry the time of the call, so two calls never write the *)
(* same payload under one key. What discovery proposes carries the time of *)
(* its snapshot instead: two runs over one snapshot write the same         *)
(* candidate, runs over two snapshots different ones under one id.         *)
(***************************************************************************)
EXTENDS Naturals, Sequences

CONSTANTS
    Threads,         \* API worker threads and CLI processes making calls
    Principals,      \* identities that call the service
    Investigators,   \* principals holding the investigator role
    Approvers,       \* principals holding the approver role (or admin)
    Services,        \* principals holding the service role and not admin
    Agents,          \* agent:* identities
    Candidates,      \* candidate ids
    ProposedBy,      \* ProposedBy[c]: who proposes c; the id of c is a hash that covers it
    Slots,           \* what a candidate replaces: a rule id or a bulk scope
    SlotOf,          \* SlotOf[c] is the rule id or the bulk scope of candidate c
    NoBundle,        \* the value of a bundle version that is not stored
    FourEyesOn,      \* governance.four_eyes in config/asas.toml
    MayFail,         \* calls may stop between two of their store accesses
    OutOfTurn,       \* bound: the evidence that is also computed out of turn
    MaxVersion,      \* bound: policy bundle versions
    MaxEvents,       \* bound: no transition starts from a longer candidate history
    MaxActivations   \* bound: no rollback starts from a longer activation history

Nobody == "nobody"           \* no actor: the caller slot of an idle thread
Seeder == "seed"             \* the actor recorded by seed()
NoCandidate == "none"

ASSUME GovernanceAssumption ==
    /\ Investigators \subseteq Principals
    /\ Approvers \subseteq Principals
    /\ Services \subseteq Principals
    /\ Agents \subseteq Principals
    /\ ProposedBy \in [Candidates -> Principals]
    /\ Nobody \notin Principals /\ Seeder \notin Principals
    /\ NoCandidate \notin Candidates
    /\ SlotOf \in [Candidates -> Slots]
    /\ FourEyesOn \in BOOLEAN /\ MayFail \in BOOLEAN
    /\ MaxVersion \in Nat \ {0}
    /\ MaxEvents \in Nat /\ MaxActivations \in Nat

VARIABLES
    created,      \* ids of the stored candidates
    events,       \* events[c]: the candidate_event history of c, oldest first
    reports,      \* stored evidence reports, as <<candidate, state reported>>
    bundles,      \* bundles[v]: the policy_bundle artifact of version v
    activations,  \* the history of activation/production; the last one is active
    audited,      \* <<candidate, n>> when event n of the candidate is in the audit log
    pc,           \* pc[t]: the store access thread t performs next
    call          \* call[t]: arguments and locals of the call thread t is making

vars == <<created, events, reports, bundles, activations, audited, pc, call>>

-----------------------------------------------------------------------------
(* The candidate lifecycle: CandidateState and the table ALLOWED. *)

States == {"DRAFT", "REPLAYED", "COUNTEREXAMPLES_PASSED", "COUNTEREXAMPLES_FAILED",
           "SHADOW_PASSED", "SHADOW_FAILED", "AWAITING_APPROVAL", "RELEASED", "REJECTED"}

Allowed ==
    [s \in States |->
        CASE s = "DRAFT" -> {"REPLAYED", "REJECTED"}
          [] s = "REPLAYED" ->
                {"COUNTEREXAMPLES_PASSED", "COUNTEREXAMPLES_FAILED", "REJECTED"}
          [] s = "COUNTEREXAMPLES_PASSED" ->
                {"SHADOW_PASSED", "SHADOW_FAILED", "REJECTED"}
          [] s \in {"COUNTEREXAMPLES_FAILED", "SHADOW_FAILED"} -> {"REJECTED"}
          [] s = "SHADOW_PASSED" -> {"AWAITING_APPROVAL", "REJECTED"}
          [] s = "AWAITING_APPROVAL" -> {"RELEASED", "REJECTED"}
          [] OTHER -> {}]

\* The states a replay, a counterexample attack or a shadow run can report.
EvidenceStates == {"REPLAYED", "COUNTEREXAMPLES_PASSED", "COUNTEREXAMPLES_FAILED",
                   "SHADOW_PASSED", "SHADOW_FAILED"}

\* The outcomes one evidence run can have: the two verdicts share a report kind.
SameEvidence(s) ==
    CASE s = "REPLAYED" -> {"REPLAYED"}
      [] s \in {"COUNTEREXAMPLES_PASSED", "COUNTEREXAMPLES_FAILED"} ->
            {"COUNTEREXAMPLES_PASSED", "COUNTEREXAMPLES_FAILED"}
      [] OTHER -> {"SHADOW_PASSED", "SHADOW_FAILED"}

\* The principals _human() lets through.
Humans == Principals \ (Agents \cup Services)

\* What discovery proposes (propose() refuses agents): candidates that carry the
\* time of a snapshot, not of the call.
Discovered == {c \in Candidates : ProposedBy[c] \in Agents}

Actors == Principals \cup {Seeder}
Versions == 1..MaxVersion

\* What a policy holds in each slot: the candidate whose release put it there,
\* or the content it was seeded with.
Policies == [Slots -> Candidates \cup {NoCandidate}]
SeededPolicy == [s \in Slots |-> NoCandidate]

Bundles == [parent : 0..MaxVersion, source : Candidates \cup {NoCandidate},
            by : Actors, policy : Policies]

ASSUME NoBundleAssumption == NoBundle \notin Bundles

Last(s) == s[Len(s)]

State(c) == Last(events[c]).state

ActiveVersion == Last(activations).bundle

\* Bound: transitions start only from histories shorter than MaxEvents.
Room(c) == Len(events[c]) < MaxEvents

-----------------------------------------------------------------------------
(* Calls in progress. *)

Steps == {"idle", "seed_put", "create_put", "report_put", "approve_submitter",
          "approve_parent", "bundle_put", "event_check", "event_seq", "event_put",
          "event_audit", "activate_seq", "activate_put", "activate_audit",
          "rollback_audit"}

Calls == [op : {"none", "seed", "create", "evidence", "submit", "reject", "approve",
                "rollback"},
          actor : Actors \cup {Nobody}, cand : Candidates \cup {NoCandidate},
          to : States, ver : 0..MaxVersion, seq : Nat]

NoCall == [op |-> "none", actor |-> Nobody, cand |-> NoCandidate,
           to |-> "DRAFT", ver |-> 0, seq |-> 0]

Begin(t, c, step) ==
    /\ call' = [call EXCEPT ![t] = c]
    /\ pc' = [pc EXCEPT ![t] = step]

Goto(t, step) ==
    /\ pc' = [pc EXCEPT ![t] = step]
    /\ UNCHANGED call

\* The call returns or raises: its locals are gone.
Return(t) ==
    /\ pc' = [pc EXCEPT ![t] = "idle"]
    /\ call' = [call EXCEPT ![t] = NoCall]

store == <<created, events, reports, bundles, activations, audited>>

Init ==
    /\ created = {}
    /\ events = [c \in Candidates |-> << >>]
    /\ reports = {}
    /\ bundles = [v \in Versions |-> NoBundle]
    /\ activations = << >>
    /\ audited = {}
    /\ pc = [t \in Threads |-> "idle"]
    /\ call = [t \in Threads |-> NoCall]

-----------------------------------------------------------------------------
(* seed(): the first policy bundle, unless one is active. *)

SeedRead(t) ==
    /\ pc[t] = "idle"
    /\ activations = << >>
    /\ Begin(t, [NoCall EXCEPT !.op = "seed", !.actor = Seeder, !.ver = 1], "seed_put")
    /\ UNCHANGED store

SeedPut(t) ==
    /\ pc[t] = "seed_put"
    /\ \/ /\ bundles[1] = NoBundle
          /\ bundles' = [bundles EXCEPT ![1] =
                [parent |-> 0, source |-> NoCandidate, by |-> Seeder,
                 policy |-> SeededPolicy]]
          /\ Goto(t, "activate_seq")
       \/ /\ bundles[1] # NoBundle
          /\ Return(t)
          /\ UNCHANGED bundles
    /\ UNCHANGED <<created, events, reports, activations, audited>>

-----------------------------------------------------------------------------
(* create(): a candidate that get_model() does not find is stored and enters *)
(* as DRAFT; no transition is checked. Its callers, propose() and            *)
(* discover(), need an active bundle to build on. A call that finds nothing  *)
(* while another one stores the candidate is refused when its payload        *)
(* differs, and goes on to write a second DRAFT event when it is the same,   *)
(* whatever has become of the candidate in the meantime.                     *)

CreateRead(t, c) ==
    /\ pc[t] = "idle"
    /\ activations # << >>
    /\ c \notin created
    /\ Begin(t, [NoCall EXCEPT !.op = "create", !.actor = ProposedBy[c], !.cand = c],
             "create_put")
    /\ UNCHANGED store

CreatePut(t) ==
    /\ pc[t] = "create_put"
    /\ \/ /\ call[t].cand \notin created
          /\ created' = created \cup {call[t].cand}
          /\ Goto(t, "event_seq")
       \/ /\ call[t].cand \in created
          /\ \/ call[t].cand \in Discovered /\ Goto(t, "event_seq")
             \/ Return(t)
          /\ UNCHANGED created
    /\ UNCHANGED <<events, reports, bundles, activations, audited>>

-----------------------------------------------------------------------------
(* record_step(): the report is stored first, then the transition. The id  *)
(* of a report is a hash of the rule or scope and of the window it was     *)
(* computed over, so recomputing it over relabelled history can meet its   *)
(* own id with other content, which the store refuses.                     *)

EvidenceBegin(t, p, c, s) ==
    /\ pc[t] = "idle"
    /\ p \in Investigators \cup Approvers \cup Services
    /\ c \in created
    /\ Room(c)
    /\ s \in OutOfTurn \/ (events[c] # << >> /\ s \in Allowed[State(c)])
    /\ Begin(t, [NoCall EXCEPT !.op = "evidence", !.actor = p, !.cand = c, !.to = s],
             "report_put")
    /\ UNCHANGED store

\* Mutant: the transition is recorded without storing its report.
ReportSkipped(t) ==
    /\ pc[t] = "report_put"
    /\ Goto(t, "event_check")
    /\ UNCHANGED store

ReportPut(t) ==
    LET c == call[t].cand
        s == call[t].to
    IN  /\ pc[t] = "report_put"
        /\ \/ /\ reports' = reports \cup {<<c, s>>}
              /\ Goto(t, "event_check")
           \/ /\ \E r \in SameEvidence(s) : <<c, r>> \in reports
              /\ Return(t)
              /\ UNCHANGED reports
        /\ UNCHANGED <<created, events, bundles, activations, audited>>

-----------------------------------------------------------------------------
(* submit() and reject(): require_role, _human, then one transition. *)

SubmitBegin(t, p, c) ==
    /\ pc[t] = "idle"
    /\ p \in (Investigators \cup Approvers) \cap Humans
    /\ c \in created
    /\ Room(c)
    /\ Begin(t, [NoCall EXCEPT !.op = "submit", !.actor = p, !.cand = c,
                               !.to = "AWAITING_APPROVAL"], "event_check")
    /\ UNCHANGED store

RejectBegin(t, p, c) ==
    /\ pc[t] = "idle"
    /\ p \in Approvers \cap Humans
    /\ c \in created
    /\ Room(c)
    /\ Begin(t, [NoCall EXCEPT !.op = "reject", !.actor = p, !.cand = c,
                               !.to = "REJECTED"], "event_check")
    /\ UNCHANGED store

-----------------------------------------------------------------------------
(* approve(): require_role, _human, the state, the latest submitter, the   *)
(* active bundle as parent, the new bundle, the transition, the activation. *)

\* Mutant: a candidate whose gates are passed needs no submission (the
\* transition is checked later anyway).
ApproveUnsubmitted(t, p, c) ==
    /\ pc[t] = "idle"
    /\ p \in Approvers \cap Humans
    /\ events[c] # << >>
    /\ State(c) \in {"SHADOW_PASSED", "AWAITING_APPROVAL"}
    /\ Room(c)
    /\ Begin(t, [NoCall EXCEPT !.op = "approve", !.actor = p, !.cand = c,
                               !.to = "RELEASED"],
             IF State(c) = "SHADOW_PASSED" THEN "approve_parent" ELSE "approve_submitter")
    /\ UNCHANGED store

ApproveBegin(t, p, c) ==
    /\ pc[t] = "idle"
    /\ p \in Approvers \cap Humans
    /\ events[c] # << >>
    /\ State(c) = "AWAITING_APPROVAL"
    /\ Room(c)
    /\ Begin(t, [NoCall EXCEPT !.op = "approve", !.actor = p, !.cand = c,
                               !.to = "RELEASED"], "approve_submitter")
    /\ UNCHANGED store

\* Mutant: the submitter is never compared with the approver.
SubmitterIgnored(t) ==
    /\ pc[t] = "approve_submitter"
    /\ Goto(t, "approve_parent")
    /\ UNCHANGED store

ApproveSubmitter(t) ==
    LET h == events[call[t].cand]
    IN  /\ pc[t] = "approve_submitter"
        /\ \E n \in DOMAIN h :
              /\ h[n].state = "AWAITING_APPROVAL"
              /\ \A m \in DOMAIN h : h[m].state = "AWAITING_APPROVAL" => m <= n
              /\ IF FourEyesOn /\ h[n].actor = call[t].actor
                 THEN Return(t)
                 ELSE Goto(t, "approve_parent")
        /\ UNCHANGED store

\* Bound: no version above MaxVersion, where the call waits forever.
ApproveParent(t) ==
    /\ pc[t] = "approve_parent"
    /\ ActiveVersion < MaxVersion
    /\ Begin(t, [call[t] EXCEPT !.ver = ActiveVersion + 1], "bundle_put")
    /\ UNCHANGED store

\* The parent's policy with the candidate's slot replaced.
Merged(v, c) == [bundles[v].policy EXCEPT ![SlotOf[c]] = c]

\* Mutant: the store overwrites a version that is already there.
BundleOverwritten(t) ==
    LET v == call[t].ver
        c == call[t].cand
    IN  /\ pc[t] = "bundle_put"
        /\ bundles' = [bundles EXCEPT ![v] =
              [parent |-> v - 1, source |-> c, by |-> call[t].actor,
               policy |-> Merged(v - 1, c)]]
        /\ Goto(t, "event_check")
        /\ UNCHANGED <<created, events, reports, activations, audited>>

\* Mutant: the release event is recorded before the bundle is stored.
BundleSkipped(t) ==
    /\ pc[t] = "bundle_put"
    /\ Goto(t, "event_check")
    /\ UNCHANGED store

BundlePut(t) ==
    LET v == call[t].ver
        c == call[t].cand
    IN  /\ pc[t] = "bundle_put"
        /\ \/ /\ bundles[v] = NoBundle
              /\ bundles' = [bundles EXCEPT ![v] =
                    [parent |-> v - 1, source |-> c, by |-> call[t].actor,
                     policy |-> Merged(v - 1, c)]]
              /\ Goto(t, "event_check")
           \/ /\ bundles[v] # NoBundle
              /\ Return(t)
              /\ UNCHANGED bundles
        /\ UNCHANGED <<created, events, reports, activations, audited>>

-----------------------------------------------------------------------------
(* _event(): the transition is checked, the next sequence number is read,  *)
(* the event is written under it, and the audit entry follows. The three   *)
(* reads and writes are separate transactions.                             *)

\* Mutant: _event() does not look the transition up in ALLOWED.
EventUnchecked(t) ==
    /\ pc[t] = "event_check"
    /\ IF events[call[t].cand] # << >> THEN Goto(t, "event_seq") ELSE Return(t)
    /\ UNCHANGED store

EventCheck(t) ==
    LET h == events[call[t].cand]
    IN  /\ pc[t] = "event_check"
        /\ IF h # << >> /\ call[t].to \in Allowed[Last(h).state]
           THEN Goto(t, "event_seq")
           ELSE Return(t)
        /\ UNCHANGED store

EventSeq(t) ==
    /\ pc[t] = "event_seq"
    /\ Begin(t, [call[t] EXCEPT !.seq = Len(events[call[t].cand]) + 1], "event_put")
    /\ UNCHANGED store

EventPut(t) ==
    LET c == call[t].cand
    IN  /\ pc[t] = "event_put"
        /\ \/ /\ call[t].seq = Len(events[c]) + 1
              /\ events' = [events EXCEPT ![c] =
                    Append(@, [state |-> call[t].to, actor |-> call[t].actor])]
              /\ Goto(t, "event_audit")
           \/ /\ call[t].seq # Len(events[c]) + 1
              /\ Return(t)
              /\ UNCHANGED events
        /\ UNCHANGED <<created, reports, bundles, activations, audited>>

EventAudit(t) ==
    /\ pc[t] = "event_audit"
    /\ audited' = audited \cup {<<call[t].cand, call[t].seq>>}
    /\ IF call[t].op = "approve" THEN Goto(t, "activate_seq") ELSE Return(t)
    /\ UNCHANGED <<created, events, reports, bundles, activations>>

-----------------------------------------------------------------------------
(* rollback() and _activate(): the next sequence number of the activation  *)
(* history is read, the entry is written under it, the audit entry follows. *)

\* Mutant: rollback() does not look the bundle up first.
RollbackUnknown(t, p, v) ==
    /\ pc[t] = "idle"
    /\ p \in Approvers \cap Humans
    /\ Len(activations) < MaxActivations
    /\ Begin(t, [NoCall EXCEPT !.op = "rollback", !.actor = p, !.ver = v],
             "activate_seq")
    /\ UNCHANGED store

\* Mutant: the _human() check is missing.
RollbackByAnyone(t, p, v) ==
    /\ pc[t] = "idle"
    /\ p \in Approvers
    /\ bundles[v] # NoBundle
    /\ Len(activations) < MaxActivations
    /\ Begin(t, [NoCall EXCEPT !.op = "rollback", !.actor = p, !.ver = v],
             "activate_seq")
    /\ UNCHANGED store

RollbackBegin(t, p, v) ==
    /\ pc[t] = "idle"
    /\ p \in Approvers \cap Humans
    /\ bundles[v] # NoBundle
    /\ Len(activations) < MaxActivations
    /\ Begin(t, [NoCall EXCEPT !.op = "rollback", !.actor = p, !.ver = v],
             "activate_seq")
    /\ UNCHANGED store

ActivateSeq(t) ==
    /\ pc[t] = "activate_seq"
    /\ Begin(t, [call[t] EXCEPT !.seq = Len(activations) + 1], "activate_put")
    /\ UNCHANGED store

\* "via" records which operation wrote the entry: the code keeps it only in
\* the audit log (ROLLBACK); the properties need it next to the entry.
ActivatePut(t) ==
    /\ pc[t] = "activate_put"
    /\ \/ /\ call[t].seq = Len(activations) + 1
          /\ activations' = Append(activations,
                [bundle |-> call[t].ver, actor |-> call[t].actor, via |-> call[t].op])
          /\ Goto(t, "activate_audit")
       \/ /\ call[t].seq # Len(activations) + 1
          /\ Return(t)
          /\ UNCHANGED activations
    /\ UNCHANGED <<created, events, reports, bundles, audited>>

\* ACTIVATE_BUNDLE, and after it ROLLBACK for a rollback, go to the audit log.
ActivateAudit(t) ==
    /\ pc[t] = "activate_audit"
    /\ IF call[t].op = "rollback" THEN Goto(t, "rollback_audit") ELSE Return(t)
    /\ UNCHANGED store

RollbackAudit(t) ==
    /\ pc[t] = "rollback_audit"
    /\ Return(t)
    /\ UNCHANGED store

-----------------------------------------------------------------------------
\* The process dies, or the store raises, between two accesses of the call.
Fail(t) ==
    /\ MayFail
    /\ pc[t] # "idle"
    /\ Return(t)
    /\ UNCHANGED store

BeginCall(t) ==
    \/ SeedRead(t)
    \/ \E c \in Candidates : CreateRead(t, c)
    \/ \E p \in Principals, c \in Candidates :
          \/ \E s \in EvidenceStates : EvidenceBegin(t, p, c, s)
          \/ SubmitBegin(t, p, c)
          \/ RejectBegin(t, p, c)
          \/ ApproveBegin(t, p, c)
    \/ \E p \in Principals, v \in Versions : RollbackBegin(t, p, v)

Continue(t) ==
    \/ SeedPut(t) \/ CreatePut(t) \/ ReportPut(t)
    \/ ApproveSubmitter(t) \/ ApproveParent(t) \/ BundlePut(t)
    \/ EventCheck(t) \/ EventSeq(t) \/ EventPut(t) \/ EventAudit(t)
    \/ ActivateSeq(t) \/ ActivatePut(t) \/ ActivateAudit(t) \/ RollbackAudit(t)

Next == \E t \in Threads : BeginCall(t) \/ Continue(t) \/ Fail(t)

Spec == Init /\ [][Next]_vars

-----------------------------------------------------------------------------
(* Properties. *)

\* The states candidate c has been through.
Reached(c) == {events[c][n].state : n \in DOMAIN events[c]}

Event == [state : States, actor : Actors]
Activation == [bundle : Versions, actor : Actors, via : {"seed", "approve", "rollback"}]

\* Types, and nothing stored refers to what is not stored: an audit entry to an
\* event, a report to a candidate, a bundle to its parent, an activation to a
\* bundle.
TypeOK ==
    /\ created \subseteq Candidates
    /\ events \in [Candidates -> Seq(Event)]
    /\ reports \subseteq created \X EvidenceStates
    /\ bundles \in [Versions -> Bundles \cup {NoBundle}]
    /\ activations \in Seq(Activation)
    /\ pc \in [Threads -> Steps]
    /\ call \in [Threads -> Calls]
    /\ \A c \in Candidates : events[c] # << >> => c \in created
    /\ \A a \in audited : a[1] \in Candidates /\ a[2] \in DOMAIN events[a[1]]
    /\ \A v \in Versions :
          bundles[v] # NoBundle /\ v > 1 => bundles[v - 1] # NoBundle
    /\ \A i \in DOMAIN activations : bundles[activations[i].bundle] # NoBundle

\* Every event but DRAFT has an earlier event of the same candidate from which
\* ALLOWED leads to it. (The state just before it may be another one: see
\* TerminalIsFinal.)
EventsAreJustified ==
    \A c \in Candidates : \A n \in DOMAIN events[c] :
        events[c][n].state # "DRAFT" =>
            \E m \in 1..(n - 1) : events[c][n].state \in Allowed[events[c][m].state]

\* The DRAFT event of create(), which nothing checks, is the first and only one
\* of a candidate a person proposed. One that two discoveries over the same
\* snapshot store at once may get a second DRAFT event after any other.
HistoriesStartOnce ==
    \A c \in Candidates \ Discovered : \A n \in DOMAIN events[c] :
        events[c][n].state = "DRAFT" <=> n = 1

\* Nobody skips evidence, whatever two threads race on (the check in _event()
\* and the look-up before put_artifact() in create()).
EventsFollowEvidence == EventsAreJustified /\ HistoriesStartOnce

\* record_step() stores the report before the transition it justifies: an
\* evidence event never exists without its report, even after a crash.
EvidenceIsStored ==
    \A c \in Candidates : \A n \in DOMAIN events[c] :
        events[c][n].state \in EvidenceStates => <<c, events[c][n].state>> \in reports

\* Agents and service principals never submit, reject, release, roll back or
\* sign a bundle, whatever roles they hold (_human in submit, reject, approve
\* and rollback).
OnlyHumansGovern ==
    /\ \A v \in Versions :
          bundles[v] # NoBundle /\ bundles[v].source # NoCandidate =>
              bundles[v].by \in Humans \cap Approvers
    /\ \A c \in Candidates : \A n \in DOMAIN events[c] :
          events[c][n].state \in {"AWAITING_APPROVAL", "REJECTED", "RELEASED"} =>
              events[c][n].actor \in Humans
    /\ \A i \in DOMAIN activations :
          activations[i].via # "seed" => activations[i].actor \in Humans \cap Approvers

\* Four eyes: a release, and every stored bundle that a candidate went into
\* (released or not: a rollback can activate it), has a submission by somebody
\* other than the approver who signed it.
FourEyes ==
    FourEyesOn =>
        /\ \A c \in Candidates : \A n \in DOMAIN events[c] :
              events[c][n].state = "RELEASED" =>
                  \E m \in 1..(n - 1) :
                      /\ events[c][m].state = "AWAITING_APPROVAL"
                      /\ events[c][m].actor # events[c][n].actor
        /\ \A v \in Versions :
              bundles[v] # NoBundle /\ bundles[v].source # NoCandidate =>
                  \E m \in DOMAIN events[bundles[v].source] :
                      /\ events[bundles[v].source][m].state = "AWAITING_APPROVAL"
                      /\ events[bundles[v].source][m].actor # bundles[v].by

\* What a policy in production was made of: every candidate in it, however it
\* got there (its own release, a later bundle built on it, a rollback to a
\* bundle whose release failed halfway), passed every gate and was submitted.
ProductionHasEvidence ==
    \A i \in DOMAIN activations, s \in Slots :
        LET c == bundles[activations[i].bundle].policy[s]
        IN  c # NoCandidate =>
                {"DRAFT", "REPLAYED", "COUNTEREXAMPLES_PASSED", "SHADOW_PASSED",
                 "AWAITING_APPROVAL"} \subseteq Reached(c)

\* A release event is never recorded for a bundle that is not there: approve()
\* stores the bundle first, and its approver signed both.
ReleasedHasBundle ==
    \A c \in Candidates : \A n \in DOMAIN events[c] :
        events[c][n].state = "RELEASED" =>
            \E v \in Versions :
                /\ bundles[v] # NoBundle
                /\ bundles[v].source = c
                /\ bundles[v].by = events[c][n].actor

\* Two approvals never lose each other's change: as long as nobody rolls back,
\* each activated policy is the one it replaces with one slot changed, that of
\* the candidate it released. The bundle id, derived from the version of the
\* parent that was read, acts as an optimistic lock.
NoLostRelease ==
    (\A i \in DOMAIN activations : activations[i].via # "rollback") =>
        \A i \in DOMAIN activations \ {1} :
            LET new == bundles[activations[i].bundle]
                old == bundles[activations[i - 1].bundle]
            IN  \A s \in Slots :
                    new.policy[s] = IF s = SlotOf[new.source] THEN new.source
                                                              ELSE old.policy[s]

-----------------------------------------------------------------------------
(* What the documentation promises and the code does not keep.             *)

\* ALLOWED gives REJECTED and RELEASED no successor: they end a history.
TerminalIsFinal ==
    \A c \in Candidates : \A n \in DOMAIN events[c] :
        events[c][n].state \in {"REJECTED", "RELEASED"} => n = Len(events[c])

-----------------------------------------------------------------------------
(* Why the properties hold: what every call in progress may rely on, and   *)
(* what every stored bundle may rely on (the inductive invariant).         *)

EventSteps == {"event_check", "event_seq", "event_put", "event_audit"}
ActivateSteps == {"activate_seq", "activate_put", "activate_audit"}

\* The steps of each kind of call.
StepsOf(op) ==
    CASE op = "none" -> {"idle"}
      [] op = "seed" -> {"seed_put"} \cup ActivateSteps
      [] op = "create" -> {"create_put"} \cup (EventSteps \ {"event_check"})
      [] op = "evidence" -> {"report_put"} \cup EventSteps
      [] op \in {"submit", "reject"} -> EventSteps
      [] op = "approve" -> {"approve_submitter", "approve_parent", "bundle_put"}
                               \cup EventSteps \cup ActivateSteps
      [] op = "rollback" -> ActivateSteps \cup {"rollback_audit"}

\* What each kind of call asks for, and who may ask for it.
ArgumentsOK(k) ==
    /\ k.op = "seed" => k.actor = Seeder /\ k.ver = 1
    /\ k.op \in {"create", "evidence"} => k.actor \in Principals
    /\ k.op \in {"submit", "reject", "approve", "rollback"} => k.actor \in Humans
    /\ k.op \in {"approve", "rollback"} => k.actor \in Approvers
    /\ k.op = "create" => k.cand \in Candidates /\ activations # << >>
    /\ k.op \in {"evidence", "submit", "reject", "approve"} => k.cand \in created
    /\ k.op = "create" => k.to = "DRAFT"
    /\ k.op = "evidence" => k.to \in EvidenceStates
    /\ k.op = "submit" => k.to = "AWAITING_APPROVAL"
    /\ k.op = "reject" => k.to = "REJECTED"
    /\ k.op = "approve" => k.to = "RELEASED"

\* Some event of c is one from which ALLOWED leads to s.
Justified(c, s) ==
    \E m \in DOMAIN events[c] : s \in Allowed[events[c][m].state]

SubmittedByAnother(c, a) ==
    \E m \in DOMAIN events[c] :
        events[c][m].state = "AWAITING_APPROVAL" /\ events[c][m].actor # a

WasSubmitted(c) == "AWAITING_APPROVAL" \in Reached(c)

\* What the call has established when it gets to step s.
ProgressOK(k, s) ==
    /\ k.op = "create" /\ s # "create_put" => k.cand \in created
    /\ k.op = "evidence" /\ s # "report_put" => <<k.cand, k.to>> \in reports
    /\ k.op # "create" /\ s \in {"event_seq", "event_put"} => Justified(k.cand, k.to)
    /\ s = "event_audit" => k.seq \in DOMAIN events[k.cand]
    /\ k.op = "approve" => WasSubmitted(k.cand)
    /\ k.op = "approve" /\ s # "approve_submitter" /\ FourEyesOn =>
          SubmittedByAnother(k.cand, k.actor)
    /\ s = "bundle_put" =>
          k.ver \in Versions /\ k.ver > 1 /\ bundles[k.ver - 1] # NoBundle
    /\ k.op = "approve" /\ s \in EventSteps \cup ActivateSteps =>
          /\ k.ver \in Versions
          /\ bundles[k.ver] # NoBundle
          /\ bundles[k.ver].source = k.cand
          /\ bundles[k.ver].by = k.actor
    /\ s \in ActivateSteps => k.ver \in Versions /\ bundles[k.ver] # NoBundle

CallOK(t) ==
    /\ pc[t] \in StepsOf(call[t].op)
    /\ ArgumentsOK(call[t])
    /\ ProgressOK(call[t], pc[t])

\* Candidates are built on an active bundle, and no policy, in production or
\* not, holds a candidate that was never submitted.
StoreOK ==
    /\ created # {} => activations # << >>
    /\ \A v \in Versions, s \in Slots :
          bundles[v] # NoBundle /\ bundles[v].policy[s] # NoCandidate =>
              WasSubmitted(bundles[v].policy[s])

Inv ==
    /\ TypeOK
    /\ \A t \in Threads : CallOK(t)
    /\ StoreOK
    /\ EventsAreJustified /\ EvidenceIsStored /\ OnlyHumansGovern
    /\ FourEyes /\ ReleasedHasBundle

\* Why the history of a candidate that a person proposed starts once: the call
\* that stored it is the only one to write its DRAFT event, and until it does no
\* event justifies another one.
Starting(t, c) ==
    /\ call[t].op = "create" /\ call[t].cand = c
    /\ pc[t] \in {"event_seq", "event_put"}

OneStart ==
    \A c \in Candidates \ Discovered : \A t \in Threads :
        Starting(t, c) =>
            /\ events[c] = << >>
            /\ \A u \in Threads : Starting(u, c) => t = u

StartInv == Inv /\ OneStart /\ HistoriesStartOnce

\* Why no release is lost: until somebody rolls back, versions are stored and
\* activated in turn, and the one that is stored and not active yet belongs to
\* one call at most.
NoRollback == \A i \in DOMAIN activations : activations[i].via # "rollback"

Owns(t) ==
    call[t].op \in {"seed", "approve"} /\ pc[t] \in EventSteps \cup {"activate_seq", "activate_put"}

InTurn ==
    /\ \A i \in DOMAIN activations : activations[i].bundle = i
    /\ \A v \in Versions : bundles[v] # NoBundle => v <= Len(activations) + 1
    /\ \A t \in Threads : pc[t] = "bundle_put" => call[t].ver <= Len(activations) + 1
    /\ \A t \in Threads : Owns(t) => call[t].ver = Len(activations) + 1
    /\ \A t, u \in Threads : Owns(t) /\ Owns(u) => t = u

BuiltOnParent ==
    \A v \in Versions \ {1} :
        bundles[v] # NoBundle =>
            bundles[v].source \in Candidates /\ bundles[v].policy = Merged(v - 1, bundles[v].source)

ReleaseInv == Inv /\ (NoRollback => InTurn) /\ BuiltOnParent

=============================================================================
