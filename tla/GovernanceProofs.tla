-------------------------- MODULE GovernanceProofs --------------------------
(***************************************************************************)
(* Proofs about Governance, for any number of threads, principals,         *)
(* candidates, slots, versions and events.                                 *)
(***************************************************************************)
EXTENDS Governance, TLAPS

\* What every step does to the store: it only adds to it.
Grows ==
    /\ created \subseteq created'
    /\ reports \subseteq reports'
    /\ \A c \in Candidates : \A n \in DOMAIN events[c] :
          n \in DOMAIN events'[c] /\ events'[c][n] = events[c][n]
    /\ \A v \in Versions : bundles[v] # NoBundle => bundles'[v] = bundles[v]
    /\ activations # << >> => activations' # << >>

\* The part of TypeOK about the calls in progress, and the rest.
CallTypes == pc \in [Threads -> Steps] /\ call \in [Threads -> Calls]

StoreTypes ==
    /\ created \subseteq Candidates
    /\ events \in [Candidates -> Seq(Event)]
    /\ reports \subseteq created \X EvidenceStates
    /\ bundles \in [Versions -> Bundles \cup {NoBundle}]
    /\ activations \in Seq(Activation)
    /\ \A c \in Candidates : events[c] # << >> => c \in created
    /\ \A a \in audited : a[1] \in Candidates /\ a[2] \in DOMAIN events[a[1]]
    /\ \A v \in Versions :
          bundles[v] # NoBundle /\ v > 1 => bundles[v - 1] # NoBundle
    /\ \A i \in DOMAIN activations : bundles[activations[i].bundle] # NoBundle

\* The part of Inv that only speaks of the store.
StoreInv ==
    /\ StoreTypes /\ StoreOK
    /\ EventsAreJustified /\ EvidenceIsStored /\ OnlyHumansGovern
    /\ FourEyes /\ ReleasedHasBundle

LEMMA InvParts == Inv <=> StoreInv /\ CallTypes /\ \A t \in Threads : CallOK(t)
  BY DEF Inv, StoreInv, TypeOK, StoreTypes, CallTypes

LEMMA AllowedStates ==
    /\ \A s \in States : Allowed[s] \in SUBSET States
    /\ \A s \in States : "AWAITING_APPROVAL" \in Allowed[s] => s = "SHADOW_PASSED"
    /\ \A s \in States : "SHADOW_PASSED" \in Allowed[s] => s = "COUNTEREXAMPLES_PASSED"
    /\ \A s \in States : "COUNTEREXAMPLES_PASSED" \in Allowed[s] => s = "REPLAYED"
    /\ \A s \in States : "REPLAYED" \in Allowed[s] => s = "DRAFT"
  BY DEF Allowed, States

-----------------------------------------------------------------------------
(* A call that is not moving keeps what it relies on while the store grows. *)

LEMMA StillSubmitted ==
    ASSUME Grows, NEW c \in Candidates
    PROVE  /\ WasSubmitted(c) => WasSubmitted(c)'
           /\ \A s \in States : Justified(c, s) => Justified(c, s)'
           /\ \A a \in Actors \cup {Nobody} :
                 SubmittedByAnother(c, a) => SubmittedByAnother(c, a)'
  BY DEF Grows, WasSubmitted, Reached, Justified, SubmittedByAnother

LEMMA StillOK ==
    ASSUME StoreTypes, Grows, NEW k \in Calls, NEW s \in Steps,
           s \in StepsOf(k.op), ArgumentsOK(k), ProgressOK(k, s)
    PROVE  ArgumentsOK(k)' /\ ProgressOK(k, s)'
  <1>1. ArgumentsOK(k)'
    BY DEF ArgumentsOK, Grows
  <1>2. (k.op \notin {"none", "seed", "rollback"}) => k.cand \in Candidates
    BY DEF ArgumentsOK, StoreTypes, Calls
  <1>3. s = "event_audit" => k.op \notin {"none", "seed", "rollback"}
    BY DEF StepsOf, Calls, ActivateSteps
  <1>4. s \in {"event_seq", "event_put"} => k.op \notin {"none", "seed", "rollback"}
    BY DEF StepsOf, Calls, ActivateSteps
  <1>5. k.op = "create" /\ s # "create_put" => k.cand \in created'
    BY DEF ProgressOK, Grows
  <1>6. k.op = "evidence" /\ s # "report_put" => <<k.cand, k.to>> \in reports'
    BY DEF ProgressOK, Grows
  <1>7. k.op # "create" /\ s \in {"event_seq", "event_put"} => Justified(k.cand, k.to)'
    BY <1>2, <1>4, StillSubmitted DEF ProgressOK, Calls
  <1>8. s = "event_audit" => k.seq \in DOMAIN events'[k.cand]
    BY <1>2, <1>3 DEF ProgressOK, Grows
  <1>9. k.op = "approve" => WasSubmitted(k.cand)'
    BY <1>2, StillSubmitted DEF ProgressOK
  <1>10. k.op = "approve" /\ s # "approve_submitter" /\ FourEyesOn =>
            SubmittedByAnother(k.cand, k.actor)'
    BY <1>2, StillSubmitted DEF ProgressOK, Calls
  <1>11. s = "bundle_put" =>
            k.ver \in Versions /\ k.ver > 1 /\ bundles'[k.ver - 1] # NoBundle
    BY GovernanceAssumption DEF ProgressOK, Grows, Versions
  <1>12. /\ k.op = "approve" /\ s \in EventSteps \cup ActivateSteps =>
               /\ k.ver \in Versions
               /\ bundles'[k.ver] # NoBundle
               /\ bundles'[k.ver].source = k.cand
               /\ bundles'[k.ver].by = k.actor
         /\ s \in ActivateSteps => k.ver \in Versions /\ bundles'[k.ver] # NoBundle
    BY DEF ProgressOK, Grows
  <1> QED
    BY <1>1, <1>5, <1>6, <1>7, <1>8, <1>9, <1>10, <1>11, <1>12 DEF ProgressOK

-----------------------------------------------------------------------------
(* One call moves to another step: what is left to show for Inv'. *)

LEMMA Moves ==
    ASSUME Inv, Grows, StoreInv', NEW t \in Threads, NEW k \in Calls, NEW s \in Steps,
           s \in StepsOf(k.op), ArgumentsOK(k)', ProgressOK(k, s)', Begin(t, k, s)
    PROVE  Inv'
  <1>1. CallTypes'
    BY InvParts DEF CallTypes, Begin
  <1>2. ASSUME NEW u \in Threads PROVE CallOK(u)'
    <2>1. CASE u = t
      BY <2>1, InvParts DEF CallTypes, Begin, CallOK, ArgumentsOK, ProgressOK
    <2>2. CASE u # t
      <3> DEFINE c == call[u]
                 p == pc[u]
      <3>1. c \in Calls /\ p \in Steps /\ c = call'[u] /\ p = pc'[u]
        BY <2>2, InvParts DEF CallTypes, Begin
      <3>2. p \in StepsOf(c.op) /\ ArgumentsOK(c) /\ ProgressOK(c, p)
        BY InvParts DEF CallOK
      <3>3. \A d \in Calls, q \in Steps :
               q \in StepsOf(d.op) /\ ArgumentsOK(d) /\ ProgressOK(d, q) =>
                   ArgumentsOK(d)' /\ ProgressOK(d, q)'
        BY StillOK, InvParts DEF StoreInv
      <3> HIDE DEF c, p
      <3>4. PICK d \in Calls, q \in Steps :
               d = call'[u] /\ q = pc'[u] /\ q \in StepsOf(d.op)
               /\ ArgumentsOK(d)' /\ ProgressOK(d, q)'
        BY <3>1, <3>2, <3>3
      <3> QED BY <3>4 DEF CallOK, ArgumentsOK, ProgressOK
    <2> QED BY <2>1, <2>2
  <1>3. StoreInv' /\ CallTypes' /\ (\A u \in Threads : CallOK(u))'
    BY <1>1, <1>2
  <1> QED BY <1>3, InvParts DEF Inv, StoreInv, TypeOK, StoreTypes, CallTypes

LEMMA Same == ASSUME StoreInv, UNCHANGED store PROVE Grows /\ StoreInv'
  <1>1. Grows
    BY DEF store, Grows
  <1>2. StoreInv'
    BY DEF store, StoreInv, StoreTypes, StoreOK, EventsAreJustified, EvidenceIsStored,
           OnlyHumansGovern, FourEyes, ReleasedHasBundle, WasSubmitted, Reached
  <1> QED BY <1>1, <1>2

LEMMA Returns ==
    ASSUME Inv, Grows, StoreInv', NEW t \in Threads, Return(t)
    PROVE  Inv'
  <1>1. NoCall \in Calls /\ "idle" \in Steps /\ "idle" \in StepsOf(NoCall.op)
    BY GovernanceAssumption DEF NoCall, Calls, Steps, StepsOf, States
  <1>2. ArgumentsOK(NoCall)' /\ ProgressOK(NoCall, "idle")'
    BY DEF ArgumentsOK, ProgressOK, NoCall, EventSteps, ActivateSteps
  <1>3. Begin(t, NoCall, "idle")
    BY DEF Return, Begin
  <1> QED BY <1>1, <1>2, <1>3, Moves

LEMMA Begins ==
    ASSUME Inv, UNCHANGED store, NEW t \in Threads, NEW k \in Calls, NEW s \in Steps,
           s \in StepsOf(k.op), ArgumentsOK(k), ProgressOK(k, s), Begin(t, k, s)
    PROVE  Inv'
  <1>1. Grows /\ StoreInv' /\ StoreTypes
    BY Same, InvParts DEF StoreInv
  <1>2. ArgumentsOK(k)' /\ ProgressOK(k, s)'
    BY <1>1, StillOK
  <1> QED BY <1>1, <1>2, Moves

-----------------------------------------------------------------------------
(* The steps that only read: they begin a call or advance it.               *)

\* The facts about a call in progress, gathered for the steps below.
LEMMA CallFacts ==
    ASSUME Inv, NEW t \in Threads
    PROVE  /\ call[t] \in Calls /\ pc[t] \in Steps
           /\ pc[t] \in StepsOf(call[t].op)
           /\ ArgumentsOK(call[t]) /\ ProgressOK(call[t], pc[t])
           /\ StoreTypes /\ StoreOK
           /\ NoCall \in Calls
  BY InvParts, GovernanceAssumption
     DEF CallTypes, CallOK, StoreInv, NoCall, Calls, States

LEMMA Goes ==
    ASSUME Inv, UNCHANGED store, NEW t \in Threads, NEW s \in Steps,
           s \in StepsOf(call[t].op), ProgressOK(call[t], s), Goto(t, s)
    PROVE  Inv'
  <1>1. Begin(t, call[t], s)
    BY InvParts DEF Begin, Goto, CallTypes
  <1> QED BY <1>1, CallFacts, Begins

LEMMA SeedReadStep == ASSUME Inv, NEW t \in Threads, SeedRead(t) PROVE Inv'
  <1> DEFINE k == [NoCall EXCEPT !.op = "seed", !.actor = Seeder, !.ver = 1]
  <1>a. 1 \in 0..MaxVersion
    BY GovernanceAssumption
  <1>1. k \in Calls /\ k.op = "seed"
    BY <1>a, CallFacts
       DEF NoCall, Calls, States, EvidenceStates, Actors, Versions
  <1>0. "seed_put" \in Steps /\ "seed_put" \in StepsOf(k.op)
    BY <1>1 DEF Steps, StepsOf, EventSteps, ActivateSteps
  <1>2. ArgumentsOK(k) /\ ProgressOK(k, "seed_put")
    BY DEF ArgumentsOK, ProgressOK, NoCall, EventSteps, ActivateSteps
  <1> QED BY <1>0, <1>1, <1>2, Begins DEF SeedRead

LEMMA CreateReadStep ==
    ASSUME Inv, NEW t \in Threads, NEW c \in Candidates, CreateRead(t, c)
    PROVE  Inv'
  <1> DEFINE k == [NoCall EXCEPT !.op = "create", !.actor = ProposedBy[c], !.cand = c]
  <1>1. k \in Calls /\ k.op = "create"
    BY CallFacts, GovernanceAssumption
       DEF NoCall, Calls, States, EvidenceStates, Actors, Versions
  <1>0. "create_put" \in Steps /\ "create_put" \in StepsOf(k.op)
    BY <1>1 DEF Steps, StepsOf, EventSteps, ActivateSteps
  <1>2. ArgumentsOK(k) /\ ProgressOK(k, "create_put")
    BY GovernanceAssumption
       DEF CreateRead, ArgumentsOK, ProgressOK, NoCall, EventSteps, ActivateSteps
  <1> QED BY <1>0, <1>1, <1>2, Begins DEF CreateRead

LEMMA EvidenceBeginStep ==
    ASSUME Inv, NEW t \in Threads, NEW p \in Principals, NEW c \in Candidates,
           NEW s \in EvidenceStates, EvidenceBegin(t, p, c, s)
    PROVE  Inv'
  <1> DEFINE k == [NoCall EXCEPT !.op = "evidence", !.actor = p, !.cand = c, !.to = s]
  <1>1. k \in Calls /\ k.op = "evidence"
    BY CallFacts, GovernanceAssumption
       DEF NoCall, Calls, States, EvidenceStates, Actors, Versions
  <1>0. "report_put" \in Steps /\ "report_put" \in StepsOf(k.op)
    BY <1>1 DEF Steps, StepsOf, EventSteps, ActivateSteps
  <1>2. ArgumentsOK(k) /\ ProgressOK(k, "report_put")
    BY DEF EvidenceBegin, ArgumentsOK, ProgressOK, NoCall, EventSteps, ActivateSteps
  <1> QED BY <1>0, <1>1, <1>2, Begins DEF EvidenceBegin

LEMMA SubmitBeginStep ==
    ASSUME Inv, NEW t \in Threads, NEW p \in Principals, NEW c \in Candidates,
           SubmitBegin(t, p, c)
    PROVE  Inv'
  <1> DEFINE k == [NoCall EXCEPT !.op = "submit", !.actor = p, !.cand = c,
                                 !.to = "AWAITING_APPROVAL"]
  <1>1. k \in Calls /\ k.op = "submit"
    BY CallFacts, GovernanceAssumption
       DEF NoCall, Calls, States, EvidenceStates, Actors, Versions
  <1>0. "event_check" \in Steps /\ "event_check" \in StepsOf(k.op)
    BY <1>1 DEF Steps, StepsOf, EventSteps, ActivateSteps
  <1>2. ArgumentsOK(k) /\ ProgressOK(k, "event_check")
    BY DEF SubmitBegin, ArgumentsOK, ProgressOK, NoCall, EventSteps, ActivateSteps
  <1> QED BY <1>0, <1>1, <1>2, Begins DEF SubmitBegin

LEMMA RejectBeginStep ==
    ASSUME Inv, NEW t \in Threads, NEW p \in Principals, NEW c \in Candidates,
           RejectBegin(t, p, c)
    PROVE  Inv'
  <1> DEFINE k == [NoCall EXCEPT !.op = "reject", !.actor = p, !.cand = c,
                                 !.to = "REJECTED"]
  <1>1. k \in Calls /\ k.op = "reject"
    BY CallFacts, GovernanceAssumption
       DEF NoCall, Calls, States, EvidenceStates, Actors, Versions
  <1>0. "event_check" \in Steps /\ "event_check" \in StepsOf(k.op)
    BY <1>1 DEF Steps, StepsOf, EventSteps, ActivateSteps
  <1>2. ArgumentsOK(k) /\ ProgressOK(k, "event_check")
    BY DEF RejectBegin, ArgumentsOK, ProgressOK, NoCall, EventSteps, ActivateSteps
  <1> QED BY <1>0, <1>1, <1>2, Begins DEF RejectBegin

LEMMA ApproveBeginStep ==
    ASSUME Inv, NEW t \in Threads, NEW p \in Principals, NEW c \in Candidates,
           ApproveBegin(t, p, c)
    PROVE  Inv'
  <1> DEFINE k == [NoCall EXCEPT !.op = "approve", !.actor = p, !.cand = c,
                                 !.to = "RELEASED"]
  <1>1. k \in Calls /\ k.op = "approve"
    BY CallFacts, GovernanceAssumption
       DEF NoCall, Calls, States, EvidenceStates, Actors, Versions
  <1>0. "approve_submitter" \in Steps /\ "approve_submitter" \in StepsOf(k.op)
    BY <1>1 DEF Steps, StepsOf, EventSteps, ActivateSteps
  <1>2. c \in created /\ WasSubmitted(c)
    BY CallFacts
       DEF ApproveBegin, StoreTypes, WasSubmitted, Reached, State, Last, Event
  <1>3. ArgumentsOK(k) /\ ProgressOK(k, "approve_submitter")
    BY <1>2 DEF ApproveBegin, ArgumentsOK, ProgressOK, NoCall, EventSteps, ActivateSteps
  <1> QED BY <1>0, <1>1, <1>3, Begins DEF ApproveBegin

LEMMA RollbackBeginStep ==
    ASSUME Inv, NEW t \in Threads, NEW p \in Principals, NEW v \in Versions,
           RollbackBegin(t, p, v)
    PROVE  Inv'
  <1> DEFINE k == [NoCall EXCEPT !.op = "rollback", !.actor = p, !.ver = v]
  <1>a. v \in 0..MaxVersion
    BY GovernanceAssumption DEF Versions
  <1>1. k \in Calls /\ k.op = "rollback"
    BY <1>a, CallFacts
       DEF NoCall, Calls, States, EvidenceStates, Actors, Versions
  <1>0. "activate_seq" \in Steps /\ "activate_seq" \in StepsOf(k.op)
    BY <1>1 DEF Steps, StepsOf, EventSteps, ActivateSteps
  <1>2. ArgumentsOK(k) /\ ProgressOK(k, "activate_seq")
    BY DEF RollbackBegin, ArgumentsOK, ProgressOK, NoCall, EventSteps, ActivateSteps
  <1> QED BY <1>0, <1>1, <1>2, Begins DEF RollbackBegin

\* Which calls can be at a step.
LEMMA OpAt ==
    ASSUME NEW k \in Calls, NEW s \in Steps, s \in StepsOf(k.op)
    PROVE  /\ s = "seed_put" => k.op = "seed"
           /\ s = "create_put" => k.op = "create"
           /\ s = "report_put" => k.op = "evidence"
           /\ s \in {"approve_submitter", "approve_parent", "bundle_put"} => k.op = "approve"
           /\ s \in EventSteps => k.op \in {"create", "evidence", "submit", "reject", "approve"}
           /\ s = "event_check" => k.op # "create"
           /\ s \in ActivateSteps => k.op \in {"seed", "approve", "rollback"}
           /\ s = "rollback_audit" => k.op = "rollback"
  BY DEF Calls, StepsOf, EventSteps, ActivateSteps

LEMMA FailStep == ASSUME Inv, NEW t \in Threads, Fail(t) PROVE Inv'
  BY Same, Returns, InvParts DEF Fail

LEMMA ApproveSubmitterStep ==
    ASSUME Inv, NEW t \in Threads, ApproveSubmitter(t)
    PROVE  Inv'
  <1> DEFINE k == call[t]
  <1>a. k.op = "approve"
    BY CallFacts, OpAt DEF ApproveSubmitter
  <1>1. "approve_parent" \in Steps /\ "approve_parent" \in StepsOf(k.op)
    BY <1>a DEF Steps, StepsOf
  <1>2. CASE Return(t)
    BY <1>2, Same, Returns, InvParts DEF ApproveSubmitter
  <1>3. CASE Goto(t, "approve_parent") /\ ~Return(t)
    <2>1. FourEyesOn => SubmittedByAnother(k.cand, k.actor)
      BY <1>3 DEF ApproveSubmitter, SubmittedByAnother
    <2>2. ProgressOK(k, "approve_parent")
      BY <2>1, <1>a, CallFacts DEF ProgressOK, EventSteps, ActivateSteps, ApproveSubmitter
    <2> QED BY <1>1, <1>3, <2>2, Goes DEF ApproveSubmitter
  <1> QED BY <1>2, <1>3 DEF ApproveSubmitter

LEMMA ApproveParentStep ==
    ASSUME Inv, NEW t \in Threads, ApproveParent(t)
    PROVE  Inv'
  <1> DEFINE c == call[t]
             v == ActiveVersion
             k == [c EXCEPT !.ver = v + 1]
  <1>1. c \in Calls /\ c.op = "approve" /\ ArgumentsOK(c) /\ ProgressOK(c, "approve_parent")
    BY CallFacts, OpAt DEF ApproveParent
  <1>2. activations # << >>
    BY <1>1, CallFacts DEF ArgumentsOK, StoreOK
  <1>3. v \in Versions /\ bundles[v] # NoBundle
    <2>1. Len(activations) \in DOMAIN activations /\ activations \in Seq(Activation)
      BY <1>2, CallFacts DEF StoreTypes
    <2>2. activations[Len(activations)] \in Activation
      BY <2>1
    <2> QED
      BY <2>1, <2>2, CallFacts DEF ActiveVersion, Last, StoreTypes, Activation
  <1>4. v + 1 \in Versions /\ v + 1 \in 0..MaxVersion /\ v + 1 > 1 /\ v + 1 - 1 = v
    BY <1>3, GovernanceAssumption DEF ApproveParent, Versions
  <1> HIDE DEF v
  <1>5. /\ k \in Calls /\ k.op = c.op /\ k.actor = c.actor /\ k.cand = c.cand
        /\ k.to = c.to /\ k.ver = v + 1
    BY <1>1, <1>4 DEF Calls
  <1>6. "bundle_put" \in Steps /\ "bundle_put" \in StepsOf(k.op)
    BY <1>1, <1>5 DEF Steps, StepsOf
  <1>7. ArgumentsOK(k)
    BY <1>1, <1>5 DEF ArgumentsOK
  <1>9. Begin(t, k, "bundle_put")
    BY DEF ApproveParent, v
  <1> HIDE DEF k
  <1>a. WasSubmitted(k.cand) /\ (FourEyesOn => SubmittedByAnother(k.cand, k.actor))
    BY <1>1, <1>5 DEF ProgressOK
  <1>b. k.ver \in Versions /\ k.ver > 1 /\ bundles[k.ver - 1] # NoBundle
    <2>1. k.ver = v + 1 /\ v \in 1..MaxVersion
      BY <1>3, <1>5 DEF Versions
    <2>2. k.ver - 1 = v
      BY <2>1, GovernanceAssumption
    <2> QED BY <1>3, <1>4, <2>1, <2>2
  <1>8. ProgressOK(k, "bundle_put")
    BY <1>1, <1>5, <1>a, <1>b DEF ProgressOK, EventSteps, ActivateSteps
  <1> QED BY <1>5, <1>6, <1>7, <1>8, <1>9, Begins DEF ApproveParent

LEMMA EventCheckStep ==
    ASSUME Inv, NEW t \in Threads, EventCheck(t)
    PROVE  Inv'
  <1> DEFINE k == call[t]
  <1>1. /\ k \in Calls /\ k.op \in {"evidence", "submit", "reject", "approve"}
        /\ ProgressOK(k, "event_check") /\ ArgumentsOK(k)
    BY CallFacts, OpAt DEF EventCheck, EventSteps
  <1>2. "event_seq" \in Steps /\ "event_seq" \in StepsOf(k.op)
    BY <1>1 DEF Steps, StepsOf, EventSteps
  <1>3. CASE Return(t)
    BY <1>3, Same, Returns, InvParts DEF EventCheck
  <1>4. CASE Goto(t, "event_seq") /\ ~Return(t)
    <2>1. Justified(k.cand, k.to)
      <3>1. k.cand \in Candidates
        BY <1>1, CallFacts DEF ArgumentsOK, StoreTypes
      <3>2. events[k.cand] # << >> /\ k.to \in Allowed[Last(events[k.cand]).state]
        BY <1>4 DEF EventCheck
      <3> QED BY <3>1, <3>2, CallFacts DEF Justified, Last, StoreTypes
    <2>2. ProgressOK(k, "event_seq")
      BY <1>1, <2>1 DEF ProgressOK, EventSteps, ActivateSteps
    <2> QED BY <1>2, <1>4, <2>2, Goes DEF EventCheck
  <1> QED BY <1>3, <1>4 DEF EventCheck

LEMMA EventSeqStep ==
    ASSUME Inv, NEW t \in Threads, EventSeq(t)
    PROVE  Inv'
  <1> DEFINE c == call[t]
             n == Len(events[c.cand]) + 1
             k == [c EXCEPT !.seq = n]
  <1>1. /\ c \in Calls /\ c.op \in {"create", "evidence", "submit", "reject", "approve"}
        /\ ProgressOK(c, "event_seq") /\ ArgumentsOK(c)
    BY CallFacts, OpAt DEF EventSeq, EventSteps
  <1>2. n \in Nat
    BY <1>1, CallFacts DEF ArgumentsOK, StoreTypes
  <1> HIDE DEF n
  <1>3. /\ k \in Calls /\ k.op = c.op /\ k.actor = c.actor /\ k.cand = c.cand
        /\ k.to = c.to /\ k.ver = c.ver
    BY <1>1, <1>2 DEF Calls
  <1>4. "event_put" \in Steps /\ "event_put" \in StepsOf(k.op)
    BY <1>1, <1>3 DEF Steps, StepsOf, EventSteps
  <1>5. ArgumentsOK(k)
    BY <1>1, <1>3 DEF ArgumentsOK
  <1>6. ProgressOK(k, "event_put")
    BY <1>1, <1>3 DEF ProgressOK, EventSteps, ActivateSteps
  <1>7. Begin(t, k, "event_put")
    BY DEF EventSeq, n
  <1> QED BY <1>3, <1>4, <1>5, <1>6, <1>7, Begins DEF EventSeq

LEMMA ActivateSeqStep ==
    ASSUME Inv, NEW t \in Threads, ActivateSeq(t)
    PROVE  Inv'
  <1> DEFINE c == call[t]
             n == Len(activations) + 1
             k == [c EXCEPT !.seq = n]
  <1>1. /\ c \in Calls /\ c.op \in {"seed", "approve", "rollback"}
        /\ ProgressOK(c, "activate_seq") /\ ArgumentsOK(c)
    BY CallFacts, OpAt DEF ActivateSeq, ActivateSteps
  <1>2. n \in Nat
    BY CallFacts DEF StoreTypes
  <1> HIDE DEF n
  <1>3. /\ k \in Calls /\ k.op = c.op /\ k.actor = c.actor /\ k.cand = c.cand
        /\ k.to = c.to /\ k.ver = c.ver
    BY <1>1, <1>2 DEF Calls
  <1>4. "activate_put" \in Steps /\ "activate_put" \in StepsOf(k.op)
    BY <1>1, <1>3 DEF Steps, StepsOf, ActivateSteps
  <1>5. ArgumentsOK(k)
    BY <1>1, <1>3 DEF ArgumentsOK
  <1>6. ProgressOK(k, "activate_put")
    BY <1>1, <1>3 DEF ProgressOK, EventSteps, ActivateSteps
  <1>7. Begin(t, k, "activate_put")
    BY DEF ActivateSeq, n
  <1> QED BY <1>3, <1>4, <1>5, <1>6, <1>7, Begins DEF ActivateSeq

LEMMA ActivateAuditStep ==
    ASSUME Inv, NEW t \in Threads, ActivateAudit(t)
    PROVE  Inv'
  <1> DEFINE k == call[t]
  <1>1. CASE Return(t)
    BY <1>1, Same, Returns, InvParts DEF ActivateAudit
  <1>2. CASE k.op = "rollback" /\ Goto(t, "rollback_audit")
    <2>1. "rollback_audit" \in Steps /\ "rollback_audit" \in StepsOf(k.op)
      BY <1>2 DEF Steps, StepsOf
    <2>2. ProgressOK(k, "rollback_audit")
      BY <1>2 DEF ProgressOK, EventSteps, ActivateSteps
    <2> QED BY <1>2, <2>1, <2>2, Goes DEF ActivateAudit
  <1> QED BY <1>1, <1>2 DEF ActivateAudit

LEMMA RollbackAuditStep == ASSUME Inv, NEW t \in Threads, RollbackAudit(t) PROVE Inv'
  BY Same, Returns, InvParts DEF RollbackAudit

-----------------------------------------------------------------------------
(* The steps that write to the store.                                       *)

LEMMA GoesGrowing ==
    ASSUME Inv, Grows, StoreInv', NEW t \in Threads, NEW k \in Calls, k = call[t],
           NEW s \in Steps, s \in StepsOf(k.op), ProgressOK(k, s)', Goto(t, s)
    PROVE  Inv'
  <1>1. ArgumentsOK(k)'
    BY CallFacts, StillOK
  <1>2. Begin(t, k, s)
    BY InvParts DEF Begin, Goto, CallTypes
  <1> QED BY <1>1, <1>2, Moves

LEMMA SeedPutStep == ASSUME Inv, NEW t \in Threads, SeedPut(t) PROVE Inv'
  <1>1. PICK k \in Calls : k = call[t]
    BY CallFacts
  <1>2. k.op = "seed" /\ k.ver = 1 /\ StoreInv /\ StoreTypes
    BY <1>1, CallFacts, OpAt, InvParts DEF SeedPut, ArgumentsOK, StoreInv
  <1>3. CASE Return(t) /\ UNCHANGED bundles
    BY <1>2, <1>3, Same, Returns DEF SeedPut, store
  <1>4. CASE bundles[1] = NoBundle /\ Goto(t, "activate_seq")
    <2> DEFINE b == [parent |-> 0, source |-> NoCandidate, by |-> Seeder,
                     policy |-> SeededPolicy]
    <2>1. 1 \in Versions /\ 0 \in 0..MaxVersion
      BY GovernanceAssumption DEF Versions
    <2>2. b \in Bundles
      BY <2>1 DEF Bundles, Actors, Policies, SeededPolicy
    <2>3. bundles' = [bundles EXCEPT ![1] = b]
      BY <1>4 DEF SeedPut
    <2>4. b # NoBundle /\ b.source = NoCandidate
             /\ \A s \in Slots : b.policy[s] = NoCandidate
      BY <2>2, NoBundleAssumption DEF SeededPolicy
    <2> HIDE DEF b
    <2>5. /\ bundles'[1] = b
          /\ \A v \in Versions \ {1} : bundles'[v] = bundles[v]
          /\ bundles' \in [Versions -> Bundles \cup {NoBundle}]
      BY <1>2, <2>1, <2>2, <2>3 DEF StoreTypes
    <2>6. UNCHANGED <<created, events, reports, activations, audited>>
      BY DEF SeedPut
    <2>7. Grows
      BY <1>4, <2>5, <2>6 DEF Grows
    <2>8. StoreTypes'
      <3>1. \A i \in DOMAIN activations : bundles'[activations[i].bundle] # NoBundle
        <4>1. \A i \in DOMAIN activations :
                 activations[i] \in Activation /\ bundles[activations[i].bundle] # NoBundle
          BY <1>2 DEF StoreTypes
        <4> QED BY <4>1, <2>4, <2>5 DEF Activation
      <3>2. \A v \in Versions : bundles'[v] # NoBundle /\ v > 1 => bundles'[v - 1] # NoBundle
        <4>1. ASSUME NEW v \in Versions, bundles'[v] # NoBundle, v > 1
              PROVE  v - 1 \in Versions /\ bundles[v - 1] # NoBundle
          <5>1. v - 1 \in Versions
            BY <4>1, GovernanceAssumption DEF Versions
          <5>2. v # 1
            BY <4>1 DEF Versions
          <5> QED BY <1>2, <2>5, <4>1, <5>1, <5>2 DEF StoreTypes
        <4> QED BY <4>1, <2>4, <2>5
      <3> QED BY <1>2, <2>5, <2>6, <3>1, <3>2 DEF StoreTypes
    <2>9. StoreOK'
      BY <1>2, <2>4, <2>5, <2>6 DEF StoreInv, StoreOK, WasSubmitted, Reached
    <2>10. (EventsAreJustified /\ EvidenceIsStored /\ OnlyHumansGovern)'
      BY <1>2, <2>4, <2>5, <2>6
         DEF StoreInv, EventsAreJustified, EvidenceIsStored, OnlyHumansGovern
    <2>11. FourEyes'
      BY <1>2, <2>4, <2>5, <2>6 DEF StoreInv, FourEyes
    <2>12. ReleasedHasBundle'
      BY <1>2, <1>4, <2>5, <2>6 DEF StoreInv, ReleasedHasBundle
    <2>13. StoreInv'
      BY <2>8, <2>9, <2>10, <2>11, <2>12 DEF StoreInv
    <2>14. "activate_seq" \in Steps /\ "activate_seq" \in StepsOf(k.op)
      BY <1>2 DEF Steps, StepsOf, ActivateSteps
    <2>15. ProgressOK(k, "activate_seq")'
      BY <1>2, <2>1, <2>4, <2>5 DEF ProgressOK, EventSteps
    <2> QED BY <1>1, <1>4, <2>7, <2>13, <2>14, <2>15, GoesGrowing
  <1> QED BY <1>3, <1>4 DEF SeedPut

LEMMA CreatePutStep == ASSUME Inv, NEW t \in Threads, CreatePut(t) PROVE Inv'
  <1>1. PICK k \in Calls : k = call[t]
    BY CallFacts
  <1>2. /\ k.op = "create" /\ ArgumentsOK(k) /\ ProgressOK(k, "create_put")
        /\ StoreInv /\ StoreTypes
    BY <1>1, CallFacts, OpAt, InvParts DEF CreatePut, StoreInv
  <1>3. CASE Return(t) /\ UNCHANGED created
    BY <1>2, <1>3, Same, Returns DEF CreatePut, store
  <1>4. CASE created' = created \cup {k.cand} /\ Goto(t, "event_seq")
    <2>1. UNCHANGED <<events, reports, bundles, activations, audited>>
      BY DEF CreatePut
    <2>2. k.cand \in Candidates /\ activations # << >>
      BY <1>2 DEF ArgumentsOK
    <2>3. Grows
      BY <1>4, <2>1 DEF Grows
    <2>4. StoreTypes'
      BY <1>2, <1>4, <2>1, <2>2 DEF StoreTypes
    <2>5. StoreInv'
      BY <1>2, <1>4, <2>1, <2>2, <2>4
         DEF StoreInv, StoreOK, EventsAreJustified, EvidenceIsStored,
             OnlyHumansGovern, FourEyes, ReleasedHasBundle, WasSubmitted, Reached
    <2>6. "event_seq" \in Steps /\ "event_seq" \in StepsOf(k.op)
      BY <1>2 DEF Steps, StepsOf, EventSteps
    <2>7. ProgressOK(k, "event_seq")'
      BY <1>2, <1>4 DEF ProgressOK, EventSteps, ActivateSteps
    <2> QED BY <1>1, <1>4, <2>3, <2>5, <2>6, <2>7, GoesGrowing
  <1> QED BY <1>1, <1>3, <1>4 DEF CreatePut

LEMMA ReportPutStep == ASSUME Inv, NEW t \in Threads, ReportPut(t) PROVE Inv'
  <1>1. PICK k \in Calls : k = call[t]
    BY CallFacts
  <1>2. /\ k.op = "evidence" /\ ArgumentsOK(k) /\ ProgressOK(k, "report_put")
        /\ StoreInv /\ StoreTypes
    BY <1>1, CallFacts, OpAt, InvParts DEF ReportPut, StoreInv
  <1>3. CASE Return(t) /\ UNCHANGED reports
    BY <1>2, <1>3, Same, Returns DEF ReportPut, store
  <1>4. CASE /\ reports' = reports \cup {<<k.cand, k.to>>}
             /\ Goto(t, "event_check")
    <2>1. UNCHANGED <<created, events, bundles, activations, audited>>
      BY DEF ReportPut
    <2>2. k.cand \in created /\ k.to \in EvidenceStates
      BY <1>2 DEF ArgumentsOK
    <2>3. Grows
      BY <1>4, <2>1 DEF Grows
    <2>4. StoreTypes'
      BY <1>2, <1>4, <2>1, <2>2 DEF StoreTypes
    <2>5. StoreInv'
      BY <1>2, <1>4, <2>1, <2>2, <2>4
         DEF StoreInv, StoreOK, EventsAreJustified, EvidenceIsStored,
             OnlyHumansGovern, FourEyes, ReleasedHasBundle, WasSubmitted, Reached
    <2>6. "event_check" \in Steps /\ "event_check" \in StepsOf(k.op)
      BY <1>2 DEF Steps, StepsOf, EventSteps
    <2>7. ProgressOK(k, "event_check")'
      BY <1>2, <1>4 DEF ProgressOK, EventSteps, ActivateSteps
    <2> QED BY <1>1, <1>4, <2>3, <2>5, <2>6, <2>7, GoesGrowing
  <1> QED BY <1>1, <1>3, <1>4 DEF ReportPut

LEMMA BundlePutStep == ASSUME Inv, NEW t \in Threads, BundlePut(t) PROVE Inv'
  <1>1. PICK k \in Calls : k = call[t]
    BY CallFacts
  <1>2. /\ k.op = "approve" /\ ArgumentsOK(k) /\ ProgressOK(k, "bundle_put")
        /\ StoreInv /\ StoreTypes
    BY <1>1, CallFacts, OpAt, InvParts DEF BundlePut, StoreInv
  <1> DEFINE v == k.ver
             c == k.cand
             b == [parent |-> v - 1, source |-> c, by |-> k.actor, policy |-> Merged(v - 1, c)]
  <1>3. CASE Return(t) /\ UNCHANGED bundles
    BY <1>2, <1>3, Same, Returns DEF BundlePut, store
  <1>4. CASE /\ bundles[v] = NoBundle /\ bundles' = [bundles EXCEPT ![v] = b]
             /\ Goto(t, "event_check")
    <2>1. UNCHANGED <<created, events, reports, activations, audited>>
      BY DEF BundlePut
    <2>2. /\ v \in Versions /\ v > 1 /\ v - 1 \in Versions /\ v - 1 \in 0..MaxVersion
          /\ bundles[v - 1] # NoBundle
      BY <1>2, GovernanceAssumption DEF ProgressOK, Versions
    <2>3. /\ c \in created /\ c \in Candidates /\ k.actor \in Principals
          /\ SlotOf[c] \in Slots
      BY <1>2, GovernanceAssumption DEF ArgumentsOK, StoreTypes, Humans
    <2>4. bundles[v - 1].policy \in Policies
      BY <1>2, <2>2 DEF StoreTypes, Bundles
    <2>5. /\ Merged(v - 1, c) \in Policies
          /\ \A s \in Slots : Merged(v - 1, c)[s] = IF s = SlotOf[c] THEN c
                                                    ELSE bundles[v - 1].policy[s]
      BY <2>3, <2>4 DEF Merged, Policies
    <2>6. b \in Bundles
      BY <2>2, <2>3, <2>5 DEF Bundles, Actors
    <2>7. /\ b # NoBundle /\ b.source = c /\ b.by = k.actor
          /\ \A s \in Slots : b.policy[s] = IF s = SlotOf[c] THEN c
                                            ELSE bundles[v - 1].policy[s]
      BY <2>5, <2>6, NoBundleAssumption
    <2> HIDE DEF b
    <2>8. /\ bundles'[v] = b
          /\ \A w \in Versions \ {v} : bundles'[w] = bundles[w]
          /\ bundles' \in [Versions -> Bundles \cup {NoBundle}]
      BY <1>2, <1>4, <2>2, <2>6 DEF StoreTypes
    <2>9. WasSubmitted(c) /\ (FourEyesOn => SubmittedByAnother(c, k.actor))
      BY <1>2 DEF ProgressOK
    <2> HIDE DEF v, c
    <2>10. Grows
      BY <1>4, <2>1, <2>8 DEF Grows
    <2>11. StoreTypes'
      <3>1. \A i \in DOMAIN activations : bundles'[activations[i].bundle] # NoBundle
        <4>1. \A i \in DOMAIN activations :
                 activations[i] \in Activation /\ bundles[activations[i].bundle] # NoBundle
          BY <1>2 DEF StoreTypes
        <4> QED BY <4>1, <2>7, <2>8 DEF Activation
      <3>2. \A w \in Versions : bundles'[w] # NoBundle /\ w > 1 => bundles'[w - 1] # NoBundle
        <4>1. ASSUME NEW w \in Versions, bundles'[w] # NoBundle, w > 1
              PROVE  bundles[w - 1] # NoBundle /\ w - 1 \in Versions
          <5>1. w - 1 \in Versions
            BY <4>1, GovernanceAssumption DEF Versions
          <5>2. CASE w = v
            BY <2>2, <5>1, <5>2
          <5>3. CASE w # v
            BY <1>2, <2>8, <4>1, <5>1, <5>3 DEF StoreTypes
          <5> QED BY <5>2, <5>3
        <4> QED BY <4>1, <2>7, <2>8
      <3> QED BY <1>2, <2>1, <2>8, <3>1, <3>2 DEF StoreTypes
    <2>12. StoreOK'
      <3>1. \A w \in Versions, s \in Slots :
               bundles'[w] # NoBundle /\ bundles'[w].policy[s] # NoCandidate =>
                   WasSubmitted(bundles'[w].policy[s])
        BY <1>2, <2>2, <2>7, <2>8, <2>9 DEF StoreInv, StoreOK
      <3> QED BY <1>2, <2>1, <3>1 DEF StoreInv, StoreOK, WasSubmitted, Reached
    <2>13. (EventsAreJustified /\ EvidenceIsStored /\ OnlyHumansGovern)'
      <3>1. k.actor \in Humans \cap Approvers
        BY <1>2 DEF ArgumentsOK
      <3> QED BY <1>2, <2>1, <2>7, <2>8, <3>1
              DEF StoreInv, EventsAreJustified, EvidenceIsStored, OnlyHumansGovern
    <2>14. FourEyes'
      BY <1>2, <2>1, <2>7, <2>8, <2>9 DEF StoreInv, FourEyes, SubmittedByAnother
    <2>15. ReleasedHasBundle'
      BY <1>2, <1>4, <2>1, <2>8 DEF StoreInv, ReleasedHasBundle
    <2>16. StoreInv'
      BY <2>11, <2>12, <2>13, <2>14, <2>15 DEF StoreInv
    <2>17. "event_check" \in Steps /\ "event_check" \in StepsOf(k.op)
      BY <1>2 DEF Steps, StepsOf, EventSteps
    <2>18. ProgressOK(k, "event_check")'
      <3>1. WasSubmitted(k.cand)' /\ (FourEyesOn => SubmittedByAnother(k.cand, k.actor)')
        BY <2>1, <2>9 DEF c, WasSubmitted, Reached, SubmittedByAnother
      <3> QED BY <1>2, <2>2, <2>7, <2>8, <3>1 DEF v, c, ProgressOK, EventSteps, ActivateSteps
    <2> QED BY <1>1, <1>4, <2>10, <2>16, <2>17, <2>18, GoesGrowing
  <1> QED BY <1>1, <1>3, <1>4 DEF BundlePut

LEMMA EventAuditStep == ASSUME Inv, NEW t \in Threads, EventAudit(t) PROVE Inv'
  <1>1. PICK k \in Calls : k = call[t]
    BY CallFacts
  <1>2. /\ k.op \in {"create", "evidence", "submit", "reject", "approve"}
        /\ ArgumentsOK(k) /\ ProgressOK(k, "event_audit") /\ StoreInv /\ StoreTypes
    BY <1>1, CallFacts, OpAt, InvParts DEF EventAudit, StoreInv, EventSteps
  <1>3. UNCHANGED <<created, events, reports, bundles, activations>>
    BY DEF EventAudit
  <1>4. Grows
    BY <1>3 DEF Grows
  <1>5. k.cand \in Candidates /\ k.seq \in DOMAIN events[k.cand]
    BY <1>2 DEF ArgumentsOK, ProgressOK, StoreTypes
  <1>6. StoreTypes'
    BY <1>1, <1>2, <1>3, <1>5 DEF EventAudit, StoreTypes
  <1>7. StoreInv'
    BY <1>2, <1>3, <1>6
       DEF StoreInv, StoreOK, EventsAreJustified, EvidenceIsStored,
           OnlyHumansGovern, FourEyes, ReleasedHasBundle, WasSubmitted, Reached
  <1>8. CASE Return(t)
    BY <1>4, <1>7, <1>8, Returns
  <1>9. CASE k.op = "approve" /\ Goto(t, "activate_seq")
    <2>1. "activate_seq" \in Steps /\ "activate_seq" \in StepsOf(k.op)
      BY <1>9 DEF Steps, StepsOf, ActivateSteps
    <2>2. ProgressOK(k, "activate_seq")
      BY <1>2, <1>9 DEF ProgressOK, EventSteps, ActivateSteps
    <2>3. ProgressOK(k, "activate_seq")'
      BY <1>2, <1>4, <2>1, <2>2, StillOK
    <2> QED BY <1>1, <1>4, <1>7, <1>9, <2>1, <2>3, GoesGrowing
  <1> QED BY <1>1, <1>8, <1>9 DEF EventAudit

LEMMA ActivatePutStep == ASSUME Inv, NEW t \in Threads, ActivatePut(t) PROVE Inv'
  <1>1. PICK k \in Calls : k = call[t]
    BY CallFacts
  <1>2. /\ k.op \in {"seed", "approve", "rollback"}
        /\ ArgumentsOK(k) /\ ProgressOK(k, "activate_put") /\ StoreInv /\ StoreTypes
    BY <1>1, CallFacts, OpAt, InvParts DEF ActivatePut, StoreInv, ActivateSteps
  <1>3. CASE Return(t) /\ UNCHANGED activations
    BY <1>2, <1>3, Same, Returns DEF ActivatePut, store
  <1> DEFINE a == [bundle |-> k.ver, actor |-> k.actor, via |-> k.op]
  <1>4. CASE activations' = Append(activations, a) /\ Goto(t, "activate_audit")
    <2>1. UNCHANGED <<created, events, reports, bundles, audited>>
      BY DEF ActivatePut
    <2>2. k.ver \in Versions /\ bundles[k.ver] # NoBundle
      BY <1>2 DEF ProgressOK, ActivateSteps
    <2>3. k.actor \in Actors /\ (k.op # "seed" => k.actor \in Humans \cap Approvers)
      BY <1>2 DEF ArgumentsOK, Actors, Humans
    <2>4. a \in Activation
      BY <1>2, <2>2, <2>3 DEF Activation
    <2>5. a.bundle = k.ver /\ a.actor = k.actor /\ a.via = k.op
      OBVIOUS
    <2> HIDE DEF a
    <2>6. /\ activations \in Seq(Activation) /\ activations' \in Seq(Activation)
          /\ activations' # << >>
          /\ \A i \in DOMAIN activations' :
                activations'[i] = a \/ (i \in DOMAIN activations
                                        /\ activations'[i] = activations[i])
      BY <1>2, <1>4, <2>4 DEF StoreTypes
    <2>7. Grows
      BY <2>1, <2>6 DEF Grows
    <2>8. StoreTypes'
      <3>1. \A i \in DOMAIN activations' : bundles[activations'[i].bundle] # NoBundle
        BY <1>2, <2>2, <2>5, <2>6 DEF StoreTypes
      <3> QED BY <1>2, <2>1, <2>6, <3>1 DEF StoreTypes
    <2>9. OnlyHumansGovern'
      BY <1>2, <2>1, <2>3, <2>5, <2>6 DEF StoreInv, OnlyHumansGovern
    <2>10. StoreInv'
      <3>1. StoreOK'
        BY <1>2, <2>1, <2>6 DEF StoreInv, StoreOK, WasSubmitted, Reached
      <3>2. (EventsAreJustified /\ EvidenceIsStored)'
        BY <1>2, <2>1 DEF StoreInv, EventsAreJustified, EvidenceIsStored
      <3>3. (FourEyes /\ ReleasedHasBundle)'
        BY <1>2, <2>1 DEF StoreInv, FourEyes, ReleasedHasBundle
      <3> QED BY <2>8, <2>9, <3>1, <3>2, <3>3 DEF StoreInv
    <2>11. "activate_audit" \in Steps /\ "activate_audit" \in StepsOf(k.op)
      BY <1>2 DEF Steps, StepsOf, ActivateSteps
    <2>12. ProgressOK(k, "activate_audit")
      BY <1>2 DEF ProgressOK, EventSteps, ActivateSteps
    <2>13. ProgressOK(k, "activate_audit")'
      BY <1>2, <2>7, <2>11, <2>12, StillOK
    <2> QED BY <1>1, <1>4, <2>7, <2>10, <2>11, <2>13, GoesGrowing
  <1> QED BY <1>1, <1>3, <1>4 DEF ActivatePut

LEMMA EventPutStep == ASSUME Inv, NEW t \in Threads, EventPut(t) PROVE Inv'
  <1>1. PICK k \in Calls : k = call[t]
    BY CallFacts
  <1>2. /\ k.op \in {"create", "evidence", "submit", "reject", "approve"}
        /\ ArgumentsOK(k) /\ ProgressOK(k, "event_put") /\ StoreInv /\ StoreTypes
    BY <1>1, CallFacts, OpAt, InvParts DEF EventPut, StoreInv, EventSteps
  <1>3. CASE Return(t) /\ UNCHANGED events
    BY <1>2, <1>3, Same, Returns DEF EventPut, store
  <1> DEFINE c == k.cand
             e == [state |-> k.to, actor |-> k.actor]
             n == Len(events[c])
  <1>4. CASE /\ k.seq = Len(events[c]) + 1
             /\ events' = [events EXCEPT ![c] = Append(@, e)] /\ Goto(t, "event_audit")
    <2>1. UNCHANGED <<created, reports, bundles, activations, audited>>
      BY DEF EventPut
    <2>2. c \in created /\ c \in Candidates
      BY <1>2 DEF ArgumentsOK, ProgressOK, StoreTypes
    <2>3. e \in Event /\ e.state = k.to /\ e.actor = k.actor
      BY <1>2 DEF ArgumentsOK, Event, Calls, Actors, Humans
    <2> HIDE DEF e
    <2>4. events[c] \in Seq(Event) /\ n \in Nat /\ DOMAIN events[c] = 1..n
      BY <1>2, <2>2 DEF StoreTypes
    <2>5. /\ events'[c] = Append(events[c], e) /\ events' \in [Candidates -> Seq(Event)]
          /\ \A d \in Candidates \ {c} : events'[d] = events[d]
      BY <1>2, <1>4, <2>2, <2>3, <2>4 DEF StoreTypes
    <2>6. /\ DOMAIN events'[c] = 1..(n + 1) /\ events'[c][n + 1] = e
          /\ \A m \in 1..n : events'[c][m] = events[c][m]
      BY <2>3, <2>4, <2>5
    <2> HIDE DEF n, c
    <2>7. \A d \in Candidates : \A m \in DOMAIN events[d] :
             m \in DOMAIN events'[d] /\ events'[d][m] = events[d][m]
      BY <2>4, <2>5, <2>6
    <2>8. Grows
      BY <2>1, <2>7 DEF Grows
    <2>9. StoreTypes'
      BY <1>2, <2>1, <2>2, <2>5, <2>7 DEF StoreTypes
    \* The only event that is new is e, at n + 1.
    <2>10. ASSUME NEW d \in Candidates, NEW m \in DOMAIN events'[d],
                  ~(m \in DOMAIN events[d] /\ events'[d][m] = events[d][m])
           PROVE  d = c /\ m = n + 1 /\ events'[d][m] = e
      BY <2>4, <2>5, <2>6, <2>10
    <2>11. EventsAreJustified'
      <3> SUFFICES ASSUME NEW d \in Candidates, NEW m \in DOMAIN events'[d],
                          events'[d][m].state # "DRAFT"
                   PROVE  \E j \in 1..(m - 1) :
                             events'[d][m].state \in Allowed[events'[d][j].state]
        BY DEF EventsAreJustified
      <3>1. events[d] \in Seq(Event)
        BY <1>2 DEF StoreTypes
      <3>2. CASE m \in DOMAIN events[d] /\ events'[d][m] = events[d][m]
        <4>1. PICK j \in 1..(m - 1) : events[d][m].state \in Allowed[events[d][j].state]
          BY <1>2, <3>2 DEF StoreInv, EventsAreJustified
        <4>2. j \in DOMAIN events[d]
          BY <3>1, <3>2
        <4> QED BY <4>1, <4>2, <2>7, <3>2
      <3>3. CASE ~(m \in DOMAIN events[d] /\ events'[d][m] = events[d][m])
        <4>1. d = c /\ m = n + 1 /\ events'[d][m] = e
          BY <2>10, <3>3
        <4>2. k.op # "create"
          BY <1>2, <2>3, <4>1 DEF ArgumentsOK
        <4>3. PICK j \in 1..n : k.to \in Allowed[events[c][j].state]
          BY <1>2, <2>4, <4>2 DEF ProgressOK, Justified, c
        <4>4. j \in 1..(m - 1)
          BY <4>1, <2>4
        <4> QED BY <2>3, <2>6, <4>1, <4>3, <4>4
      <3> QED BY <3>2, <3>3
    <2>12. EvidenceIsStored'
      <3> SUFFICES ASSUME NEW d \in Candidates, NEW m \in DOMAIN events'[d],
                          events'[d][m].state \in EvidenceStates
                   PROVE  <<d, events'[d][m].state>> \in reports
        BY <2>1 DEF EvidenceIsStored
      <3>1. CASE m \in DOMAIN events[d] /\ events'[d][m] = events[d][m]
        BY <1>2, <3>1 DEF StoreInv, EvidenceIsStored
      <3>2. CASE ~(m \in DOMAIN events[d] /\ events'[d][m] = events[d][m])
        <4>1. d = c /\ events'[d][m].state = k.to /\ k.to \in EvidenceStates
          BY <2>10, <3>2, <2>3
        <4>2. k.op = "evidence"
          BY <1>2, <4>1 DEF ArgumentsOK, EvidenceStates
        <4> QED BY <1>2, <4>1, <4>2 DEF ProgressOK, c
      <3> QED BY <3>1, <3>2
    <2>13. OnlyHumansGovern'
      <3>1. ASSUME NEW d \in Candidates, NEW m \in DOMAIN events'[d],
                   events'[d][m].state \in {"AWAITING_APPROVAL", "REJECTED", "RELEASED"}
            PROVE  events'[d][m].actor \in Humans
        <4>1. CASE m \in DOMAIN events[d] /\ events'[d][m] = events[d][m]
          BY <1>2, <3>1, <4>1 DEF StoreInv, OnlyHumansGovern
        <4>2. CASE ~(m \in DOMAIN events[d] /\ events'[d][m] = events[d][m])
          <5>1. events'[d][m].actor = k.actor
                   /\ k.to \in {"AWAITING_APPROVAL", "REJECTED", "RELEASED"}
            BY <2>10, <4>2, <2>3, <3>1
          <5>2. k.op \in {"submit", "reject", "approve"}
            BY <1>2, <5>1 DEF ArgumentsOK, EvidenceStates
          <5> QED BY <1>2, <5>1, <5>2 DEF ArgumentsOK
        <4> QED BY <4>1, <4>2
      <3> QED BY <1>2, <2>1, <3>1 DEF StoreInv, OnlyHumansGovern
    <2>14. FourEyes'
      <3>1. ASSUME FourEyesOn, NEW d \in Candidates, NEW m \in DOMAIN events'[d],
                   events'[d][m].state = "RELEASED"
            PROVE  \E j \in 1..(m - 1) : /\ events'[d][j].state = "AWAITING_APPROVAL"
                                         /\ events'[d][j].actor # events'[d][m].actor
        <4>1. CASE m \in DOMAIN events[d] /\ events'[d][m] = events[d][m]
          <5>1. PICK j \in 1..(m - 1) : /\ events[d][j].state = "AWAITING_APPROVAL"
                                        /\ events[d][j].actor # events[d][m].actor
            BY <1>2, <3>1, <4>1 DEF StoreInv, FourEyes
          <5>2. events[d] \in Seq(Event)
            BY <1>2 DEF StoreTypes
          <5>3. j \in DOMAIN events[d]
            BY <4>1, <5>2
          <5> QED BY <2>7, <4>1, <5>1, <5>3
        <4>2. CASE ~(m \in DOMAIN events[d] /\ events'[d][m] = events[d][m])
          <5>1. d = c /\ m = n + 1 /\ events'[d][m].actor = k.actor /\ k.to = "RELEASED"
            BY <2>10, <4>2, <2>3, <3>1
          <5>2. k.op = "approve"
            BY <1>2, <5>1 DEF ArgumentsOK, EvidenceStates
          <5>3. PICK j \in 1..n : /\ events[c][j].state = "AWAITING_APPROVAL"
                                  /\ events[c][j].actor # k.actor
            BY <1>2, <2>4, <3>1, <5>2 DEF ProgressOK, SubmittedByAnother, c
          <5>4. j \in 1..(m - 1)
            BY <5>1, <2>4
          <5> QED BY <2>6, <5>1, <5>3, <5>4
        <4> QED BY <4>1, <4>2
      <3>2. ASSUME FourEyesOn, NEW v \in Versions, bundles[v] # NoBundle,
                   bundles[v].source # NoCandidate
            PROVE  \E j \in DOMAIN events'[bundles[v].source] :
                      /\ events'[bundles[v].source][j].state = "AWAITING_APPROVAL"
                      /\ events'[bundles[v].source][j].actor # bundles[v].by
        <4>1. bundles[v].source \in Candidates
          BY <1>2, <3>2 DEF StoreTypes, Bundles
        <4>2. PICK j \in DOMAIN events[bundles[v].source] :
                 /\ events[bundles[v].source][j].state = "AWAITING_APPROVAL"
                 /\ events[bundles[v].source][j].actor # bundles[v].by
          BY <1>2, <3>2 DEF StoreInv, FourEyes
        <4> QED BY <2>7, <4>1, <4>2
      <3> QED BY <2>1, <3>1, <3>2 DEF FourEyes
    <2>15. ReleasedHasBundle'
      <3> SUFFICES ASSUME NEW d \in Candidates, NEW m \in DOMAIN events'[d],
                          events'[d][m].state = "RELEASED"
                   PROVE  \E v \in Versions : /\ bundles[v] # NoBundle
                                              /\ bundles[v].source = d
                                              /\ bundles[v].by = events'[d][m].actor
        BY <2>1 DEF ReleasedHasBundle
      <3>1. CASE m \in DOMAIN events[d] /\ events'[d][m] = events[d][m]
        BY <1>2, <3>1 DEF StoreInv, ReleasedHasBundle
      <3>2. CASE ~(m \in DOMAIN events[d] /\ events'[d][m] = events[d][m])
        <4>1. d = c /\ events'[d][m].actor = k.actor /\ k.to = "RELEASED"
          BY <2>10, <3>2, <2>3
        <4>2. k.op = "approve"
          BY <1>2, <4>1 DEF ArgumentsOK, EvidenceStates
        <4> QED BY <1>2, <4>1, <4>2 DEF ProgressOK, EventSteps, c
      <3> QED BY <3>1, <3>2
    <2>16. StoreOK'
      <3>1. ASSUME NEW v \in Versions, NEW s \in Slots, bundles[v] # NoBundle,
                   bundles[v].policy[s] # NoCandidate
            PROVE  WasSubmitted(bundles[v].policy[s])'
        <4>1. bundles[v].policy[s] \in Candidates
          BY <1>2, <3>1 DEF StoreTypes, Bundles, Policies
        <4>2. PICK d \in Candidates : d = bundles[v].policy[s] /\ WasSubmitted(d)
          BY <1>2, <3>1, <4>1 DEF StoreInv, StoreOK
        <4>3. WasSubmitted(d)'
          BY <2>8, <4>2, StillSubmitted
        <4> QED BY <2>1, <4>2, <4>3 DEF WasSubmitted, Reached
      <3> QED BY <1>2, <2>1, <3>1 DEF StoreInv, StoreOK
    <2>17. StoreInv'
      BY <2>9, <2>11, <2>12, <2>13, <2>14, <2>15, <2>16 DEF StoreInv
    <2>18. "event_audit" \in Steps /\ "event_audit" \in StepsOf(k.op)
      BY <1>2 DEF Steps, StepsOf, EventSteps
    <2>19. ProgressOK(k, "event_audit")'
      <3>1. ProgressOK(k, "event_put")'
        <4>1. "event_put" \in Steps /\ "event_put" \in StepsOf(k.op)
          BY <1>2 DEF Steps, StepsOf, EventSteps
        <4> QED BY <1>2, <2>8, <4>1, StillOK
      <3>2. k.seq \in DOMAIN events'[k.cand]
        BY <1>4, <2>4, <2>6 DEF c, n
      <3> QED BY <3>1, <3>2, <1>2 DEF ProgressOK, EventSteps, ActivateSteps
    <2> QED BY <1>1, <1>4, <2>8, <2>17, <2>18, <2>19, GoesGrowing
  <1> QED BY <1>1, <1>3, <1>4 DEF EventPut

-----------------------------------------------------------------------------
(* Inv is inductive.                                                        *)

LEMMA InitInv == Init => Inv
  <1> SUFFICES ASSUME Init PROVE Inv
    OBVIOUS
  <1>1. TypeOK
    BY GovernanceAssumption
       DEF Init, TypeOK, Event, Activation, NoCall, Calls, Steps, States, Actors
  <1>2. \A t \in Threads : CallOK(t)
    BY DEF Init, CallOK, NoCall, StepsOf, ArgumentsOK, ProgressOK, EventSteps, ActivateSteps
  <1>3. StoreOK
    BY DEF Init, StoreOK
  <1>4. /\ EventsAreJustified /\ EvidenceIsStored /\ OnlyHumansGovern
        /\ FourEyes /\ ReleasedHasBundle
    BY DEF Init, EventsAreJustified, EvidenceIsStored, OnlyHumansGovern,
           FourEyes, ReleasedHasBundle
  <1> QED BY <1>1, <1>2, <1>3, <1>4 DEF Inv

LEMMA NextInv == Inv /\ [Next]_vars => Inv'
  <1> SUFFICES ASSUME Inv, [Next]_vars PROVE Inv'
    OBVIOUS
  <1>1. CASE UNCHANGED vars
    BY <1>1 DEF vars, Inv, TypeOK, CallOK, ArgumentsOK, ProgressOK, StoreOK,
       EventsAreJustified, EvidenceIsStored, OnlyHumansGovern, FourEyes,
       ReleasedHasBundle, WasSubmitted, Reached, Justified, SubmittedByAnother
  <1>2. ASSUME NEW t \in Threads, BeginCall(t) PROVE Inv'
    BY <1>2, SeedReadStep, CreateReadStep, EvidenceBeginStep, SubmitBeginStep,
       RejectBeginStep, ApproveBeginStep, RollbackBeginStep DEF BeginCall
  <1>3. ASSUME NEW t \in Threads, Continue(t) PROVE Inv'
    BY <1>3, SeedPutStep, CreatePutStep, ReportPutStep, ApproveSubmitterStep,
       ApproveParentStep, BundlePutStep, EventCheckStep, EventSeqStep, EventPutStep,
       EventAuditStep, ActivateSeqStep, ActivatePutStep, ActivateAuditStep,
       RollbackAuditStep DEF Continue
  <1> QED BY <1>1, <1>2, <1>3, FailStep DEF Next

\* Inv holds in every reachable state: what the theorems below rest on.
THEOREM Invariance == Spec => []Inv
  BY InitInv, NextInv, PTL DEF Spec

\* Types, and nothing stored refers to what is not stored.
THEOREM TypeCorrect == Spec => []TypeOK
  BY Invariance, PTL DEF Inv

\* An evidence event is never without the report that justifies it.
THEOREM ReportFirst == Spec => []EvidenceIsStored
  BY Invariance, PTL DEF Inv

\* Agents and services never govern.
THEOREM HumansOnly == Spec => []OnlyHumansGovern
  BY Invariance, PTL DEF Inv

\* No release, and no bundle a rollback could activate, on one pair of eyes.
THEOREM TwoPairsOfEyes == Spec => []FourEyes
  BY Invariance, PTL DEF Inv

\* No release event without the bundle it announces.
THEOREM BundleFirst == Spec => []ReleasedHasBundle
  BY Invariance, PTL DEF Inv

-----------------------------------------------------------------------------
(* Where a history starts.                                                  *)

\* A step that writes no event, and after which no call is about to write the
\* first event of a candidate a person proposed unless it was before.
LEMMA StartKept ==
    ASSUME OneStart, HistoriesStartOnce, UNCHANGED events,
           \A c \in Candidates \ Discovered, u \in Threads : Starting(u, c)' => Starting(u, c)
    PROVE  OneStart' /\ HistoriesStartOnce'
  BY DEF OneStart, HistoriesStartOnce

\* A call moves to a step at which it starts no history.
LEMMA StartBegin ==
    ASSUME Inv, OneStart, HistoriesStartOnce, UNCHANGED events, NEW t \in Threads,
           NEW k, NEW s, Begin(t, k, s), s \notin {"event_seq", "event_put"}
    PROVE  OneStart' /\ HistoriesStartOnce'
  <1>1. /\ pc'[t] = s
        /\ \A u \in Threads \ {t} : pc'[u] = pc[u] /\ call'[u] = call[u]
    BY InvParts DEF CallTypes, Begin
  <1> QED BY <1>1, StartKept DEF Starting

LEMMA StartGoto ==
    ASSUME Inv, OneStart, HistoriesStartOnce, UNCHANGED events, NEW t \in Threads,
           NEW s, Goto(t, s), s \notin {"event_seq", "event_put"}
    PROVE  OneStart' /\ HistoriesStartOnce'
  <1>1. Begin(t, call[t], s)
    BY InvParts DEF Begin, Goto, CallTypes
  <1> QED BY <1>1, StartBegin

LEMMA StartReturn ==
    ASSUME Inv, OneStart, HistoriesStartOnce, UNCHANGED events, NEW t \in Threads, Return(t)
    PROVE  OneStart' /\ HistoriesStartOnce'
  <1>1. Begin(t, NoCall, "idle")
    BY DEF Return, Begin
  <1> QED BY <1>1, StartBegin

LEMMA StartBeginCall ==
    ASSUME Inv, OneStart, HistoriesStartOnce, NEW t \in Threads, BeginCall(t)
    PROVE  OneStart' /\ HistoriesStartOnce'
  <1>1. UNCHANGED events
    BY DEF BeginCall, SeedRead, CreateRead, EvidenceBegin, SubmitBegin, RejectBegin,
           ApproveBegin, RollbackBegin, store
  <1>2. CASE SeedRead(t)
    BY <1>1, <1>2, StartBegin DEF SeedRead
  <1>3. CASE \E c \in Candidates : CreateRead(t, c)
    BY <1>1, <1>3, StartBegin DEF CreateRead
  <1>4. CASE \E p \in Principals, c \in Candidates, s \in EvidenceStates :
                EvidenceBegin(t, p, c, s)
    BY <1>1, <1>4, StartBegin DEF EvidenceBegin
  <1>5. CASE \E p \in Principals, c \in Candidates : SubmitBegin(t, p, c)
    BY <1>1, <1>5, StartBegin DEF SubmitBegin
  <1>6. CASE \E p \in Principals, c \in Candidates : RejectBegin(t, p, c)
    BY <1>1, <1>6, StartBegin DEF RejectBegin
  <1>7. CASE \E p \in Principals, c \in Candidates : ApproveBegin(t, p, c)
    BY <1>1, <1>7, StartBegin DEF ApproveBegin
  <1>8. CASE \E p \in Principals, v \in Versions : RollbackBegin(t, p, v)
    BY <1>1, <1>8, StartBegin DEF RollbackBegin
  <1> QED BY <1>2, <1>3, <1>4, <1>5, <1>6, <1>7, <1>8 DEF BeginCall

LEMMA StartCreatePut ==
    ASSUME Inv, OneStart, HistoriesStartOnce, NEW t \in Threads, CreatePut(t)
    PROVE  OneStart' /\ HistoriesStartOnce'
  <1>0. PICK d : d = call[t].cand
    OBVIOUS
  <1>1. UNCHANGED events
    BY DEF CreatePut
  <1>2. CASE Return(t)
    BY <1>1, <1>2, StartReturn
  <1>3. CASE Goto(t, "event_seq") /\ ~Return(t)
    <2>1. /\ call'[t] = call[t]
          /\ \A u \in Threads \ {t} : pc'[u] = pc[u] /\ call'[u] = call[u]
      BY <1>3, InvParts DEF CallTypes, Goto
    <2>2. \A c \in Candidates \ {d}, u \in Threads : Starting(u, c)' => Starting(u, c)
      BY <1>0, <2>1 DEF Starting
    <2>3. CASE d \in Discovered
      <3>1. \A c \in Candidates \ Discovered, u \in Threads : Starting(u, c)' => Starting(u, c)
        BY <2>2, <2>3
      <3> QED BY <1>1, <3>1, StartKept
    <2>4. CASE d \notin created
      <3>1. d \in Candidates => events[d] = << >>
        BY <2>4, CallFacts DEF StoreTypes
      <3>2. \A u \in Threads : ~Starting(u, d)
        BY <2>4, <1>0, CallFacts DEF ProgressOK, Starting
      <3>3. \A u \in Threads \ {t} :
               ~(call'[u].op = "create" /\ call'[u].cand = d /\ pc'[u] \in {"event_seq", "event_put"})
        BY <2>1, <3>2 DEF Starting
      <3>4. ASSUME NEW c \in Candidates \ Discovered, NEW u \in Threads, Starting(u, c)'
            PROVE  events'[c] = << >> /\ \A w \in Threads : Starting(w, c)' => u = w
        <4>1. CASE c = d
          BY <1>1, <3>1, <3>3, <3>4, <4>1 DEF Starting
        <4>2. CASE c # d
          BY <1>1, <2>2, <3>4, <4>2 DEF OneStart
        <4> QED BY <4>1, <4>2
      <3>5. OneStart'
        BY <3>4 DEF OneStart
      <3> QED BY <1>1, <3>5 DEF HistoriesStartOnce
    <2> QED BY <1>0, <1>3, <2>3, <2>4 DEF CreatePut
  <1> QED BY <1>2, <1>3 DEF CreatePut

LEMMA StartEventPut ==
    ASSUME Inv, OneStart, HistoriesStartOnce, NEW t \in Threads, EventPut(t)
    PROVE  OneStart' /\ HistoriesStartOnce'
  <1>0. PICK d, e, n : /\ d = call[t].cand
                       /\ e = [state |-> call[t].to, actor |-> call[t].actor]
                       /\ n = Len(events[d]) + 1
    OBVIOUS
  <1>1. CASE Return(t) /\ UNCHANGED events
    BY <1>1, StartReturn
  <1>2. CASE events' = [events EXCEPT ![d] = Append(@, e)] /\ Goto(t, "event_audit")
    <2>1. /\ pc'[t] = "event_audit"
          /\ \A u \in Threads \ {t} : pc'[u] = pc[u] /\ call'[u] = call[u]
      BY <1>2, InvParts DEF CallTypes, Goto
    <2>2. \A c \in Candidates, u \in Threads : Starting(u, c)' => Starting(u, c) /\ u # t
      BY <2>1 DEF Starting
    <2>3. /\ d \in Candidates /\ events \in [Candidates -> Seq(Event)]
          /\ call[t].op = "create" => call[t].to = "DRAFT"
          /\ call[t].op # "create" => call[t].to # "DRAFT" /\ Justified(d, call[t].to)
          /\ call[t].op \in {"create", "evidence", "submit", "reject", "approve"}
      BY <1>0, CallFacts, OpAt
         DEF EventPut, EventSteps, ArgumentsOK, ProgressOK, StoreTypes, EvidenceStates
    <2>4. /\ n \in Nat \ {0} /\ DOMAIN events'[d] = 1..n /\ DOMAIN events[d] = 1..(n - 1)
          /\ events'[d][n] = e /\ \A m \in 1..(n - 1) : events'[d][m] = events[d][m]
          /\ \A c \in Candidates \ {d} : events'[c] = events[c]
      BY <1>0, <1>2, <2>3
    <2>5. d \in Discovered \/ (call[t].op = "create" <=> n = 1)
      <3>1. d \notin Discovered /\ call[t].op = "create" => events[d] = << >>
        BY <1>0, <2>3 DEF OneStart, Starting, EventPut
      <3>2. call[t].op # "create" => n # 1
        BY <2>3, <2>4 DEF Justified
      <3> QED BY <2>4, <3>1, <3>2
    <2>6. \A c \in Candidates \ Discovered, u \in Threads : Starting(u, c)' => c # d
      <3> SUFFICES ASSUME NEW c \in Candidates \ Discovered, NEW u \in Threads, Starting(u, c)', c = d
                   PROVE  FALSE
        OBVIOUS
      <3>1. Starting(u, d) /\ u # t /\ events[d] = << >>
        BY <2>2, <2>3 DEF OneStart, Starting
      <3>2. call[t].op = "create"
        BY <2>4, <2>5, <3>1
      <3>3. Starting(t, d)
        BY <1>0, <3>2 DEF Starting, EventPut
      <3> QED BY <2>3, <3>1, <3>3 DEF OneStart
    <2>7. OneStart'
      BY <2>2, <2>4, <2>6 DEF OneStart
    <2>8. ASSUME NEW c \in Candidates \ Discovered, NEW m \in DOMAIN events'[c]
          PROVE  events'[c][m].state = "DRAFT" <=> m = 1
      <3>1. CASE c # d
        BY <2>4, <2>8, <3>1 DEF HistoriesStartOnce
      <3>2. CASE c = d /\ m \in 1..(n - 1)
        BY <2>4, <2>8, <3>2 DEF HistoriesStartOnce
      <3>3. CASE c = d /\ m = n
        <4>1. events'[c][m].state = call[t].to
          BY <1>0, <2>4, <3>3
        <4> QED BY <2>3, <2>5, <3>3, <4>1
      <3> QED BY <2>4, <2>8, <3>1, <3>2, <3>3
    <2> QED BY <2>7, <2>8 DEF HistoriesStartOnce
  <1> QED BY <1>0, <1>1, <1>2 DEF EventPut

LEMMA StartEventSteps ==
    ASSUME Inv, OneStart, HistoriesStartOnce, NEW t \in Threads, EventCheck(t) \/ EventSeq(t)
    PROVE  OneStart' /\ HistoriesStartOnce'
  <1>1. UNCHANGED events
    BY DEF EventCheck, EventSeq, store
  <1>2. CASE EventCheck(t) /\ Return(t)
    BY <1>1, <1>2, StartReturn
  <1>3. CASE EventCheck(t) /\ Goto(t, "event_seq")
    <2>1. call[t].op # "create"
      BY <1>3, CallFacts, OpAt DEF EventCheck
    <2>2. /\ call'[t] = call[t]
          /\ \A u \in Threads \ {t} : pc'[u] = pc[u] /\ call'[u] = call[u]
      BY <1>3, InvParts DEF CallTypes, Goto
    <2> QED BY <1>1, <2>1, <2>2, StartKept DEF Starting
  <1>4. CASE EventSeq(t)
    <2>1. /\ call'[t].op = call[t].op /\ call'[t].cand = call[t].cand
          /\ \A u \in Threads \ {t} : pc'[u] = pc[u] /\ call'[u] = call[u]
      BY <1>4, InvParts DEF CallTypes, Calls, Begin, EventSeq
    <2> QED BY <1>1, <1>4, <2>1, StartKept DEF Starting, EventSeq
  <1> QED BY <1>2, <1>3, <1>4 DEF EventCheck

LEMMA StartContinue ==
    ASSUME Inv, OneStart, HistoriesStartOnce, NEW t \in Threads, Continue(t) \/ Fail(t)
    PROVE  OneStart' /\ HistoriesStartOnce'
  <1>1. CASE \/ SeedPut(t) \/ ReportPut(t) \/ ApproveSubmitter(t) \/ ApproveParent(t)
             \/ BundlePut(t) \/ EventAudit(t) \/ ActivateSeq(t) \/ ActivatePut(t)
             \/ ActivateAudit(t) \/ RollbackAudit(t) \/ Fail(t)
    <2>1. UNCHANGED events
      BY <1>1 DEF SeedPut, ReportPut, ApproveSubmitter, ApproveParent, BundlePut, EventAudit,
                  ActivateSeq, ActivatePut, ActivateAudit, RollbackAudit, Fail, store
    <2>2. \/ Return(t)
          \/ \E s : Goto(t, s) /\ s \notin {"event_seq", "event_put"}
          \/ \E k, s : Begin(t, k, s) /\ s \notin {"event_seq", "event_put"}
      BY <1>1 DEF SeedPut, ReportPut, ApproveSubmitter, ApproveParent, BundlePut, EventAudit,
                  ActivateSeq, ActivatePut, ActivateAudit, RollbackAudit, Fail
    <2> QED BY <2>1, <2>2, StartReturn, StartGoto, StartBegin
  <1> QED BY <1>1, StartCreatePut, StartEventPut, StartEventSteps DEF Continue

LEMMA StartInvariance == Spec => []StartInv
  <1>1. Init => StartInv
    <2>1. Init => OneStart /\ HistoriesStartOnce
      BY DEF Init, OneStart, HistoriesStartOnce, Starting, NoCall
    <2> QED BY <2>1, InitInv DEF StartInv
  <1>2. StartInv /\ [Next]_vars => StartInv'
    <2> SUFFICES ASSUME StartInv, [Next]_vars PROVE OneStart' /\ HistoriesStartOnce'
      BY NextInv DEF StartInv
    <2>1. Inv /\ OneStart /\ HistoriesStartOnce
      BY DEF StartInv
    <2>2. CASE UNCHANGED vars
      BY <2>1, <2>2 DEF vars, OneStart, HistoriesStartOnce, Starting
    <2>3. ASSUME NEW t \in Threads, BeginCall(t) \/ Continue(t) \/ Fail(t)
          PROVE  OneStart' /\ HistoriesStartOnce'
      BY <2>1, <2>3, StartBeginCall, StartContinue
    <2> QED BY <2>2, <2>3 DEF Next
  <1> QED BY <1>1, <1>2, PTL DEF Spec

\* Nobody skips evidence, however the calls of any number of threads interleave
\* and wherever they stop: _event()'s check and its write are two transactions,
\* but what the check saw stays in the append-only history; and create(), which
\* checks nothing, starts the history of what a person proposes once, because
\* only the call whose write stored the candidate goes on to its event.
THEOREM EvidenceFirst == Spec => []EventsFollowEvidence
  <1>1. StartInv => EventsFollowEvidence
    BY DEF StartInv, Inv, EventsFollowEvidence
  <1> QED BY <1>1, StartInvariance, PTL

-----------------------------------------------------------------------------
(* What production is made of.                                              *)

\* A submitted candidate has been through every gate: walking back from its
\* submission, each event's predecessor in ALLOWED is the only one there is.
LEMMA SubmittedPassedGates ==
    ASSUME Inv, NEW c \in Candidates, WasSubmitted(c)
    PROVE  {"DRAFT", "REPLAYED", "COUNTEREXAMPLES_PASSED", "SHADOW_PASSED",
            "AWAITING_APPROVAL"} \subseteq Reached(c)
  <1>1. \A n \in DOMAIN events[c] : events[c][n].state \in States
    <2>1. events[c] \in Seq(Event)
      BY DEF Inv, TypeOK
    <2>2. \A n \in DOMAIN events[c] : events[c][n] \in Event
      BY <2>1
    <2> QED BY <2>2 DEF Event
  <1>2. ASSUME NEW s \in Reached(c), s # "DRAFT"
        PROVE  \E r \in Reached(c) : r \in States /\ s \in Allowed[r]
    <2>1. PICK n \in DOMAIN events[c] : events[c][n].state = s
      BY DEF Reached
    <2>2. PICK m \in 1..(n - 1) : s \in Allowed[events[c][m].state]
      BY <1>2, <2>1 DEF Inv, EventsAreJustified
    <2>3. m \in DOMAIN events[c]
      BY <2>1, <2>2 DEF Inv, TypeOK
    <2> QED BY <1>1, <2>2, <2>3 DEF Reached
  <1>3. "AWAITING_APPROVAL" \in Reached(c)
    BY DEF WasSubmitted
  <1>4. "SHADOW_PASSED" \in Reached(c)
    BY <1>2, <1>3, AllowedStates
  <1>5. "COUNTEREXAMPLES_PASSED" \in Reached(c)
    BY <1>2, <1>4, AllowedStates
  <1>6. "REPLAYED" \in Reached(c)
    BY <1>2, <1>5, AllowedStates
  <1>7. "DRAFT" \in Reached(c)
    BY <1>2, <1>6, AllowedStates
  <1> QED BY <1>3, <1>4, <1>5, <1>6, <1>7

\* Every candidate in a policy that was ever in production has been through
\* every gate of the lifecycle and was submitted.
THEOREM ProductionIsEvidenced == Spec => []ProductionHasEvidence
  <1>1. Inv => ProductionHasEvidence
    <2> SUFFICES ASSUME Inv, NEW i \in DOMAIN activations, NEW s \in Slots,
                        bundles[activations[i].bundle].policy[s] # NoCandidate
                 PROVE  {"DRAFT", "REPLAYED", "COUNTEREXAMPLES_PASSED", "SHADOW_PASSED",
                         "AWAITING_APPROVAL"}
                            \subseteq Reached(bundles[activations[i].bundle].policy[s])
      BY DEF ProductionHasEvidence
    <2>1. activations[i] \in Activation
      BY DEF Inv, TypeOK
    <2>2. PICK v \in Versions : v = activations[i].bundle /\ bundles[v] # NoBundle
      BY <2>1 DEF Inv, TypeOK, Activation
    <2>3. bundles[v].policy[s] \in Candidates
      BY <2>2 DEF Inv, TypeOK, Bundles, Policies
    <2>4. WasSubmitted(bundles[v].policy[s])
      BY <2>2 DEF Inv, StoreOK
    <2> QED BY <2>2, <2>3, <2>4, SubmittedPassedGates
  <1> QED BY <1>1, Invariance, PTL

-----------------------------------------------------------------------------
(* No release is lost.                                                      *)

\* A step of one call that stores no bundle, activates none and neither takes
\* over a bundle nor is about to store one, unless it was before.
LEMMA QuietStep ==
    ASSUME Inv, NoRollback => InTurn, BuiltOnParent, NEW t \in Threads,
           UNCHANGED <<bundles, activations>>, NEW k \in Calls, NEW s \in Steps, Begin(t, k, s),
           k.op \in {"seed", "approve"} /\ s \in EventSteps \cup {"activate_seq", "activate_put"}
               => Owns(t) /\ k.ver = call[t].ver,
           s # "bundle_put"
    PROVE  (NoRollback' => InTurn') /\ BuiltOnParent'
  <1>1. BuiltOnParent'
    BY DEF BuiltOnParent, Merged
  <1>2. /\ pc'[t] = s /\ call'[t] = k
        /\ \A u \in Threads \ {t} : pc'[u] = pc[u] /\ call'[u] = call[u]
    BY InvParts DEF CallTypes, Begin
  <1>3. /\ \A u \in Threads : Owns(u)' => Owns(u) /\ call'[u].ver = call[u].ver
        /\ \A u \in Threads : pc'[u] = "bundle_put" =>
              pc[u] = "bundle_put" /\ call'[u].ver = call[u].ver
    BY <1>2 DEF Owns
  <1>4. ASSUME NoRollback' PROVE InTurn'
    <2>1. InTurn
      BY <1>4 DEF NoRollback
    <2> QED BY <2>1, <1>3 DEF InTurn
  <1> QED BY <1>1, <1>4

LEMMA QuietGoto ==
    ASSUME Inv, NoRollback => InTurn, BuiltOnParent, NEW t \in Threads,
           UNCHANGED <<bundles, activations>>, NEW s \in Steps, Goto(t, s), s # "bundle_put",
           s \in EventSteps \cup {"activate_seq", "activate_put"} =>
               call[t].op \notin {"seed", "approve"} \/ Owns(t)
    PROVE  (NoRollback' => InTurn') /\ BuiltOnParent'
  <1>1. Begin(t, call[t], s) /\ call[t] \in Calls
    BY InvParts DEF Begin, Goto, CallTypes
  <1> QED BY <1>1, QuietStep

LEMMA QuietReturn ==
    ASSUME Inv, NoRollback => InTurn, BuiltOnParent, NEW t \in Threads,
           UNCHANGED <<bundles, activations>>, Return(t)
    PROVE  (NoRollback' => InTurn') /\ BuiltOnParent'
  <1>1. Begin(t, NoCall, "idle") /\ NoCall \in Calls
    BY CallFacts DEF Begin, Return
  <1>2. NoCall.op = "none" /\ "idle" \in Steps
    BY DEF NoCall, Steps
  <1> QED BY <1>1, <1>2, QuietStep

LEMMA QuietBegin ==
    ASSUME Inv, NoRollback => InTurn, BuiltOnParent, NEW t \in Threads, BeginCall(t)
    PROVE  (NoRollback' => InTurn') /\ BuiltOnParent'
  <1>1. UNCHANGED <<bundles, activations>>
    BY DEF BeginCall, SeedRead, CreateRead, EvidenceBegin, SubmitBegin, RejectBegin, ApproveBegin,
           RollbackBegin, store
  <1>2. CASE SeedRead(t)
    <2> DEFINE k == [NoCall EXCEPT !.op = "seed", !.actor = Seeder, !.ver = 1]
    <2>0. 1 \in 0..MaxVersion
      BY GovernanceAssumption
    <2>1. k \in Calls
      BY <2>0, CallFacts DEF NoCall, Calls, Actors
    <2>2. Begin(t, k, "seed_put")
      BY <1>2 DEF SeedRead
    <2> HIDE DEF k
    <2> QED BY <1>1, <2>1, <2>2, QuietStep DEF Steps, EventSteps
  <1>3. ASSUME NEW c \in Candidates, CreateRead(t, c)
        PROVE  (NoRollback' => InTurn') /\ BuiltOnParent'
    <2> DEFINE k == [NoCall EXCEPT !.op = "create", !.actor = ProposedBy[c], !.cand = c]
    <2>1. k \in Calls /\ k.op = "create"
      BY CallFacts, GovernanceAssumption DEF NoCall, Calls, States, Actors
    <2>2. Begin(t, k, "create_put")
      BY <1>3 DEF CreateRead
    <2> HIDE DEF k
    <2> QED BY <1>1, <2>1, <2>2, QuietStep DEF Steps
  <1>4. ASSUME NEW p \in Principals, NEW c \in Candidates, NEW s \in States,
               NEW op \in {"evidence", "submit", "reject"}, NEW step \in {"report_put", "event_check"},
               Begin(t, [NoCall EXCEPT !.op = op, !.actor = p, !.cand = c, !.to = s], step)
        PROVE  (NoRollback' => InTurn') /\ BuiltOnParent'
    <2> DEFINE k == [NoCall EXCEPT !.op = op, !.actor = p, !.cand = c, !.to = s]
    <2>1. k \in Calls /\ k.op = op
      BY CallFacts, GovernanceAssumption DEF NoCall, Calls, States, Actors
    <2>2. Begin(t, k, step)
      BY <1>4
    <2> HIDE DEF k
    <2> QED BY <1>1, <2>1, <2>2, QuietStep DEF Steps
  <1>5. ASSUME NEW p \in Principals, NEW c \in Candidates, ApproveBegin(t, p, c)
        PROVE  (NoRollback' => InTurn') /\ BuiltOnParent'
    <2> DEFINE k == [NoCall EXCEPT !.op = "approve", !.actor = p, !.cand = c, !.to = "RELEASED"]
    <2>1. k \in Calls
      BY CallFacts, GovernanceAssumption DEF NoCall, Calls, States, Actors
    <2>2. Begin(t, k, "approve_submitter")
      BY <1>5 DEF ApproveBegin
    <2> HIDE DEF k
    <2> QED BY <1>1, <2>1, <2>2, QuietStep DEF Steps, EventSteps
  <1>6. ASSUME NEW p \in Principals, NEW v \in Versions, RollbackBegin(t, p, v)
        PROVE  (NoRollback' => InTurn') /\ BuiltOnParent'
    <2> DEFINE k == [NoCall EXCEPT !.op = "rollback", !.actor = p, !.ver = v]
    <2>0. v \in 0..MaxVersion
      BY GovernanceAssumption DEF Versions
    <2>1. k \in Calls /\ k.op = "rollback"
      BY <2>0, CallFacts DEF NoCall, Calls, Actors
    <2>2. Begin(t, k, "activate_seq")
      BY <1>6 DEF RollbackBegin
    <2> HIDE DEF k
    <2> QED BY <1>1, <2>1, <2>2, QuietStep DEF Steps
  <1>7. ASSUME NEW p \in Principals, NEW c \in Candidates,
               \/ \E s \in EvidenceStates : EvidenceBegin(t, p, c, s)
               \/ SubmitBegin(t, p, c) \/ RejectBegin(t, p, c)
        PROVE  (NoRollback' => InTurn') /\ BuiltOnParent'
    <2>1. EvidenceStates \subseteq States /\ {"AWAITING_APPROVAL", "REJECTED"} \subseteq States
      BY DEF EvidenceStates, States
    <2> QED BY <1>4, <1>7, <2>1 DEF EvidenceBegin, SubmitBegin, RejectBegin
  <1> QED BY <1>2, <1>3, <1>5, <1>6, <1>7 DEF BeginCall

LEMMA QuietContinue ==
    ASSUME Inv, NoRollback => InTurn, BuiltOnParent, NEW t \in Threads,
           \/ CreatePut(t) \/ ReportPut(t) \/ ApproveSubmitter(t)
           \/ EventCheck(t) \/ EventPut(t) \/ EventAudit(t)
           \/ ActivateAudit(t) \/ RollbackAudit(t) \/ Fail(t)
    PROVE  (NoRollback' => InTurn') /\ BuiltOnParent'
  <1>1. UNCHANGED <<bundles, activations>>
    BY DEF CreatePut, ReportPut, ApproveSubmitter, EventCheck, EventPut, EventAudit,
           ActivateAudit, RollbackAudit, Fail, store
  <1>2. pc[t] \in StepsOf(call[t].op) /\ call[t] \in Calls
    BY CallFacts
  <1>3. CASE Return(t)
    BY <1>1, <1>3, QuietReturn
  <1>4. CASE \/ pc[t] = "create_put" /\ Goto(t, "event_seq")
             \/ pc[t] = "report_put" /\ Goto(t, "event_check")
    <2>1. call[t].op \notin {"seed", "approve"}
      BY <1>2, <1>4 DEF StepsOf, Calls, EventSteps, ActivateSteps
    <2>2. "event_seq" \in Steps /\ "event_check" \in Steps
      BY DEF Steps
    <2> QED BY <1>1, <1>4, <2>1, <2>2, QuietGoto
  <1>5. CASE \/ Goto(t, "approve_parent") \/ Goto(t, "rollback_audit")
    <2>1. {"approve_parent", "rollback_audit"} \subseteq Steps
      BY DEF Steps
    <2> QED BY <1>1, <1>5, <2>1, QuietGoto DEF EventSteps
  <1>6. CASE \/ pc[t] = "event_check" /\ Goto(t, "event_seq")
             \/ pc[t] = "event_put" /\ Goto(t, "event_audit")
             \/ pc[t] = "event_audit" /\ Goto(t, "activate_seq")
    <2>1. {"event_seq", "event_audit", "activate_seq"} \subseteq Steps
      BY DEF Steps
    <2>2. call[t].op \notin {"seed", "approve"} \/ Owns(t)
      BY <1>6 DEF Owns, EventSteps
    <2> QED BY <1>1, <1>6, <2>1, <2>2, QuietGoto
  <1> QED
    BY <1>3, <1>4, <1>5, <1>6 DEF CreatePut, ReportPut, ApproveSubmitter, EventCheck, EventPut,
       EventAudit, ActivateAudit, RollbackAudit, Fail

\* A step that reads the sequence number it will write under.
LEMMA QuietSeq ==
    ASSUME Inv, NoRollback => InTurn, BuiltOnParent, NEW t \in Threads,
           UNCHANGED <<bundles, activations>>, NEW n \in Nat, NEW step \in Steps \ {"bundle_put"},
           Begin(t, [call[t] EXCEPT !.seq = n], step), call[t].op \in {"seed", "approve"} => Owns(t)
    PROVE  (NoRollback' => InTurn') /\ BuiltOnParent'
  <1> DEFINE k == [call[t] EXCEPT !.seq = n]
  <1>1. k \in Calls /\ k.op = call[t].op /\ k.ver = call[t].ver
    BY CallFacts DEF Calls
  <1>2. Begin(t, k, step)
    OBVIOUS
  <1> HIDE DEF k
  <1> QED BY <1>1, <1>2, QuietStep

LEMMA QuietEventSeq ==
    ASSUME Inv, NoRollback => InTurn, BuiltOnParent, NEW t \in Threads, EventSeq(t)
    PROVE  (NoRollback' => InTurn') /\ BuiltOnParent'
  <1> DEFINE n == Len(events[call[t].cand]) + 1
  <1>1. call[t].op \in {"create", "evidence", "submit", "reject", "approve"}
    BY CallFacts, OpAt DEF EventSeq, EventSteps
  <1>2. n \in Nat
    BY <1>1, CallFacts DEF ArgumentsOK, StoreTypes
  <1>3. Begin(t, [call[t] EXCEPT !.seq = n], "event_put") /\ UNCHANGED <<bundles, activations>>
    BY DEF EventSeq, store
  <1> HIDE DEF n
  <1>4. call[t].op \in {"seed", "approve"} => Owns(t)
    BY DEF EventSeq, Owns, EventSteps
  <1> QED BY <1>2, <1>3, <1>4, QuietSeq DEF Steps

LEMMA QuietActivateSeq ==
    ASSUME Inv, NoRollback => InTurn, BuiltOnParent, NEW t \in Threads, ActivateSeq(t)
    PROVE  (NoRollback' => InTurn') /\ BuiltOnParent'
  <1> DEFINE n == Len(activations) + 1
  <1>1. n \in Nat
    BY CallFacts DEF StoreTypes
  <1>2. Begin(t, [call[t] EXCEPT !.seq = n], "activate_put") /\ UNCHANGED <<bundles, activations>>
    BY DEF ActivateSeq, store
  <1> HIDE DEF n
  <1>3. call[t].op \in {"seed", "approve"} => Owns(t)
    BY DEF ActivateSeq, Owns
  <1> QED BY <1>1, <1>2, <1>3, QuietSeq DEF Steps

\* Whoever owns a bundle has stored it, and in turn it is the next one; the
\* versions before it are stored too.
LEMMA InTurnFacts ==
    ASSUME Inv, InTurn
    PROVE  /\ Len(activations) \in Nat
           /\ \A i \in 1..Len(activations) : i \in Versions /\ bundles[i] # NoBundle
           /\ \A u \in Threads : Owns(u) =>
                 Len(activations) + 1 \in Versions /\ bundles[Len(activations) + 1] # NoBundle
  <1>1. activations \in Seq(Activation)
    BY DEF Inv, TypeOK
  <1>2. ASSUME NEW i \in 1..Len(activations) PROVE i \in Versions /\ bundles[i] # NoBundle
    <2>1. i \in DOMAIN activations /\ activations[i] \in Activation
      BY <1>1
    <2>2. activations[i].bundle = i /\ bundles[activations[i].bundle] # NoBundle
      BY <2>1 DEF Inv, TypeOK, InTurn
    <2> QED BY <2>1, <2>2 DEF Activation
  <1>3. ASSUME NEW u \in Threads, Owns(u)
        PROVE  Len(activations) + 1 \in Versions /\ bundles[Len(activations) + 1] # NoBundle
    <2>1. call[u].ver = Len(activations) + 1
      BY <1>3 DEF InTurn
    <2>2. call[u].ver \in Versions /\ bundles[call[u].ver] # NoBundle
      BY <1>3, CallFacts DEF Owns, ProgressOK, StepsOf, EventSteps, ActivateSteps
    <2> QED BY <2>1, <2>2
  <1> QED BY <1>1, <1>2, <1>3

\* A bundle is stored under the next version, and its call owns it: nobody can
\* own that version already.
LEMMA NextIsStored ==
    ASSUME Inv, NoRollback => InTurn, NEW t \in Threads, NEW v \in Versions, bundles[v] = NoBundle,
           \A w \in Versions \ {v} : bundles'[w] = bundles[w], UNCHANGED activations,
           Goto(t, "activate_seq") \/ Goto(t, "event_check"), call[t].ver = v,
           NoRollback => v <= Len(activations) + 1
    PROVE  NoRollback' => InTurn'
  <1> SUFFICES ASSUME NoRollback' PROVE InTurn'
    OBVIOUS
  <1>1. InTurn /\ v <= Len(activations) + 1 /\ v \in Nat /\ v >= 1
    BY DEF NoRollback, Versions
  <1>2. v = Len(activations) + 1
    <2>1. Len(activations) \in Nat /\ ~(v \in 1..Len(activations))
      BY <1>1, InTurnFacts
    <2> QED BY <1>1, <2>1
  <1>3. \A u \in Threads : ~Owns(u)
    BY <1>1, <1>2, InTurnFacts
  <1>4. /\ pc'[t] # "bundle_put" /\ call' = call
        /\ \A u \in Threads \ {t} : pc'[u] = pc[u]
    BY InvParts DEF Goto, CallTypes
  <1>5. \A u \in Threads : Owns(u)' => u = t
    BY <1>3, <1>4 DEF Owns
  <1>6. \A u \in Threads : pc'[u] = "bundle_put" => pc[u] = "bundle_put"
    BY <1>4
  <1>7. \A w \in Versions : bundles'[w] # NoBundle => w <= Len(activations) + 1
    BY <1>1 DEF InTurn
  <1> QED BY <1>1, <1>2, <1>4, <1>5, <1>6, <1>7 DEF InTurn

LEMMA SeedPutInTurn ==
    ASSUME Inv, NoRollback => InTurn, BuiltOnParent, NEW t \in Threads, SeedPut(t)
    PROVE  (NoRollback' => InTurn') /\ BuiltOnParent'
  <1>1. UNCHANGED activations
    BY DEF SeedPut
  <1>2. CASE Return(t) /\ UNCHANGED bundles
    BY <1>1, <1>2, QuietReturn
  <1>3. CASE bundles[1] = NoBundle /\ Goto(t, "activate_seq")
             /\ \E b : bundles' = [bundles EXCEPT ![1] = b]
    <2>1. 1 \in Versions
      BY GovernanceAssumption DEF Versions
    <2>2. \A w \in Versions \ {1} : bundles'[w] = bundles[w]
      BY <1>3 DEF Inv, TypeOK
    <2>3. call[t].op = "seed" /\ call[t].ver = 1
      BY CallFacts, OpAt DEF SeedPut, ArgumentsOK
    <2>4. 1 <= Len(activations) + 1
      BY DEF Inv, TypeOK
    <2>5. NoRollback' => InTurn'
      BY <1>1, <1>3, <2>1, <2>2, <2>3, <2>4, NextIsStored
    <2>6. \A w \in Versions \ {1} : bundles[w] # NoBundle =>
             w - 1 \in Versions \ {1} /\ bundles'[w - 1] = bundles[w - 1]
      <3>1. \A w \in Versions \ {1} : w - 1 \in Versions /\ w > 1
        BY GovernanceAssumption DEF Versions
      <3> QED BY <1>3, <2>2, <3>1 DEF Inv, TypeOK
    <2>7. BuiltOnParent'
      BY <2>2, <2>6 DEF BuiltOnParent, Merged
    <2> QED BY <2>5, <2>7
  <1> QED BY <1>2, <1>3 DEF SeedPut

LEMMA BundlePutInTurn ==
    ASSUME Inv, NoRollback => InTurn, BuiltOnParent, NEW t \in Threads, BundlePut(t)
    PROVE  (NoRollback' => InTurn') /\ BuiltOnParent'
  <1>1. PICK v, c : v = call[t].ver /\ c = call[t].cand
    OBVIOUS
  <1>2. UNCHANGED activations
    BY DEF BundlePut
  <1>3. CASE Return(t) /\ UNCHANGED bundles
    BY <1>2, <1>3, QuietReturn
  <1>4. CASE bundles[v] = NoBundle /\ Goto(t, "event_check")
             /\ bundles' = [bundles EXCEPT ![v] =
                   [parent |-> v - 1, source |-> c, by |-> call[t].actor,
                    policy |-> Merged(v - 1, c)]]
    <2>1. v \in Versions /\ v > 1 /\ bundles[v - 1] # NoBundle /\ pc[t] = "bundle_put"
      BY <1>1, CallFacts DEF BundlePut, ProgressOK
    <2>2. c \in Candidates
      <3>1. call[t].op = "approve"
        BY CallFacts, OpAt DEF BundlePut
      <3> QED BY <1>1, <3>1, CallFacts DEF ArgumentsOK, StoreTypes
    <2>3. /\ \A w \in Versions \ {v} : bundles'[w] = bundles[w]
          /\ bundles'[v].source = c /\ bundles'[v].policy = Merged(v - 1, c)
      BY <1>4, <2>1 DEF Inv, TypeOK
    <2>4. NoRollback => v <= Len(activations) + 1
      BY <1>1, <2>1 DEF InTurn
    <2>5. NoRollback' => InTurn'
      BY <1>1, <1>2, <1>4, <2>1, <2>3, <2>4, NextIsStored
    <2>6. \A w \in Versions \ {1} : w - 1 \in Versions /\ w > 1 /\ w - 1 # w
      BY GovernanceAssumption DEF Versions
    <2>7. \A w \in Versions \ {1} : bundles[w] # NoBundle \/ w = v => bundles'[w - 1] = bundles[w - 1]
      BY <1>4, <2>1, <2>3, <2>6 DEF Inv, TypeOK
    <2>8. BuiltOnParent'
      BY <2>1, <2>2, <2>3, <2>6, <2>7 DEF BuiltOnParent, Merged
    <2> QED BY <2>5, <2>8
  <1> QED BY <1>1, <1>3, <1>4 DEF BundlePut

LEMMA ApproveParentInTurn ==
    ASSUME Inv, NoRollback => InTurn, BuiltOnParent, NEW t \in Threads, ApproveParent(t)
    PROVE  (NoRollback' => InTurn') /\ BuiltOnParent'
  <1>1. UNCHANGED <<bundles, activations>>
    BY DEF ApproveParent, store
  <1>2. BuiltOnParent'
    BY <1>1 DEF BuiltOnParent, Merged
  <1>3. ASSUME NoRollback' PROVE InTurn'
    <2>1. InTurn
      BY <1>1, <1>3 DEF NoRollback
    <2>2. activations # << >>
      <3>1. call[t].op = "approve"
        BY CallFacts, OpAt DEF ApproveParent
      <3> QED BY <3>1, CallFacts DEF ArgumentsOK, StoreOK
    <2>3. ActiveVersion = Len(activations)
      <3>1. activations \in Seq(Activation)
        BY DEF Inv, TypeOK
      <3>2. Len(activations) \in DOMAIN activations
        BY <2>2, <3>1
      <3> QED BY <2>1, <3>2 DEF InTurn, ActiveVersion, Last
    <2>4. /\ pc'[t] = "bundle_put" /\ call'[t].ver = Len(activations) + 1
          /\ \A u \in Threads \ {t} : pc'[u] = pc[u] /\ call'[u] = call[u]
      <3>1. /\ call' = [call EXCEPT ![t] = [call[t] EXCEPT !.ver = ActiveVersion + 1]]
            /\ pc' = [pc EXCEPT ![t] = "bundle_put"]
        BY DEF ApproveParent, Begin
      <3>2. call'[t] = [call[t] EXCEPT !.ver = ActiveVersion + 1]
        BY <3>1, InvParts DEF CallTypes
      <3>3. call'[t].ver = ActiveVersion + 1
        BY <3>2, CallFacts DEF Calls
      <3> QED BY <2>3, <3>1, <3>3, InvParts DEF CallTypes
    <2>5. \A u \in Threads : Owns(u)' => Owns(u) /\ call'[u].ver = call[u].ver
      BY <2>4 DEF Owns, EventSteps
    <2>6. \A u \in Threads : pc'[u] = "bundle_put" => call'[u].ver <= Len(activations) + 1
      <3>1. Len(activations) \in Nat
        BY DEF Inv, TypeOK
      <3> QED BY <2>1, <2>4, <3>1 DEF InTurn
    <2> QED BY <1>1, <2>1, <2>5, <2>6 DEF InTurn
  <1> QED BY <1>2, <1>3

LEMMA ActivatePutInTurn ==
    ASSUME Inv, NoRollback => InTurn, BuiltOnParent, NEW t \in Threads, ActivatePut(t)
    PROVE  (NoRollback' => InTurn') /\ BuiltOnParent'
  <1>1. UNCHANGED bundles
    BY DEF ActivatePut
  <1>2. BuiltOnParent'
    BY <1>1 DEF BuiltOnParent, Merged
  <1>3. CASE Return(t) /\ UNCHANGED activations
    BY <1>1, <1>3, QuietReturn
  <1>4. ASSUME NoRollback', Goto(t, "activate_audit"),
               activations' = Append(activations,
                   [bundle |-> call[t].ver, actor |-> call[t].actor, via |-> call[t].op])
        PROVE  InTurn'
    <2>1. activations \in Seq(Activation) /\ Len(activations) \in Nat
      BY DEF Inv, TypeOK
    <2> DEFINE n == Len(activations) + 1
               entry == [bundle |-> call[t].ver, actor |-> call[t].actor, via |-> call[t].op]
    <2>2. /\ Len(activations') = n /\ DOMAIN activations' = 1..n /\ activations'[n] = entry
          /\ \A i \in DOMAIN activations : i \in DOMAIN activations' /\ activations'[i] = activations[i]
          /\ \A i \in DOMAIN activations' : i = n \/ i \in DOMAIN activations
      BY <1>4, <2>1
    <2>3. NoRollback /\ call[t].op # "rollback"
      <3>1. n \in DOMAIN activations' /\ entry.via = call[t].op
        BY <2>1, <2>2
      <3> QED BY <1>4, <2>2, <3>1 DEF NoRollback
    <2>4. InTurn
      BY <2>3
    <2>5. Owns(t)
      <3>1. call[t].op \in {"seed", "approve", "rollback"}
        BY CallFacts, OpAt DEF ActivatePut, ActivateSteps
      <3> QED BY <2>3, <3>1 DEF ActivatePut, Owns
    <2>6. call[t].ver = n /\ \A u \in Threads : Owns(u) => u = t
      BY <2>4, <2>5 DEF InTurn
    <2>7. /\ pc'[t] = "activate_audit" /\ call' = call
          /\ \A u \in Threads \ {t} : pc'[u] = pc[u]
      BY <1>4, InvParts DEF Goto, CallTypes
    <2>8. \A u \in Threads : ~Owns(u)'
      BY <2>6, <2>7 DEF Owns, EventSteps
    <2>9. \A i \in DOMAIN activations' : activations'[i].bundle = i
      BY <2>2, <2>4, <2>6 DEF InTurn
    <2>10. \A v \in Versions : bundles'[v] # NoBundle => v <= n + 1
      <3>1. \A v \in Versions : v \in Nat
        BY DEF Versions
      <3> QED BY <1>1, <2>1, <2>4, <3>1 DEF InTurn
    <2>11. \A u \in Threads : pc'[u] = "bundle_put" => call'[u].ver <= n + 1
      <3>1. \A u \in Threads : call[u].ver \in Nat
        BY CallFacts DEF Calls
      <3> QED BY <2>1, <2>4, <2>7, <3>1 DEF InTurn
    <2> HIDE DEF n
    <2> QED BY <2>2, <2>8, <2>9, <2>10, <2>11 DEF InTurn
  <1> QED BY <1>2, <1>3, <1>4 DEF ActivatePut

LEMMA ReleaseInvariance == Spec => []ReleaseInv
  <1>1. Init => ReleaseInv
    <2>1. Init => InTurn /\ BuiltOnParent
      BY DEF Init, InTurn, BuiltOnParent, Owns, NoCall
    <2> QED BY <2>1, InitInv DEF ReleaseInv
  <1>2. ReleaseInv /\ [Next]_vars => ReleaseInv'
    <2> SUFFICES ASSUME ReleaseInv, [Next]_vars PROVE (NoRollback' => InTurn') /\ BuiltOnParent'
      BY NextInv DEF ReleaseInv
    <2>1. Inv /\ (NoRollback => InTurn) /\ BuiltOnParent
      BY DEF ReleaseInv
    <2>2. CASE UNCHANGED vars
      BY <2>1, <2>2 DEF vars, NoRollback, InTurn, BuiltOnParent, Merged, Owns
    <2>3. ASSUME NEW t \in Threads, BeginCall(t) \/ Continue(t) \/ Fail(t)
          PROVE  (NoRollback' => InTurn') /\ BuiltOnParent'
      BY <2>1, <2>3, QuietBegin, QuietContinue, QuietEventSeq, QuietActivateSeq, SeedPutInTurn,
         BundlePutInTurn, ApproveParentInTurn, ActivatePutInTurn DEF Continue
    <2> QED BY <2>2, <2>3 DEF Next
  <1> QED BY <1>1, <1>2, PTL DEF Spec

\* Until somebody rolls back, every policy that goes into production is the one
\* before it with the slot of one candidate changed: no approval, however it
\* races with others and wherever it stops, takes another's change out.
THEOREM ReleasesAreKept == Spec => []NoLostRelease
  <1>1. ReleaseInv => NoLostRelease
    <2> SUFFICES ASSUME Inv, InTurn, BuiltOnParent, NEW i \in DOMAIN activations \ {1}, NEW s \in Slots
                 PROVE  LET new == bundles[activations[i].bundle]
                            old == bundles[activations[i - 1].bundle]
                        IN  new.policy[s] = IF s = SlotOf[new.source] THEN new.source
                                                                      ELSE old.policy[s]
      BY DEF ReleaseInv, NoRollback, NoLostRelease
    <2>1. i \in 1..Len(activations) /\ i - 1 \in 1..Len(activations) /\ Len(activations) \in Nat
      BY DEF Inv, TypeOK
    <2>2. activations[i].bundle = i /\ activations[i - 1].bundle = i - 1
      BY <2>1 DEF Inv, TypeOK, InTurn
    <2>3. i \in Versions \ {1} /\ i - 1 \in Versions /\ bundles[i] # NoBundle /\ bundles[i - 1] # NoBundle
      BY <2>1, InTurnFacts
    <2>4. PICK c \in Candidates : c = bundles[i].source /\ bundles[i].policy = Merged(i - 1, c)
      BY <2>3 DEF BuiltOnParent
    <2>5. bundles[i - 1].policy \in Policies
      BY <2>3 DEF Inv, TypeOK, Bundles
    <2>6. bundles[i].policy[s] = IF s = SlotOf[c] THEN c ELSE bundles[i - 1].policy[s]
      BY <2>4, <2>5 DEF Merged, Policies
    <2> QED BY <2>2, <2>4, <2>6
  <1> QED BY <1>1, ReleaseInvariance, PTL

=============================================================================
