------------------------- MODULE AgentRuntimeProofs -------------------------
(***************************************************************************)
(* Proofs about AgentRuntime, for any number of callers, any script of the *)
(* playbook, any budgets, faults and switches.                             *)
(***************************************************************************)
EXTENDS AgentRuntime, FiniteSetTheorems, SequenceTheorems, Induction

-----------------------------------------------------------------------------
(* Programs. *)

LEMMA StateIsSeq ==
    ASSUME NEW s \in States
    PROVE  s \in Seq(Actions) /\ Len(s) \in 0..MaxSteps
  <1>1. PICK m \in 0..MaxSteps : s \in [1..m -> Actions]
    BY DEF States, SeqOf
  <1>2. m \in Nat /\ MaxSteps \in Nat
    BY AgentRuntimeAssumption
  <1> QED BY <1>1, <1>2

LEMMA SeqIsState ==
    ASSUME NEW s \in Seq(Actions), Len(s) <= MaxSteps
    PROVE  s \in States
  <1>1. Len(s) \in 0..MaxSteps /\ s \in [1..Len(s) -> Actions]
    BY AgentRuntimeAssumption
  <1> QED BY <1>1 DEF States, SeqOf

\* What a run starts from is not "no checkpoint".
LEMMA StartIsRow == [state |-> << >>, counters |-> NoCalls] # NoRow
  <1>1. NoCalls \in Counters /\ << >> \in States
    <2>1. /\ << >> \in Seq(Actions) /\ Len(<< >>) = 0 /\ 0 <= MaxSteps
          /\ 0 \in 0..MaxModelCalls /\ 0 \in 0..MaxSteps /\ 0 \in 0..MaxToolCalls
      BY AgentRuntimeAssumption
    <2> QED BY <2>1, SeqIsState DEF NoCalls, Counters
  <1> QED BY <1>1, AgentRuntimeSentinels

\* A program has applied nothing yet.
LEMMA EmptyIsState == << >> \in States /\ ~Done(<< >>) /\ Len(<< >>) = 0
  <1>1. << >> \in Seq(Actions) /\ Len(<< >>) = 0 /\ 0 <= MaxSteps
    BY AgentRuntimeAssumption
  <1> QED BY <1>1, SeqIsState DEF Done

LEMMA CountType ==
    ASSUME NEW s \in Seq(Actions), NEW A
    PROVE  /\ IsFiniteSet({i \in DOMAIN s : s[i] \in A})
           /\ Count(s, A) \in Nat /\ Count(s, A) <= Len(s)
  <1>1. IsFiniteSet(1..Len(s)) /\ Cardinality(1..Len(s)) = Len(s)
    <2>1. Len(s) \in Nat
      OBVIOUS
    <2> QED BY <2>1, FS_Interval
  <1>2. {i \in DOMAIN s : s[i] \in A} \subseteq 1..Len(s)
    OBVIOUS
  <1>3. /\ IsFiniteSet({i \in DOMAIN s : s[i] \in A})
        /\ Cardinality({i \in DOMAIN s : s[i] \in A}) <= Len(s)
        /\ Cardinality({i \in DOMAIN s : s[i] \in A}) \in Nat
    BY <1>1, <1>2, FS_Subset, FS_CardinalityType
  <1> QED BY <1>3 DEF Count

\* One more action of a kind makes the count of that kind grow by one.
LEMMA CountAppend ==
    ASSUME NEW s \in Seq(Actions), NEW a \in Actions, NEW A
    PROVE  Count(Append(s, a), A) = IF a \in A THEN Count(s, A) + 1 ELSE Count(s, A)
  <1> DEFINE I == {i \in DOMAIN s : s[i] \in A}
             J == {i \in DOMAIN Append(s, a) : Append(s, a)[i] \in A}
  <1>1. J = IF a \in A THEN I \cup {Len(s) + 1} ELSE I
    <2>1. /\ DOMAIN Append(s, a) = 1..(Len(s) + 1) /\ DOMAIN s = 1..Len(s)
          /\ Append(s, a)[Len(s) + 1] = a
          /\ \A i \in 1..Len(s) : Append(s, a)[i] = s[i]
      OBVIOUS
    <2>2. 1..(Len(s) + 1) = 1..Len(s) \cup {Len(s) + 1}
      OBVIOUS
    <2> QED BY <2>1, <2>2
  <1>2. IsFiniteSet(I) /\ Len(s) + 1 \notin I
    <2>1. Len(s) + 1 \notin DOMAIN s
      OBVIOUS
    <2> QED BY <2>1, CountType
  <1>3. Cardinality(I \cup {Len(s) + 1}) = Cardinality(I) + 1
    BY <1>2, FS_AddElement
  <1> QED BY <1>1, <1>3 DEF Count

LEMMA ToolCallsType ==
    ASSUME NEW s \in Seq(Actions)
    PROVE  ToolCalls(s) \in Nat /\ (s = << >> => ToolCalls(s) = 0)
  <1>1. ToolCalls(s) \in Nat /\ ToolCalls(s) <= Len(s)
    BY CountType DEF ToolCalls
  <1> QED BY <1>1

LEMMA ToolCallsAppend ==
    ASSUME NEW s \in Seq(Actions), NEW a \in Actions
    PROVE  ToolCalls(Append(s, a)) = IF a \in ToolActions THEN ToolCalls(s) + 1 ELSE ToolCalls(s)
  BY CountAppend DEF ToolCalls

LEMMA PlaybookType ==
    ASSUME NEW s \in Seq(Actions)
    PROVE  Playbook(s) \in Actions
  <1>1. Count(s, Actions \ Stalls) + 1 \in Nat \ {0}
    <2>1. Count(s, Actions \ Stalls) \in Nat
      BY CountType
    <2> QED BY <2>1
  <1>2. \A n \in Nat \ {0} : n < Len(Script) => Script[n] \in {"tool", "link", "conclude"}
    BY AgentRuntimeAssumption
  <1> QED BY <1>1, <1>2 DEF Playbook, Actions

\* What a sequence is made of.
LEMMA AppendParts ==
    ASSUME NEW s \in Seq(Actions), NEW a \in Actions
    PROVE  /\ Append(s, a) \in Seq(Actions) /\ Append(s, a) # << >>
           /\ Len(Append(s, a)) = Len(s) + 1
           /\ Front(Append(s, a)) = s /\ Last(Append(s, a)) = a
  <1>1. /\ Append(s, a) \in Seq(Actions) /\ Len(Append(s, a)) = Len(s) + 1
        /\ Append(s, a)[Len(s) + 1] = a
        /\ \A i \in 1..Len(s) : Append(s, a)[i] = s[i]
    OBVIOUS
  <1>2. SubSeq(Append(s, a), 1, Len(s)) = s
    BY <1>1
  <1> QED BY <1>1, <1>2 DEF Front, Last

LEMMA FrontAndLast ==
    ASSUME NEW s \in Seq(Actions), s # << >>
    PROVE  /\ Front(s) \in Seq(Actions) /\ Last(s) \in Actions
           /\ Len(Front(s)) = Len(s) - 1
           /\ s = Append(Front(s), Last(s))
  <1>1. Len(s) \in Nat \ {0}
    OBVIOUS
  <1>2. /\ Front(s) \in Seq(Actions) /\ Len(Front(s)) = Len(s) - 1
        /\ \A i \in 1..(Len(s) - 1) : Front(s)[i] = s[i]
    <2> DEFINE n == Len(s) - 1
    <2>1. n \in Nat /\ \A i \in 1..n : s[i] \in Actions
      BY <1>1
    <2> HIDE DEF n
    <2>2. /\ SubSeq(s, 1, n) \in Seq(Actions)
          /\ Len(SubSeq(s, 1, n)) = n
          /\ \A i \in 1..n : SubSeq(s, 1, n)[i] = s[i]
      <3>1. /\ SubSeq(s, 1, n) \in Seq(Actions)
            /\ Len(SubSeq(s, 1, n)) = IF 1 <= n THEN n - 1 + 1 ELSE 0
            /\ \A i \in 1..(n - 1 + 1) : SubSeq(s, 1, n)[i] = s[1 + i - 1]
        BY <2>1, SubSeqProperties
      <3>2. n - 1 + 1 = n /\ \A i \in 1..n : 1 + i - 1 = i
        BY <2>1
      <3> QED BY <2>1, <3>1, <3>2
    <2> QED BY <2>2 DEF Front, n
  <1>3. Last(s) \in Actions
    BY <1>1 DEF Last
  <1>4. /\ Append(Front(s), Last(s)) \in Seq(Actions)
        /\ Len(Append(Front(s), Last(s))) = Len(s)
        /\ \A i \in 1..Len(s) : Append(Front(s), Last(s))[i] = s[i]
    BY <1>1, <1>2, <1>3 DEF Last
  <1> QED BY <1>2, <1>3, <1>4

\* A proposal is looked up in a state only if it is there.
LEMMA ProposalType ==
    ASSUME NEW s \in Seq(Actions), HasLink(s)
    PROVE  Proposal(s) \in Nat
  <1>1. PICK k \in 1..Len(s) : k = CHOOSE i \in DOMAIN s : s[i] = "link"
    BY DEF HasLink, Contains
  <1>2. SubSeq(s, 1, k) \in Seq(Actions)
    OBVIOUS
  <1>3. Count(SubSeq(s, 1, k), {"tool"}) \in Nat
    BY <1>2, CountType
  <1> QED BY <1>1, <1>3 DEF Proposal

-----------------------------------------------------------------------------
(* Types. *)

LEMMA IdleType == Idle \in Calls
  <1>1. NoCalls \in Counters
    BY AgentRuntimeAssumption DEF NoCalls, Counters
  <1> QED BY <1>1, EmptyIsState DEF Idle, Calls, Runs, Policies, Reasons

LEMMA FinalizeType ==
    ASSUME NEW s \in States, NEW reason \in Reasons, NEW c \in Counters
    PROVE  /\ Finalize(s, reason, c) \in Results /\ Finalize(s, reason, c) # NoResult
           /\ Finalize(s, reason, c).state = s /\ Finalize(s, reason, c).reason = reason
  <1>1. Finalize(s, reason, c) \in Results
    BY DEF Finalize, Results, Runs, Counters
  <1> QED BY <1>1, AgentRuntimeSentinels DEF Finalize

\* The latest checkpoint of a run is the last one there is.
LEMMA LastRowType ==
    ASSUME NEW r
    PROVE  /\ LastRow(r) \in 0..MaxSteps
           /\ LastRow(r) # 0 => steps[r][LastRow(r)] # NoRow
  <1> DEFINE S == {0} \cup {n \in 1..MaxSteps : steps[r][n] # NoRow}
  <1>1. S \subseteq 0..MaxSteps /\ MaxSteps \in Nat
    BY AgentRuntimeAssumption
  <1>2. \E x \in S : \A y \in S : x >= y
    <2> DEFINE T == {k \in Nat : \A y \in S : y <= k}
    <2>1. MaxSteps \in T
      BY <1>1
    <2>2. PICK x \in T : \A k \in T : x <= k
      BY <2>1, LeastNumber
    <2>3. CASE x = 0
      BY <2>2, <2>3, <1>1
    <2>4. CASE x # 0 /\ x \notin S
      <3>1. x - 1 \in T
        BY <2>2, <2>4, <1>1
      <3> QED BY <3>1, <2>2
    <2> QED BY <2>2, <2>3, <2>4
  <1>3. LastRow(r) \in S
    BY <1>2 DEF LastRow, Max
  <1> QED BY <1>1, <1>3

LEMMA InitTypes == Init => TypeOK
  <1> SUFFICES ASSUME Init PROVE TypeOK
    OBVIOUS
  <1>1. \A w \in Workers : run[w] \in Calls
    BY IdleType DEF Init
  <1> QED BY <1>1 DEF Init, TypeOK, Steps

-----------------------------------------------------------------------------
(* What is stored stays. *)

StoreGrows ==
    /\ started \subseteq started'
    /\ \A r \in Runs, n \in 1..MaxSteps : steps[r][n] # NoRow => steps'[r][n] = steps[r][n]
    /\ \A r \in Runs : results[r] # NoResult => results'[r] = results[r]

LEMMA CheckpointsStay ==
    ASSUME StoreGrows, NEW r \in Runs, NEW n \in 0..MaxSteps, At(r, n) # NoRow
    PROVE  At(r, n)' = At(r, n)
  BY DEF StoreGrows, At

\* What a call relies on survives the steps of others.
LEMMA OthersUndisturbed ==
    ASSUME TypeOK, StoreGrows, NEW w \in Workers, CallOK(w),
           pc'[w] = pc[w], run'[w] = run[w]
    PROVE  CallOK(w)'
  <1> DEFINE r == run[w]
             n == Len(r.state)
  <1>1. r \in Calls /\ r.id \in Runs /\ r.state \in States /\ r.reason \in Reasons
        /\ r.counters \in Counters
    BY DEF TypeOK, Calls
  <1>2. n \in 0..MaxSteps /\ (n > 0 => n - 1 \in 0..MaxSteps)
    BY <1>1, StateIsSeq, AgentRuntimeAssumption
  <1>3. /\ At(r.id, n) # NoRow => At(r.id, n)' = At(r.id, n)
        /\ n > 0 /\ At(r.id, n - 1) # NoRow => At(r.id, n - 1)' = At(r.id, n - 1)
    BY <1>1, <1>2, CheckpointsStay
  <1>4. results[r.id] = Finalize(r.state, r.reason, r.counters) => results'[r.id] = results[r.id]
    BY <1>1, FinalizeType DEF StoreGrows
  <1>5. r.id \in started => r.id \in started'
    BY DEF StoreGrows
  <1> QED BY <1>2, <1>3, <1>4, <1>5 DEF CallOK

-----------------------------------------------------------------------------
(* A step of one call. *)

LocalTypes ==
    /\ pc \in [Workers -> Steps]
    /\ run \in [Workers -> Calls]
    /\ answer \in [Workers -> (Runs \X Results) \cup {NoAnswer}]

\* Worker w is at a step with call r, and the others are where they were.
Moves(w, step, r) ==
    /\ LocalTypes'
    /\ pc'[w] = step /\ run'[w] = r
    /\ \A u \in Workers \ {w} : pc'[u] = pc[u] /\ run'[u] = run[u]

LEMMA WorkerMoves ==
    ASSUME LocalTypes, NEW w \in Workers, NEW step \in Steps, NEW r \in Calls,
           NEW a \in (Runs \X Results) \cup {NoAnswer}
    PROVE  /\ Goto(w, step) => Moves(w, step, run[w])
           /\ Continue(w, r, step) => Moves(w, step, r)
           /\ Return(w, a) => Moves(w, "idle", Idle)
  <1>1. Goto(w, step) => Moves(w, step, run[w])
    BY DEF LocalTypes, Goto, Moves
  <1>2. Continue(w, r, step) => Moves(w, step, r)
    BY DEF LocalTypes, Continue, Moves
  <1>3. Return(w, a) => Moves(w, "idle", Idle)
    BY IdleType DEF LocalTypes, Return, Moves, Steps
  <1> QED BY <1>1, <1>2, <1>3

\* Checkpoints that stay go on being one history.
LEMMA RowStays ==
    ASSUME TypeOK, RowsFollow, StoreGrows, NEW r \in Runs, NEW n \in 1..MaxSteps,
           steps[r][n] # NoRow
    PROVE  /\ steps'[r][n] = steps[r][n]
           /\ r \in started'
           /\ n > 1 => steps'[r][n - 1] # NoRow
           /\ Len(steps'[r][n].state) = n
           /\ Follows(At(r, n - 1)', steps'[r][n])
  <1>1. /\ r \in started /\ Len(steps[r][n].state) = n
        /\ n > 1 => steps[r][n - 1] # NoRow
        /\ Follows(At(r, n - 1), steps[r][n])
    BY DEF RowsFollow
  <1>2. n - 1 \in 0..MaxSteps /\ (n > 1 => n - 1 \in 1..MaxSteps)
    BY AgentRuntimeAssumption
  <1>3. At(r, n - 1) # NoRow
    BY <1>1, <1>2, StartIsRow DEF At
  <1>4. At(r, n - 1)' = At(r, n - 1)
    BY <1>2, <1>3, CheckpointsStay
  <1> QED BY <1>1, <1>2, <1>4 DEF StoreGrows

LEMMA RecordedStays ==
    ASSUME TypeOK, ResultIsRecorded, ResultsEnd, StoreGrows, NEW r \in Runs,
           results[r] # NoResult
    PROVE  /\ results'[r] = results[r]
           /\ LET s == results'[r].state
                  row == At(r, Len(results[r].state))'
              IN  /\ row # NoRow
                  /\ results'[r] = Finalize(row.state, results'[r].reason, row.counters)
                  /\ IF Done(s) THEN results'[r].reason = "none"
                     ELSE results'[r].reason \in Exhausted(Used(s)) \ {"none"}
  <1>1. PICK n \in 0..MaxSteps : n = Len(results[r].state)
    <2>1. results[r] \in Results
      BY DEF TypeOK
    <2> QED BY <2>1, StateIsSeq DEF Results
  <1>2. /\ At(r, n) # NoRow
        /\ results[r] = Finalize(At(r, n).state, results[r].reason, At(r, n).counters)
    BY <1>1 DEF ResultIsRecorded
  <1>3. At(r, n)' = At(r, n)
    BY <1>2, CheckpointsStay
  <1>4. results'[r] = results[r]
    BY DEF StoreGrows
  <1>5. At(r, Len(results[r].state))' = At(r, n)'
    BY <1>1, <1>4 DEF At
  <1>6. IF Done(results[r].state) THEN results[r].reason = "none"
        ELSE results[r].reason \in Exhausted(Used(results[r].state)) \ {"none"}
    BY DEF ResultsEnd
  <1> QED BY <1>2, <1>3, <1>4, <1>5, <1>6

\* A step that stores no checkpoint and no result disturbs nothing stored.
LEMMA NothingStored ==
    ASSUME Inv, UNCHANGED <<started, steps, results>>
    PROVE  StoreGrows /\ RowsFollow' /\ ResultIsRecorded' /\ ResultsEnd'
  <1>1. StoreGrows
    BY DEF StoreGrows
  <1>2. RowsFollow'
    BY DEF Inv, RowsFollow, At
  <1>3. ResultIsRecorded'
    BY DEF Inv, ResultIsRecorded, At
  <1>4. ResultsEnd'
    BY DEF Inv, ResultsEnd
  <1> QED BY <1>1, <1>2, <1>3, <1>4

LEMMA CallsStay ==
    ASSUME Inv, StoreGrows, NEW w \in Workers, NEW step, NEW r, Moves(w, step, r), CallOK(w)'
    PROVE  \A u \in Workers : CallOK(u)'
  <1> SUFFICES ASSUME NEW u \in Workers \ {w} PROVE CallOK(u)'
    OBVIOUS
  <1> QED BY OthersUndisturbed DEF Moves, Inv

LEMMA InitInv == Init => Inv
  <1> SUFFICES ASSUME Init PROVE Inv
    OBVIOUS
  <1>1. RowsFollow /\ ResultIsRecorded /\ ResultsEnd
    BY DEF Init, RowsFollow, ResultIsRecorded, ResultsEnd
  <1>2. ASSUME NEW w \in Workers PROVE CallOK(w)
    BY DEF Init, CallOK
  <1> QED BY <1>1, <1>2, InitTypes DEF Inv

-----------------------------------------------------------------------------
(* Every step keeps the invariant: first those that only move a call on.   *)

SharedTypes ==
    /\ suspended \in BOOLEAN /\ ops \in BOOLEAN
    /\ proposal \in Nat \cup {NoProposal}
    /\ linkAudited \in BOOLEAN
    /\ memory \subseteq {r \in Runs : results[r] # NoResult}

LEMMA CallMovesOn ==
    ASSUME Inv, UNCHANGED <<started, steps, results>>, SharedTypes',
           NEW w \in Workers, NEW step, NEW r, Moves(w, step, r), CallOK(w)'
    PROVE  Inv'
  <1>1. StoreGrows /\ RowsFollow' /\ ResultIsRecorded' /\ ResultsEnd'
    BY NothingStored
  <1>2. \A u \in Workers : CallOK(u)'
    BY <1>1, CallsStay
  <1>3. TypeOK'
    BY DEF Inv, TypeOK, SharedTypes, Moves, LocalTypes
  <1> QED BY <1>1, <1>2, <1>3 DEF Inv

LEMMA InvTypes ==
    ASSUME Inv
    PROVE  LocalTypes /\ SharedTypes
  BY DEF Inv, TypeOK, LocalTypes, SharedTypes

\* A call that ends relies on nothing.
LEMMA IdleIsOK ==
    ASSUME NEW w \in Workers, pc[w] = "idle"
    PROVE  CallOK(w)
  BY DEF CallOK

LEMMA StartInv ==
    ASSUME Inv, NEW w \in Workers, Start(w)
    PROVE  Inv'
  <1> DEFINE id == IF suspended THEN "playbook" ELSE "llm"
             r == [Idle EXCEPT !.id = id]
  <1>1. UNCHANGED <<started, steps, results>> /\ SharedTypes'
    BY InvTypes DEF Start, store, environment, SharedTypes
  <1>2. CASE results[id] # NoResult
    <2>1. <<id, results[id]>> \in (Runs \X Results) \cup {NoAnswer}
      BY <1>2 DEF Inv, TypeOK, Runs
    <2>2. Moves(w, "idle", Idle)
      BY <1>2, <2>1, InvTypes, WorkerMoves, IdleType DEF Start, Steps
    <2>3. CallOK(w)'
      BY <2>2 DEF Moves, CallOK
    <2> QED BY <1>1, <2>2, <2>3, CallMovesOn
  <1>3. CASE results[id] = NoResult
    <2>1. r \in Calls
      BY IdleType DEF Calls, Idle, Runs
    <2>2. Moves(w, "read_run", r)
      BY <1>3, <2>1, InvTypes DEF Start, Moves, LocalTypes, Steps
    <2>3. r.state = << >> /\ r.counters = NoCalls
      BY DEF Idle
    <2>4. CallOK(w)'
      BY <2>2, <2>3 DEF Moves, CallOK
    <2> QED BY <1>1, <2>2, <2>4, CallMovesOn
  <1> QED BY <1>2, <1>3

LEMMA ReadRunInv ==
    ASSUME Inv, NEW w \in Workers, ReadRun(w)
    PROVE  Inv'
  <1> DEFINE step == IF run[w].id \in started THEN "read_steps" ELSE "insert_run"
  <1>1. UNCHANGED <<started, steps, results>> /\ SharedTypes'
    BY InvTypes DEF ReadRun, store, environment, SharedTypes
  <1>2. Moves(w, step, run[w])
    BY InvTypes, WorkerMoves DEF ReadRun, Steps, LocalTypes
  <1>3. run[w].state = << >> /\ run[w].counters = NoCalls
    BY DEF Inv, CallOK, ReadRun
  <1>4. CallOK(w)'
    BY <1>1, <1>2, <1>3 DEF Moves, CallOK
  <1> QED BY <1>1, <1>2, <1>4, CallMovesOn

LEMMA ReadStepsInv ==
    ASSUME Inv, NEW w \in Workers, ReadSteps(w)
    PROVE  Inv'
  <1> DEFINE id == run[w].id
             n == LastRow(id)
             row == steps[id][n]
             r == IF n = 0 THEN run[w]
                  ELSE [run[w] EXCEPT !.state = row.state, !.counters = row.counters]
  <1>1. UNCHANGED <<started, steps, results>> /\ SharedTypes'
    BY InvTypes DEF ReadSteps, store, environment, SharedTypes
  <1>2. run[w] \in Calls /\ id \in Runs
    BY DEF Inv, TypeOK, Calls
  <1>3. n \in 0..MaxSteps /\ (n # 0 => row # NoRow)
    BY LastRowType
  <1>4. id \in started /\ run[w].state = << >> /\ run[w].counters = NoCalls
    BY DEF Inv, CallOK, ReadSteps
  <1>5. n # 0 => n \in 1..MaxSteps /\ row \in Rows /\ Len(row.state) = n
    <2>1. n # 0 => n \in 1..MaxSteps
      BY <1>3
    <2>2. steps[id] \in [1..MaxSteps -> Rows \cup {NoRow}]
      BY <1>2 DEF Inv, TypeOK
    <2>3. n # 0 => Len(row.state) = n
      BY <1>2, <1>3, <2>1 DEF Inv, RowsFollow
    <2> QED BY <1>3, <2>1, <2>2, <2>3
  <1>6. r \in Calls /\ r.id = id
    BY <1>2, <1>5 DEF Calls, Rows
  <1>7. Moves(w, "loop", r)
    BY <1>6, InvTypes, WorkerMoves DEF ReadSteps, Steps
  <1>8. /\ At(id, Len(r.state)) # NoRow
        /\ At(id, Len(r.state)).state = r.state /\ At(id, Len(r.state)).counters = r.counters
    <2>1. CASE n = 0
      BY <2>1, <1>4, StartIsRow, EmptyIsState DEF At
    <2>2. CASE n # 0
      <3>1. r.state = row.state /\ r.counters = row.counters /\ Len(r.state) = n
        BY <1>2, <1>5, <2>2 DEF Calls
      <3>2. At(id, n) = row
        BY <2>2 DEF At
      <3> QED BY <3>1, <3>2, <2>2, <1>3
    <2> QED BY <2>1, <2>2
  <1>9. CallOK(w)'
    BY <1>1, <1>4, <1>6, <1>7, <1>8 DEF Moves, CallOK, At
  <1> QED BY <1>1, <1>7, <1>9, CallMovesOn

LEMMA SpentType ==
    ASSUME NEW c
    PROVE  /\ Spent(c) \in {"none", "BUDGET_STEPS", "BUDGET_TOOL_CALLS"}
           /\ Exhausted(c) \subseteq Reasons
           /\ "none" \in Exhausted(c) => Spent(c) = "none"
  BY DEF Spent, Exhausted, Reasons

\* Counters that tell what the state tells are exhausted when the state says so.
LEMMA CountedIsUsed ==
    ASSUME NEW row, Counted(row)
    PROVE  /\ Spent(row.counters) = Spent(Used(row.state))
           /\ Exhausted(row.counters) = Exhausted(Used(row.state))
  BY DEF Counted, Used, Spent, Exhausted

\* What a checkpoint holds, the start of a run included.
LEMMA AtType ==
    ASSUME TypeOK, NEW r \in Runs, NEW n \in 0..MaxSteps, At(r, n) # NoRow
    PROVE  At(r, n).state \in States /\ At(r, n).state \in Seq(Actions)
  <1>1. CASE n = 0
    BY <1>1, EmptyIsState, StateIsSeq DEF At
  <1>2. CASE n # 0
    <2>1. steps[r] \in [1..MaxSteps -> Rows \cup {NoRow}] /\ n \in 1..MaxSteps
      BY <1>2 DEF TypeOK
    <2>2. At(r, n) \in Rows
      BY <1>2, <2>1 DEF At
    <2> QED BY <2>2, StateIsSeq DEF Rows
  <1> QED BY <1>1, <1>2

\* Every checkpoint counts what its state shows, the start of a run included.
LEMMA AtCounted ==
    ASSUME RowsFollow, NEW r \in Runs, NEW n \in 0..MaxSteps, At(r, n) # NoRow
    PROVE  Counted(At(r, n))
  <1>1. CASE n = 0
    <2>1. << >> \in Seq(Actions)
      OBVIOUS
    <2>2. ToolCalls(<< >>) = 0 /\ Len(<< >>) = 0
      BY <2>1, ToolCallsType
    <2> QED BY <1>1, <2>2 DEF At, Counted, NoCalls
  <1>2. CASE n # 0
    BY <1>2 DEF RowsFollow, Follows, At
  <1> QED BY <1>1, <1>2

\* Counters stay within the budget, and only grow.
LEMMA CountersType ==
    ASSUME NEW c \in Counters
    PROVE  /\ FellBack(c) \in Counters /\ FellBack(c).calls = c.calls
           /\ FellBack(c).steps = c.steps /\ FellBack(c).tools = c.tools
           /\ c.calls \in Nat
           /\ c.calls < MaxModelCalls =>
                 \A k \in Asked(c) : /\ k \in Counters /\ c.calls + 1 <= k.calls
                                     /\ k.steps = c.steps /\ k.tools = c.tools
  <1>1. c.calls \in 0..MaxModelCalls /\ MaxModelCalls \in Nat
    BY AgentRuntimeAssumption DEF Counters
  <1>2. /\ FellBack(c) \in Counters /\ FellBack(c).calls = c.calls
        /\ FellBack(c).steps = c.steps /\ FellBack(c).tools = c.tools
    BY DEF Counters, FellBack
  <1>3. ASSUME c.calls < MaxModelCalls, NEW k \in Asked(c)
        PROVE  /\ k \in Counters /\ c.calls + 1 <= k.calls
               /\ k.steps = c.steps /\ k.tools = c.tools
    <2>1. PICK n \in {1, 2} : k = [c EXCEPT !.calls = @ + n] /\ c.calls + n <= MaxModelCalls
      BY <1>1, <1>3 DEF Asked
    <2>2. c.calls + n \in 0..MaxModelCalls /\ c.calls + 1 <= c.calls + n
      BY <1>1, <2>1
    <2>3. /\ [c EXCEPT !.calls = @ + n] \in Counters /\ [c EXCEPT !.calls = @ + n].calls = c.calls + n
          /\ [c EXCEPT !.calls = @ + n].steps = c.steps /\ [c EXCEPT !.calls = @ + n].tools = c.tools
      BY <2>2 DEF Counters
    <2> QED BY <2>1, <2>2, <2>3
  <1> QED BY <1>1, <1>2, <1>3

\* Counters kept by an action that is applied within the budgets.
LEMMA AppliedType ==
    ASSUME NEW s \in States, NEW c \in Counters, NEW a \in Actions, NEW q \in Policies,
           Counted([state |-> s, counters |-> c]), Spent(c) = "none"
    PROVE  LET d == Applied(s, a, q, c)
           IN  /\ d.state = Append(s, a) /\ d.state \in States /\ d.policy = q
               /\ d.counters \in Counters /\ d.counters.calls = c.calls
               /\ Counted(d)
  <1>1. s \in Seq(Actions) /\ Len(s) \in 0..MaxSteps /\ ToolCalls(s) \in Nat
    BY StateIsSeq, ToolCallsType
  <1>2. c.steps = Len(s) /\ c.tools = ToolCalls(s)
    BY DEF Counted
  <1>3. Len(s) + 1 \in 0..MaxSteps /\ ToolCalls(s) \in 0..MaxToolCalls
        /\ ToolCalls(s) + 1 \in 0..MaxToolCalls
    BY <1>1, <1>2, AgentRuntimeAssumption DEF Spent
  <1>4. /\ Append(s, a) \in States /\ Len(Append(s, a)) = Len(s) + 1
        /\ ToolCalls(Append(s, a)) = IF a \in ToolActions THEN ToolCalls(s) + 1 ELSE ToolCalls(s)
    <2>1. Append(s, a) \in Seq(Actions) /\ Len(Append(s, a)) = Len(s) + 1
      BY <1>1, AppendParts
    <2>2. Append(s, a) \in States
      <3>1. Len(s) + 1 <= MaxSteps
        BY <1>3
      <3> QED BY <2>1, <3>1, SeqIsState
    <2>3. ToolCalls(Append(s, a)) = IF a \in ToolActions THEN ToolCalls(s) + 1 ELSE ToolCalls(s)
      BY <1>1, ToolCallsAppend
    <2> QED BY <2>1, <2>2, <2>3
  <1> DEFINE k == [c EXCEPT !.steps = @ + 1, !.tools = @ + (IF a \in ToolActions THEN 1 ELSE 0)]
  <1>5. /\ k.steps = Len(s) + 1 /\ k.calls = c.calls
        /\ k.tools = (IF a \in ToolActions THEN ToolCalls(s) + 1 ELSE ToolCalls(s))
        /\ k \in Counters
    <2>1. c.steps + 1 = Len(s) + 1
      BY <1>2
    <2>2. c.tools + (IF a \in ToolActions THEN 1 ELSE 0)
             = IF a \in ToolActions THEN ToolCalls(s) + 1 ELSE ToolCalls(s)
      BY <1>1, <1>2
    <2> QED BY <1>3, <2>1, <2>2 DEF Counters
  <1> HIDE DEF k
  <1>6. Applied(s, a, q, c) = [state |-> Append(s, a), policy |-> q, counters |-> k]
    BY DEF Applied, k
  <1> QED BY <1>4, <1>5, <1>6 DEF Counted

\* What _next_action() decides: one more action, counted, no model call less and
\* one more if the model was asked, the playbook's action unless the model chose it.
LEMMA DecisionsType ==
    ASSUME NEW s \in States, NEW c \in Counters, NEW d \in Decisions(s, c),
           Counted([state |-> s, counters |-> c]), Spent(c) = "none"
    PROVE  /\ d.state \in States /\ d.policy \in Policies /\ d.counters \in Counters
           /\ \E a \in Actions : d.state = Append(s, a) /\ (d.policy # "llm" => a = Playbook(s))
           /\ Counted(d)
           /\ c.calls <= d.counters.calls
           /\ d.policy \in Asking => c.calls + 1 <= d.counters.calls
  <1>1. Playbook(s) \in Actions
    BY StateIsSeq, PlaybookType
  <1>2. c.calls \in Nat /\ MaxModelCalls \in Nat
    BY CountersType, AgentRuntimeAssumption
  <1> DEFINE Same(k) == k \in Counters /\ k.steps = c.steps /\ k.tools = c.tools
             More == {k \in Counters : Same(k) /\ c.calls <= k.calls}
             MoreAsked == {k \in Counters : Same(k) /\ c.calls + 1 <= k.calls}
  <1>3. c \in More /\ FellBack(c) \in More
    BY <1>2, CountersType
  <1>4. ASSUME c.calls < MaxModelCalls, NEW k \in Asked(c)
        PROVE  k \in MoreAsked /\ FellBack(k) \in MoreAsked
    <2>1. k \in Counters /\ c.calls + 1 <= k.calls /\ k.steps = c.steps /\ k.tools = c.tools
      BY <1>4, CountersType
    <2>2. /\ FellBack(k) \in Counters /\ FellBack(k).calls = k.calls
          /\ FellBack(k).steps = k.steps /\ FellBack(k).tools = k.tools
      BY <2>1, CountersType
    <2> QED BY <2>1, <2>2
  <1>5. \E a \in Actions, k \in More, q \in Policies :
            /\ d = Applied(s, a, q, k) /\ (q # "llm" => a = Playbook(s))
            /\ q \in Asking => k \in MoreAsked
    <2>1. MoreAsked \subseteq More
      <3>1. \A k \in Counters : k.calls \in Nat
        BY CountersType
      <3> QED BY <1>2, <3>1
    <2> HIDE DEF More, MoreAsked
    <2>2. CASE suspended \/ c.calls >= MaxModelCalls \/ NeedsPlaybook(s)
      BY <1>1, <1>3, <2>2 DEF Decisions, Policies, Asking
    <2>3. CASE ~(suspended \/ c.calls >= MaxModelCalls \/ NeedsPlaybook(s))
      <3>1. c.calls < MaxModelCalls
        BY <1>2, <2>3
      <3>2. \/ \E a \in Actions, k \in Asked(c) : d = Applied(s, a, "llm", k)
            \/ \E k \in Asked(c) : d = Applied(s, Playbook(s), "playbook-fallback", FellBack(k))
        BY <2>3 DEF Decisions
      <3>3. CASE \E a \in Actions, k \in Asked(c) : d = Applied(s, a, "llm", k)
        BY <1>4, <2>1, <3>1, <3>3 DEF Policies
      <3>4. CASE \E k \in Asked(c) : d = Applied(s, Playbook(s), "playbook-fallback", FellBack(k))
        BY <1>1, <1>4, <2>1, <3>1, <3>4 DEF Policies
      <3> QED BY <3>2, <3>3, <3>4
    <2> QED BY <2>2, <2>3
  <1>6. PICK a \in Actions, k \in More, q \in Policies :
            /\ d = Applied(s, a, q, k) /\ (q # "llm" => a = Playbook(s))
            /\ q \in Asking => k \in MoreAsked
    BY <1>5
  <1>7. k \in Counters /\ Counted([state |-> s, counters |-> k]) /\ Spent(k) = "none"
    BY <1>6 DEF Counted, Spent
  <1>8. /\ d.state = Append(s, a) /\ d.state \in States /\ d.policy = q
        /\ d.counters \in Counters /\ d.counters.calls = k.calls
        /\ Counted(d)
    BY <1>6, <1>7, AppliedType
  <1> QED BY <1>6, <1>8

LEMMA DecideInv ==
    ASSUME Inv, NEW w \in Workers, Decide(w)
    PROVE  Inv'
  <1> DEFINE id == run[w].id
             s == run[w].state
             c == run[w].counters
  <1>1. UNCHANGED <<started, steps, results>> /\ SharedTypes'
    BY InvTypes DEF Decide, store, environment, SharedTypes
  <1>2. run[w] \in Calls /\ id \in Runs /\ s \in States /\ c \in Counters
    BY DEF Inv, TypeOK, Calls
  <1>3. s \in Seq(Actions) /\ Len(s) \in 0..MaxSteps
    BY <1>2, StateIsSeq
  <1>4. /\ id \in started /\ At(id, Len(s)) # NoRow
        /\ At(id, Len(s)).state = s /\ At(id, Len(s)).counters = c
    BY DEF Inv, CallOK, Decide
  <1>5. ~Done(s) /\ Spent(c) = "none"
    BY SpentType DEF Decide
  <1>6. Counted([state |-> s, counters |-> c]) /\ Spent(Used(s)) = "none"
    <2>1. Counted(At(id, Len(s)))
      BY <1>2, <1>3, <1>4, AtCounted DEF Inv
    <2>2. Counted([state |-> s, counters |-> c])
      BY <1>4, <2>1 DEF Counted
    <2>3. Spent(c) = Spent(Used(s))
      BY <2>2 DEF Counted, Used, Spent
    <2> QED BY <1>5, <2>2, <2>3
  <1>7. PICK d \in Decisions(s, c) :
            Continue(w, [run[w] EXCEPT !.state = d.state, !.counters = d.counters,
                                       !.policy = d.policy], "checkpoint")
    BY DEF Decide
  <1> DEFINE r == [run[w] EXCEPT !.state = d.state, !.counters = d.counters,
                                 !.policy = d.policy]
  <1>8. /\ d.state \in States /\ d.policy \in Policies /\ d.counters \in Counters
        /\ \E a \in Actions : d.state = Append(s, a) /\ (d.policy # "llm" => a = Playbook(s))
        /\ Counted(d)
        /\ c.calls <= d.counters.calls
        /\ d.policy \in Asking => c.calls + 1 <= d.counters.calls
    BY <1>2, <1>5, <1>6, DecisionsType
  <1>9. /\ r \in Calls /\ r.id = id
        /\ r.state = d.state /\ r.counters = d.counters /\ r.policy = d.policy
    BY <1>2, <1>8 DEF Calls
  <1>10. Moves(w, "checkpoint", r)
    BY <1>7, <1>9, InvTypes, WorkerMoves DEF Steps
  <1>11. Len(r.state) = Len(s) + 1 /\ Len(r.state) - 1 = Len(s) /\ Len(r.state) > 0
    BY <1>3, <1>8, <1>9, AppendParts
  <1>12. Follows(At(id, Len(s)), r)
    <2> HIDE DEF r
    <2>1. Counted(r)
      BY <1>8, <1>9 DEF Counted
    <2>2. /\ Front(r.state) = s
          /\ r.policy # "llm" => Last(r.state) = Playbook(s)
      BY <1>3, <1>8, <1>9, AppendParts
    <2> QED BY <1>4, <1>5, <1>6, <1>8, <1>9, <1>11, <2>1, <2>2 DEF Follows
  <1>13. CallOK(w)'
    <2>1. pc'[w] = "checkpoint" /\ run'[w] = r
      BY <1>10 DEF Moves
    <2>2. r.id \in started' /\ Len(r.state) > 0
      BY <1>1, <1>4, <1>9, <1>11
    <2>3. At(r.id, Len(r.state) - 1) # NoRow /\ Follows(At(r.id, Len(r.state) - 1), r)
      BY <1>4, <1>9, <1>11, <1>12
    <2>4. At(run[w].id, Len(run[w].state) - 1)' = At(r.id, Len(r.state) - 1)
      BY <1>1, <2>1 DEF At
    <2> HIDE DEF r
    <2> QED BY <2>1, <2>2, <2>3, <2>4 DEF CallOK
  <1> QED BY <1>1, <1>10, <1>13, CallMovesOn

LEMMA ProposalReadInv ==
    ASSUME Inv, NEW w \in Workers, ProposalRead(w)
    PROVE  Inv'
  <1> DEFINE step == IF proposal = NoProposal THEN "proposal_put" ELSE "memory_put"
  <1>1. UNCHANGED <<started, steps, results>> /\ SharedTypes'
    BY InvTypes DEF ProposalRead, store, environment, SharedTypes
  <1>2. Moves(w, step, run[w])
    BY InvTypes, WorkerMoves DEF ProposalRead, Steps, LocalTypes
  <1>3. /\ results[run[w].id] = Finalize(run[w].state, run[w].reason, run[w].counters)
        /\ HasLink(run[w].state)
    BY DEF Inv, CallOK, ProposalRead
  <1>4. CallOK(w)'
    BY <1>1, <1>2, <1>3 DEF Moves, CallOK
  <1> QED BY <1>1, <1>2, <1>4, CallMovesOn

LEMMA ProposalPutInv ==
    ASSUME Inv, NEW w \in Workers, ProposalPut(w)
    PROVE  Inv'
  <1>1. UNCHANGED <<started, steps, results>>
    BY DEF ProposalPut
  <1>2. run[w] \in Calls /\ run[w].state \in Seq(Actions)
    <2>1. run[w] \in Calls /\ run[w].state \in States
      BY DEF Inv, TypeOK, Calls
    <2> QED BY <2>1, StateIsSeq
  <1>3. /\ results[run[w].id] = Finalize(run[w].state, run[w].reason, run[w].counters)
        /\ HasLink(run[w].state)
    BY DEF Inv, CallOK, ProposalPut
  <1>4. SharedTypes'
    <2>1. Proposal(run[w].state) \in Nat
      BY <1>2, <1>3, ProposalType
    <2> QED BY <2>1, InvTypes DEF ProposalPut, environment, SharedTypes
  <1>5. Moves(w, "proposal_audit", run[w]) \/ Moves(w, "idle", Idle)
    BY <1>2, InvTypes, WorkerMoves DEF ProposalPut, Steps, Raise
  <1>6. CallOK(w)'
    BY <1>1, <1>3, <1>5 DEF Moves, CallOK
  <1> QED BY <1>1, <1>4, <1>5, <1>6, CallMovesOn

LEMMA ProposalAuditInv ==
    ASSUME Inv, NEW w \in Workers, ProposalAudit(w)
    PROVE  Inv'
  <1>1. UNCHANGED <<started, steps, results>> /\ SharedTypes'
    BY InvTypes DEF ProposalAudit, environment, SharedTypes
  <1>2. Moves(w, "memory_put", run[w])
    BY InvTypes, WorkerMoves DEF ProposalAudit, Steps, LocalTypes
  <1>3. results[run[w].id] = Finalize(run[w].state, run[w].reason, run[w].counters)
    BY DEF Inv, CallOK, ProposalAudit
  <1>4. CallOK(w)'
    BY <1>1, <1>2, <1>3 DEF Moves, CallOK
  <1> QED BY <1>1, <1>2, <1>4, CallMovesOn

LEMMA MemoryPutInv ==
    ASSUME Inv, NEW w \in Workers, MemoryPut(w)
    PROVE  Inv'
  <1> DEFINE r == run[w]
  <1>1. UNCHANGED <<started, steps, results>>
    BY DEF MemoryPut
  <1>2. /\ r.id \in Runs
        /\ Finalize(r.state, r.reason, r.counters) \in Results
        /\ Finalize(r.state, r.reason, r.counters) # NoResult
    <2>1. r.id \in Runs /\ r.state \in States /\ r.reason \in Reasons /\ r.counters \in Counters
      BY DEF Inv, TypeOK, Calls
    <2> QED BY <2>1, FinalizeType
  <1>3. results[r.id] = Finalize(r.state, r.reason, r.counters)
    BY DEF Inv, CallOK, MemoryPut
  <1>4. SharedTypes'
    BY <1>1, <1>2, <1>3, InvTypes DEF MemoryPut, environment, SharedTypes
  <1>5. Moves(w, "idle", Idle)
    BY <1>2, InvTypes, WorkerMoves, IdleType DEF MemoryPut, Steps
  <1>6. CallOK(w)'
    BY <1>5 DEF Moves, CallOK
  <1> QED BY <1>1, <1>4, <1>5, <1>6, CallMovesOn

LEMMA FailInv ==
    ASSUME Inv, NEW w \in Workers, Fail(w)
    PROVE  Inv'
  <1>1. UNCHANGED <<started, steps, results>> /\ SharedTypes'
    BY InvTypes DEF Fail, store, SharedTypes
  <1>2. Moves(w, "idle", Idle)
    BY InvTypes, WorkerMoves, IdleType DEF Fail, Raise, Steps
  <1>3. CallOK(w)'
    BY <1>2 DEF Moves, CallOK
  <1> QED BY <1>1, <1>2, <1>3, CallMovesOn

-----------------------------------------------------------------------------
(* Then those that stop every call or none, and those of the environment.  *)

LEMMA CrashInv == Inv /\ Crash => Inv'
  <1> SUFFICES ASSUME Inv, Crash PROVE Inv'
    OBVIOUS
  <1>1. UNCHANGED <<started, steps, results>>
    BY DEF Crash, store
  <1>2. RowsFollow' /\ ResultIsRecorded' /\ ResultsEnd'
    BY <1>1, NothingStored
  <1>3. \A w \in Workers : CallOK(w)'
    BY DEF Crash, CallOK
  <1>4. TypeOK'
    BY IdleType DEF Crash, store, Inv, TypeOK, Steps
  <1> QED BY <1>2, <1>3, <1>4 DEF Inv

LEMMA EnvironmentInv ==
    ASSUME Inv, OpsSet \/ PipelineStart \/ UNCHANGED vars
    PROVE  Inv'
  <1>1. UNCHANGED <<store, locals>>
    BY DEF OpsSet, PipelineStart, vars
  <1>2. UNCHANGED <<started, steps, results>> /\ UNCHANGED <<pc, run>>
    BY <1>1 DEF store, locals
  <1>3. StoreGrows /\ RowsFollow' /\ ResultIsRecorded' /\ ResultsEnd'
    BY <1>2, NothingStored
  <1>4. \A w \in Workers : CallOK(w)'
    BY <1>2, <1>3, OthersUndisturbed DEF Inv
  <1>5. suspended' \in BOOLEAN /\ ops' \in BOOLEAN
    BY DEF OpsSet, PipelineStart, vars, environment, Inv, TypeOK
  <1>6. TypeOK'
    BY <1>1, <1>5 DEF store, locals, Inv, TypeOK
  <1> QED BY <1>3, <1>4, <1>6 DEF Inv

-----------------------------------------------------------------------------
(* Last those that store something of the run.                             *)

LEMMA InsertRunInv ==
    ASSUME Inv, NEW w \in Workers, InsertRun(w)
    PROVE  Inv'
  <1> DEFINE id == run[w].id
  <1>1. run[w] \in Calls /\ id \in Runs
    BY DEF Inv, TypeOK, Calls
  <1>2. /\ started \subseteq started' /\ started' \subseteq Runs
        /\ UNCHANGED <<steps, results>>
    BY <1>1 DEF InsertRun, Inv, TypeOK
  <1>3. StoreGrows
    BY <1>2 DEF StoreGrows
  <1>4. RowsFollow'
    BY <1>2, <1>3, RowStays DEF Inv, RowsFollow
  <1>5. ResultIsRecorded' /\ ResultsEnd'
    BY <1>2 DEF Inv, ResultIsRecorded, ResultsEnd, At
  <1>6. \/ Moves(w, "loop", run[w]) /\ id \in started'
        \/ Moves(w, "idle", Idle)
    BY <1>1, InvTypes, WorkerMoves DEF InsertRun, Steps, Raise
  <1>7. run[w].state = << >> /\ run[w].counters = NoCalls
    BY DEF Inv, CallOK, InsertRun
  <1>8. CallOK(w)'
    <2>1. CASE Moves(w, "loop", run[w]) /\ id \in started'
      <3>1. pc'[w] = "loop" /\ run'[w] = run[w] /\ id \in started'
        BY <2>1 DEF Moves
      <3>2. Len(run[w].state) = 0
        BY <1>7
      <3>3. At(run[w].id, Len(run[w].state))' = [state |-> << >>, counters |-> NoCalls]
        BY <3>1, <3>2 DEF At
      <3> QED BY <1>7, <3>1, <3>3, StartIsRow DEF CallOK
    <2>2. CASE Moves(w, "idle", Idle)
      BY <2>2 DEF Moves, CallOK
    <2> QED BY <1>6, <2>1, <2>2
  <1>9. \A u \in Workers : CallOK(u)'
    BY <1>3, <1>6, <1>8, CallsStay
  <1>10. SharedTypes' /\ LocalTypes'
    BY <1>2, <1>6, InvTypes DEF InsertRun, environment, SharedTypes, Moves
  <1>11. TypeOK'
    BY <1>2, <1>10 DEF Inv, TypeOK, SharedTypes, LocalTypes
  <1> QED BY <1>4, <1>5, <1>9, <1>11 DEF Inv

LEMMA CheckpointInv ==
    ASSUME Inv, NEW w \in Workers, Checkpoint(w)
    PROVE  Inv'
  <1> DEFINE id == run[w].id
             n == Len(run[w].state)
             row == [state |-> run[w].state, counters |-> run[w].counters, policy |-> run[w].policy]
  <1>1. /\ run[w] \in Calls /\ id \in Runs /\ row \in Rows
        /\ run[w].state \in States
    BY DEF Inv, TypeOK, Calls, Rows
  <1>2. /\ id \in started /\ n > 0
        /\ At(id, n - 1) # NoRow /\ Follows(At(id, n - 1), run[w])
    BY DEF Inv, CallOK, Checkpoint
  <1>3. n \in 1..MaxSteps /\ n - 1 \in 0..MaxSteps /\ n - 1 + 1 = n
    BY <1>1, <1>2, StateIsSeq, AgentRuntimeAssumption
  <1>4. Follows(At(id, n - 1), row) /\ run[w].counters.steps = n
    BY <1>2 DEF Follows, Counted
  <1>5. UNCHANGED <<started, results>> /\ SharedTypes'
    BY InvTypes DEF Checkpoint, environment, SharedTypes
  <1>6. CASE steps[id][n] # NoRow
    <2>1. UNCHANGED steps /\ Moves(w, "idle", Idle)
      BY <1>4, <1>6, InvTypes, WorkerMoves, IdleType DEF Checkpoint, Steps, Raise
    <2>2. CallOK(w)'
      BY <2>1 DEF Moves, CallOK
    <2> QED BY <1>5, <2>1, <2>2, CallMovesOn
  <1>7. CASE steps[id][n] = NoRow
    <2>1. /\ steps' = [steps EXCEPT ![id][n] = row]
          /\ Moves(w, "loop", run[w])
      BY <1>1, <1>4, <1>7, InvTypes, WorkerMoves DEF Checkpoint, Steps
    <2>2. steps \in [Runs -> [1..MaxSteps -> Rows \cup {NoRow}]]
      BY DEF Inv, TypeOK
    <2>3. /\ steps' \in [Runs -> [1..MaxSteps -> Rows \cup {NoRow}]]
          /\ steps'[id][n] = row
          /\ \A q \in Runs, m \in 1..MaxSteps :
                <<q, m>> # <<id, n>> => steps'[q][m] = steps[q][m]
      BY <1>1, <1>3, <2>1, <2>2
    <2>4. row # NoRow
      BY <1>1, AgentRuntimeSentinels
    <2>5. StoreGrows
      BY <1>5, <1>7, <2>3 DEF StoreGrows
    <2>6. \A q \in Runs, m \in 0..MaxSteps : At(q, m) # NoRow => At(q, m)' = At(q, m)
      BY <2>5, CheckpointsStay
    <2>7. RowsFollow'
      <3> SUFFICES ASSUME NEW q \in Runs, NEW m \in 1..MaxSteps, steps'[q][m] # NoRow
                   PROVE  /\ q \in started'
                          /\ m > 1 => steps'[q][m - 1] # NoRow
                          /\ Len(steps'[q][m].state) = m
                          /\ Follows(At(q, m - 1)', steps'[q][m])
        BY DEF RowsFollow
      <3>1. CASE <<q, m>> # <<id, n>>
        <4>1. steps[q][m] # NoRow
          BY <2>3, <3>1
        <4> QED BY <4>1, <2>5, RowStays DEF Inv
      <3>2. CASE q = id /\ m = n
        <4>1. Len(row.state) = n
          OBVIOUS
        <4>2. m > 1 => At(q, m - 1)' = steps'[q][m - 1]
          BY DEF At
        <4>3. At(q, m - 1) # NoRow /\ Follows(At(q, m - 1), row) /\ m - 1 \in 0..MaxSteps
          BY <1>2, <1>3, <1>4, <3>2
        <4>4. At(q, m - 1)' = At(q, m - 1)
          BY <2>6, <4>3
        <4>5. q \in started' /\ steps'[q][m] = row
          BY <1>2, <1>5, <2>3, <3>2
        <4> HIDE DEF row
        <4> QED BY <3>2, <4>1, <4>2, <4>3, <4>4, <4>5
      <3> QED BY <3>1, <3>2
    <2>8. ResultIsRecorded' /\ ResultsEnd'
      BY <1>5, <2>5, RecordedStays DEF Inv, ResultIsRecorded, ResultsEnd
    <2>9. CallOK(w)'
      <3>1. pc'[w] = "loop" /\ run'[w] = run[w]
        BY <2>1 DEF Moves
      <3>2. At(run[w].id, Len(run[w].state))' = row
        BY <1>3, <2>3, <3>1 DEF At
      <3> HIDE DEF row
      <3>3. row.state = run[w].state /\ row.counters = run[w].counters
        BY DEF row
      <3> QED BY <1>2, <1>5, <2>4, <3>1, <3>2, <3>3 DEF CallOK
    <2>10. \A u \in Workers : CallOK(u)'
      BY <2>1, <2>5, <2>9, CallsStay
    <2>11. TypeOK'
      BY <1>5, <2>1, <2>3 DEF Inv, TypeOK, SharedTypes, Moves, LocalTypes
    <2> QED BY <2>7, <2>8, <2>10, <2>11 DEF Inv
  <1> QED BY <1>6, <1>7

LEMMA FinishInv ==
    ASSUME Inv, NEW w \in Workers, Finish(w)
    PROVE  Inv'
  <1> DEFINE id == run[w].id
             s == run[w].state
             c == run[w].counters
  <1>1. /\ run[w] \in Calls /\ id \in Runs /\ s \in States /\ c \in Counters
    BY DEF Inv, TypeOK, Calls
  <1>2. /\ id \in started /\ At(id, Len(s)) # NoRow
        /\ At(id, Len(s)).state = s /\ At(id, Len(s)).counters = c
    BY DEF Inv, CallOK, Finish
  <1>5. Exhausted(c) = Exhausted(Used(s))
    <2>1. Len(s) \in 0..MaxSteps
      BY <1>1, StateIsSeq
    <2>2. Counted(At(id, Len(s)))
      BY <1>1, <1>2, <2>1, AtCounted DEF Inv
    <2> QED BY <1>2, <2>2, CountedIsUsed
  <1>3. CASE results[id] # NoResult
    <2>1. UNCHANGED <<started, steps, results>> /\ SharedTypes' /\ Moves(w, "idle", Idle)
      BY <1>3, InvTypes, WorkerMoves, IdleType DEF Finish, Steps, Raise, environment, SharedTypes
    <2>2. CallOK(w)'
      BY <2>1 DEF Moves, CallOK
    <2> QED BY <2>1, <2>2, CallMovesOn
  <1>4. CASE results[id] = NoResult
    <2>1. PICK reason \in IF Done(s) THEN {"none"} ELSE Exhausted(c) \ {"none"} :
              /\ results' = [results EXCEPT ![id] = Finalize(s, reason, c)]
              /\ Continue(w, [run[w] EXCEPT !.reason = reason], AfterResult(s))
      BY <1>4 DEF Finish
    <2> DEFINE result == Finalize(s, reason, c)
               r == [run[w] EXCEPT !.reason = reason]
    <2>2. reason \in Reasons
      BY SpentType DEF Reasons
    <2>3. /\ result \in Results /\ result # NoResult
          /\ result.state = s /\ result.reason = reason
      BY <1>1, <2>2, FinalizeType
    <2>4. /\ r \in Calls /\ r.id = id /\ r.state = s /\ r.counters = c /\ r.reason = reason
      BY <1>1, <2>2 DEF Calls
    <2>5. Moves(w, AfterResult(s), r)
      BY <2>1, <2>4, InvTypes, WorkerMoves DEF Steps, AfterResult
    <2>6. UNCHANGED <<started, steps>>
      BY DEF Finish
    <2> HIDE DEF r, result
    <2>7. /\ results' \in [Runs -> Results \cup {NoResult}]
          /\ results'[id] = result
          /\ \A q \in Runs \ {id} : results'[q] = results[q]
      BY <1>1, <2>1, <2>3 DEF Inv, TypeOK, result
    <2>8. StoreGrows
      BY <1>4, <2>6, <2>7 DEF StoreGrows
    <2>9. RowsFollow'
      BY <2>6, <2>8, RowStays DEF Inv, RowsFollow
    <2>10. ResultIsRecorded'
      <3>1. ASSUME NEW q \in Runs \ {id}, results'[q] # NoResult
            PROVE  LET row == At(q, Len(results[q].state))'
                   IN  /\ row # NoRow
                       /\ results'[q] = Finalize(row.state, results'[q].reason, row.counters)
        <4>1. results[q] # NoResult
          BY <2>7, <3>1
        <4> QED BY <2>8, <4>1, RecordedStays DEF Inv
      <3>2. ASSUME NEW q \in Runs, q = id
            PROVE  LET row == At(q, Len(results[q].state))'
                   IN  /\ row # NoRow
                       /\ results'[q] = Finalize(row.state, results'[q].reason, row.counters)
        <4>1. results'[q] = result /\ results'[q].state = s /\ results'[q].reason = reason
          BY <2>3, <2>7, <3>2
        <4>2. At(q, Len(results[q].state))' = At(id, Len(s))
          BY <2>6, <3>2, <4>1 DEF At
        <4> QED BY <1>2, <4>1, <4>2 DEF result
      <3> QED BY <3>1, <3>2 DEF ResultIsRecorded
    <2>11. ResultsEnd'
      BY <1>5, <2>1, <2>3, <2>7 DEF Inv, ResultsEnd
    <2>12. CallOK(w)'
      BY <2>3, <2>4, <2>5, <2>7 DEF Moves, CallOK, AfterResult, result
    <2>13. \A u \in Workers : CallOK(u)'
      BY <2>5, <2>8, <2>12, CallsStay
    <2>14. TypeOK'
      <3>1. memory' \subseteq {q \in Runs : results'[q] # NoResult}
        BY <2>3, <2>7 DEF Finish, Inv, TypeOK
      <3> QED BY <2>5, <2>6, <2>7, <3>1 DEF Finish, environment, Inv, TypeOK, Moves, LocalTypes
    <2> QED BY <2>9, <2>10, <2>11, <2>13, <2>14 DEF Inv
  <1> QED BY <1>3, <1>4

-----------------------------------------------------------------------------
(* The invariant holds, and what follows from it at once.                  *)

LEMMA NextInv == Inv /\ [Next]_vars => Inv'
  <1> SUFFICES ASSUME Inv, [Next]_vars PROVE Inv'
    OBVIOUS
  <1>1. ASSUME NEW w \in Workers, Step(w) PROVE Inv'
    BY <1>1, ReadRunInv, InsertRunInv, ReadStepsInv, DecideInv, CheckpointInv, FinishInv,
       ProposalReadInv, ProposalPutInv, ProposalAuditInv, MemoryPutInv DEF Step
  <1>2. ASSUME NEW w \in Workers, Start(w) \/ Fail(w) PROVE Inv'
    BY <1>2, StartInv, FailInv
  <1>3. CASE Crash
    BY <1>3, CrashInv
  <1>4. CASE OpsSet \/ PipelineStart \/ UNCHANGED vars
    BY <1>4, EnvironmentInv
  <1> QED BY <1>1, <1>2, <1>3, <1>4 DEF Next

LEMMA InvAlways == Spec => []Inv
  <1>1. Init => Inv
    BY InitInv
  <1>2. Inv /\ [Next]_vars => Inv'
    BY NextInv
  <1> QED BY <1>1, <1>2, PTL DEF Spec

\* Whatever callers, crashes and failed calls do, the variables keep their
\* types, and a memory exists only for a run that has a result.
THEOREM TypesHold == Spec => []TypeOK
  <1>1. Inv => TypeOK
    BY DEF Inv
  <1> QED BY <1>1, InvAlways, PTL

\* run() and its checkpoints: the rows of a run are one history, each one
\* action longer than the row before it, whoever stored them.
THEOREM HistoryIsOne == Spec => []OneHistory
  <1>1. Inv => OneHistory
    BY DEF Inv, RowsFollow, OneHistory, Follows
  <1> QED BY <1>1, InvAlways, PTL

\* A stored result is what finalize() makes of a stored checkpoint.
THEOREM ResultsAreRecorded == Spec => []ResultIsRecorded
  <1>1. Inv => ResultIsRecorded
    BY DEF Inv
  <1> QED BY <1>1, InvAlways, PTL

-----------------------------------------------------------------------------
(* Budgets. *)

LEMMA RowIsAppended ==
    ASSUME TypeOK, RowsFollow, NEW r \in Runs, NEW n \in 1..MaxSteps, steps[r][n] # NoRow
    PROVE  /\ n - 1 \in 0..MaxSteps /\ At(r, n - 1) # NoRow /\ At(r, n) = steps[r][n]
           /\ At(r, n - 1).state \in Seq(Actions)
           /\ Last(steps[r][n].state) \in Actions
           /\ steps[r][n].state = Append(At(r, n - 1).state, Last(steps[r][n].state))
  <1>1. n - 1 \in 0..MaxSteps /\ (n > 1 => n - 1 \in 1..MaxSteps)
    BY AgentRuntimeAssumption
  <1>2. /\ Len(steps[r][n].state) = n
        /\ n > 1 => steps[r][n - 1] # NoRow
        /\ Front(steps[r][n].state) = At(r, n - 1).state
    BY DEF RowsFollow, Follows
  <1>3. At(r, n - 1) # NoRow /\ At(r, n) = steps[r][n]
    BY <1>1, <1>2, StartIsRow DEF At
  <1>4. steps[r][n].state \in Seq(Actions) /\ steps[r][n].state # << >>
    <2>1. At(r, n).state \in Seq(Actions)
      BY <1>3, AtType
    <2> QED BY <1>2, <1>3, <2>1
  <1> QED BY <1>1, <1>2, <1>3, <1>4, AtType, FrontAndLast

\* A history has no gaps.
LEMMA EarlierRows ==
    ASSUME TypeOK, RowsFollow, NEW r \in Runs, NEW n \in 0..MaxSteps, At(r, n) # NoRow,
           NEW m \in 1..n
    PROVE  At(r, m) # NoRow
  <1> DEFINE R == {k \in Nat : k < n => At(r, n - k) # NoRow}
  <1>1. 0 \in R
    OBVIOUS
  <1>2. ASSUME NEW k \in Nat, k \in R PROVE k + 1 \in R
    <2> SUFFICES ASSUME k + 1 < n PROVE At(r, n - (k + 1)) # NoRow
      OBVIOUS
    <2>1. n - k \in 1..MaxSteps /\ n - k - 1 = n - (k + 1) /\ n - k # 0 /\ k < n
      BY AgentRuntimeAssumption
    <2>2. At(r, n - k) # NoRow
      BY <1>2, <2>1
    <2>3. steps[r][n - k] # NoRow
      BY <2>1, <2>2 DEF At
    <2> QED BY <2>1, <2>3, RowIsAppended
  <1>3. Nat \subseteq R
    <2> HIDE DEF R
    <2> QED BY <1>1, <1>2, SetInduction
  <1>4. n - m \in Nat /\ n - m < n /\ n - (n - m) = m
    BY AgentRuntimeAssumption
  <1> QED BY <1>3, <1>4

\* A history counts every step that asked the model: no resumption forgets one.
LEMMA AskedAreCounted ==
    ASSUME TypeOK, RowsFollow, NEW r \in Runs, NEW n \in 0..MaxSteps, At(r, n) # NoRow
    PROVE  /\ Cardinality(AskedRows(r, n)) \in Nat
           /\ Cardinality(AskedRows(r, n)) <= At(r, n).counters.calls
  <1> DEFINE P(k) == /\ IsFiniteSet(AskedRows(r, k))
                     /\ Cardinality(AskedRows(r, k)) \in Nat
                     /\ At(r, k).counters.calls \in Nat
                     /\ Cardinality(AskedRows(r, k)) <= At(r, k).counters.calls
             S == {k \in Nat : k <= n => P(k)}
  <1>1. 0 \in S
    <2>1. AskedRows(r, 0) = {} /\ At(r, 0).counters.calls = 0
      BY DEF AskedRows, At, NoCalls
    <2> QED BY <2>1, FS_EmptySet
  <1>2. ASSUME NEW k \in Nat, k \in S PROVE k + 1 \in S
    <2> SUFFICES ASSUME k + 1 <= n PROVE P(k + 1)
      OBVIOUS
    <2>1. k + 1 \in 1..MaxSteps /\ k + 1 - 1 = k /\ k + 1 \in 1..n /\ k + 1 # 0 /\ k <= n
      BY AgentRuntimeAssumption
    <2>2. P(k)
      BY <1>2, <2>1
    <2>3. steps[r][k + 1] # NoRow /\ At(r, k + 1) = steps[r][k + 1]
      BY <2>1, EarlierRows DEF At
    <2> DEFINE row == steps[r][k + 1]
    <2>4. /\ At(r, k).counters.calls <= row.counters.calls
          /\ row.policy \in Asking => At(r, k).counters.calls + 1 <= row.counters.calls
      BY <2>1, <2>3 DEF RowsFollow, Follows
    <2>5. row.counters.calls \in Nat
      <3>1. steps[r] \in [1..MaxSteps -> Rows \cup {NoRow}]
        BY DEF TypeOK
      <3> QED BY <2>1, <2>3, <3>1, CountersType DEF Rows
    <2>6. AskedRows(r, k + 1) = IF row.policy \in Asking THEN AskedRows(r, k) \cup {k + 1}
                                ELSE AskedRows(r, k)
      <3>1. 1..(k + 1) = 1..k \cup {k + 1}
        OBVIOUS
      <3> QED BY <2>3, <3>1 DEF AskedRows
    <2>7. k + 1 \notin AskedRows(r, k)
      BY DEF AskedRows
    <2> DEFINE A == AskedRows(r, k)
               c == At(r, k).counters.calls
    <2>8. /\ IsFiniteSet(A \cup {k + 1})
          /\ Cardinality(A \cup {k + 1}) = Cardinality(A) + 1
      <3> HIDE DEF A
      <3> QED BY <2>2, <2>7, FS_AddElement DEF A
    <2> HIDE DEF A, c, row
    <2>9. IsFiniteSet(A) /\ Cardinality(A) \in Nat /\ c \in Nat /\ Cardinality(A) <= c
      BY <2>2 DEF A, c
    <2>10. c <= row.counters.calls /\ (row.policy \in Asking => c + 1 <= row.counters.calls)
      BY <2>4 DEF c
    <2>11. At(r, k + 1).counters.calls = row.counters.calls
      BY <2>3 DEF row
    <2>12. CASE row.policy \in Asking
      <3>1. AskedRows(r, k + 1) = A \cup {k + 1}
        BY <2>6, <2>12 DEF A
      <3>2. Cardinality(A) + 1 <= row.counters.calls
        BY <2>5, <2>9, <2>10, <2>12
      <3>3. IsFiniteSet(AskedRows(r, k + 1)) /\ Cardinality(AskedRows(r, k + 1)) = Cardinality(A) + 1
        BY <2>8, <3>1
      <3> QED BY <2>5, <2>9, <2>11, <3>2, <3>3
    <2>13. CASE row.policy \notin Asking
      <3>1. AskedRows(r, k + 1) = A
        BY <2>6, <2>13 DEF A
      <3> QED BY <2>5, <2>9, <2>10, <2>11, <2>13, <3>1
    <2> QED BY <2>12, <2>13
  <1>3. Nat \subseteq S
    <2> HIDE DEF S
    <2> QED BY <1>1, <1>2, SetInduction
  <1> QED BY <1>3

LEMMA RowInBudget ==
    ASSUME TypeOK, RowsFollow, NEW r \in Runs, NEW n \in 0..MaxSteps, At(r, n) # NoRow
    PROVE  ToolCalls(At(r, n).state) <= MaxToolCalls
  <1>1. MaxToolCalls \in Nat \ {0}
    BY AgentRuntimeAssumption
  <1>2. CASE n = 0
    <2>1. << >> \in Seq(Actions)
      OBVIOUS
    <2>2. ToolCalls(<< >>) = 0
      BY <2>1, ToolCallsType
    <2> QED BY <1>1, <1>2, <2>2 DEF At
  <1>3. CASE n # 0
    <2>1. n \in 1..MaxSteps /\ steps[r][n] # NoRow
      BY <1>3 DEF At
    <2> DEFINE s == At(r, n - 1).state
               a == Last(steps[r][n].state)
    <2>2. s \in Seq(Actions) /\ a \in Actions /\ At(r, n).state = Append(s, a)
      BY <2>1, RowIsAppended
    <2>3. ToolCalls(s) \in Nat /\ ToolCalls(Append(s, a)) \in {ToolCalls(s), ToolCalls(s) + 1}
      BY <2>2, ToolCallsType, ToolCallsAppend
    <2>4. Spent(Used(s)) = "none"
      BY <2>1 DEF RowsFollow, Follows
    <2>5. ~(ToolCalls(s) >= MaxToolCalls)
      BY <2>4 DEF Spent, Used
    <2> HIDE DEF s, a
    <2> QED BY <1>1, <2>2, <2>3, <2>5
  <1> QED BY <1>2, <1>3

\* The state of a result is the state of a checkpoint.
LEMMA ResultIsCheckpoint ==
    ASSUME ResultIsRecorded, NEW r \in Runs, results[r] # NoResult
    PROVE  LET s == results[r].state
           IN  At(r, Len(s)) # NoRow /\ At(r, Len(s)).state = s
  <1> DEFINE row == At(r, Len(results[r].state))
  <1>1. row # NoRow /\ results[r] = Finalize(row.state, results[r].reason, row.counters)
    BY DEF ResultIsRecorded
  <1>2. Finalize(row.state, results[r].reason, row.counters).state = row.state
    BY DEF Finalize
  <1> HIDE DEF row
  <1>3. results[r].state = row.state
    BY <1>1, <1>2
  <1> QED BY <1>1, <1>3 DEF row

\* However often a run is resumed, and by whomever: its whole history is within the
\* budgets, and a budget its result reports as used up is used up.
THEOREM BudgetsHold == Spec => []WithinBudgets
  <1>1. ASSUME Inv PROVE WithinBudgets
    <2>1. ASSUME NEW r \in Runs, NEW n \in 1..MaxSteps, steps[r][n] # NoRow
          PROVE  /\ ToolCalls(steps[r][n].state) <= MaxToolCalls
                 /\ Cardinality(AskedRows(r, n)) <= MaxModelCalls
      <3>1. At(r, n) = steps[r][n] /\ n \in 0..MaxSteps
        BY DEF At
      <3>2. steps[r][n] \in Rows
        <4>1. steps[r] \in [1..MaxSteps -> Rows \cup {NoRow}]
          BY <1>1 DEF Inv, TypeOK
        <4> QED BY <2>1, <4>1
      <3>3. steps[r][n].counters.calls \in 0..MaxModelCalls
        BY <3>2 DEF Rows, Counters
      <3>4. /\ Cardinality(AskedRows(r, n)) \in Nat
            /\ Cardinality(AskedRows(r, n)) <= steps[r][n].counters.calls
        BY <1>1, <2>1, <3>1, AskedAreCounted DEF Inv
      <3>5. Cardinality(AskedRows(r, n)) <= MaxModelCalls
        BY <3>3, <3>4, AgentRuntimeAssumption
      <3> QED BY <1>1, <2>1, <3>1, <3>5, RowInBudget DEF Inv
    <2>2. ASSUME NEW r \in Runs, results[r] # NoResult
          PROVE  /\ results[r].reason = "BUDGET_STEPS" <=> Len(results[r].state) = MaxSteps
                                                            /\ ~Done(results[r].state)
                 /\ results[r].reason = "BUDGET_TOOL_CALLS" =>
                        ToolCalls(results[r].state) = MaxToolCalls
      <3> DEFINE s == results[r].state
      <3>1. s \in Seq(Actions) /\ Len(s) \in 0..MaxSteps
        <4>1. results[r] \in Results
          BY <1>1, <2>2 DEF Inv, TypeOK
        <4> QED BY <4>1, StateIsSeq DEF Results
      <3>2. At(r, Len(s)) # NoRow /\ At(r, Len(s)).state = s
        BY <1>1, <2>2, ResultIsCheckpoint DEF Inv
      <3>3. ToolCalls(s) \in Nat /\ ToolCalls(s) <= MaxToolCalls
        BY <1>1, <3>1, <3>2, RowInBudget, ToolCallsType DEF Inv
      <3>4. IF Done(s) THEN results[r].reason = "none"
            ELSE results[r].reason \in Exhausted(Used(s)) \ {"none"}
        BY <1>1, <2>2 DEF Inv, ResultsEnd
      <3>5. MaxSteps \in Nat /\ MaxToolCalls \in Nat
        BY AgentRuntimeAssumption
      <3> HIDE DEF s
      <3> QED BY <3>1, <3>3, <3>4, <3>5 DEF Exhausted, Spent, Used, s
    <2> QED BY <2>1, <2>2 DEF WithinBudgets
  <1> QED BY <1>1, InvAlways, PTL

-----------------------------------------------------------------------------
(* The playbook. *)

\* One turn of the loop when the playbook acts.
Turn(s) == IF Done(s) \/ Spent(Used(s)) # "none" THEN s ELSE Append(s, Playbook(s))

\* The recursion that PlaybookRun is defined by has a solution.
LEMMA PlaybookRunExists ==
    \E f : f = [n \in 0..MaxSteps |-> IF n = 0 THEN << >> ELSE Turn(f[n - 1])]
  <1> DEFINE Solves(f, n) == f[0] = << >> /\ \A i \in 1..n : f[i] = Turn(f[i - 1])
             S == {n \in Nat : \E f : Solves(f, n)}
  <1>1. 0 \in S
    <2>1. Solves([i \in {0} |-> << >>], 0)
      OBVIOUS
    <2> QED BY <2>1
  <1>2. ASSUME NEW n \in Nat, n \in S PROVE n + 1 \in S
    <2>1. PICK f : Solves(f, n)
      BY <1>2
    <2> DEFINE g == [i \in 0..(n + 1) |-> IF i <= n THEN f[i] ELSE Turn(f[n])]
    <2>2. g[0] = << >>
      BY <2>1
    <2>3. ASSUME NEW i \in 1..(n + 1) PROVE g[i] = Turn(g[i - 1])
      <3>1. i - 1 \in 0..(n + 1) /\ i - 1 <= n /\ i \in 0..(n + 1)
        OBVIOUS
      <3>2. g[i - 1] = f[i - 1]
        BY <3>1
      <3>3. g[i] = Turn(f[i - 1])
        <4>1. CASE i <= n
          BY <2>1, <3>1, <4>1
        <4>2. CASE ~(i <= n)
          <5>1. i - 1 = n
            BY <3>1, <4>2
          <5> QED BY <3>1, <4>2, <5>1
        <4> QED BY <4>1, <4>2
      <3> QED BY <3>2, <3>3
    <2>4. \E h : Solves(h, n + 1)
      BY <2>2, <2>3
    <2> QED BY <2>4
  <1>3. MaxSteps \in S
    <2>1. Nat \subseteq S
      <3> HIDE DEF S
      <3> QED BY <1>1, <1>2, SetInduction
    <2> QED BY <2>1, AgentRuntimeAssumption
  <1>4. PICK f : Solves(f, MaxSteps)
    BY <1>3
  <1> DEFINE g == [n \in 0..MaxSteps |-> f[n]]
  <1>5. g = [n \in 0..MaxSteps |-> IF n = 0 THEN << >> ELSE Turn(g[n - 1])]
    <2>1. ASSUME NEW n \in 0..MaxSteps
          PROVE  g[n] = IF n = 0 THEN << >> ELSE Turn(g[n - 1])
      <3>1. n # 0 => n \in 1..MaxSteps /\ n - 1 \in 0..MaxSteps
        BY AgentRuntimeAssumption
      <3> QED BY <1>4, <3>1
    <2> QED BY <2>1, Zenon
  <1> QED BY <1>5

LEMMA PlaybookRunTurns ==
    /\ PlaybookRun[0] = << >>
    /\ \A n \in 1..MaxSteps : PlaybookRun[n] = Turn(PlaybookRun[n - 1])
  <1>1. PlaybookRun = [n \in 0..MaxSteps |-> IF n = 0 THEN << >> ELSE Turn(PlaybookRun[n - 1])]
    BY PlaybookRunExists, Zenon DEF PlaybookRun, Turn
  <1>2. /\ 0 \in 0..MaxSteps
        /\ \A n \in 1..MaxSteps : n \in 0..MaxSteps /\ n # 0
    BY AgentRuntimeAssumption
  <1> QED BY <1>1, <1>2

\* Once a run of the playbook has ended, it goes no further.
LEMMA PlaybookRunStays ==
    ASSUME NEW n \in 0..MaxSteps, Done(PlaybookRun[n]) \/ Spent(Used(PlaybookRun[n])) # "none"
    PROVE  PlaybookRun[MaxSteps] = PlaybookRun[n]
  <1> DEFINE S == {k \in Nat : n + k <= MaxSteps => PlaybookRun[n + k] = PlaybookRun[n]}
  <1>1. 0 \in S
    OBVIOUS
  <1>2. ASSUME NEW k \in Nat, k \in S PROVE k + 1 \in S
    <2> SUFFICES ASSUME n + (k + 1) <= MaxSteps PROVE PlaybookRun[n + (k + 1)] = PlaybookRun[n]
      OBVIOUS
    <2>1. /\ n + (k + 1) \in 1..MaxSteps /\ n + (k + 1) - 1 = n + k
          /\ n + k <= MaxSteps
      BY AgentRuntimeAssumption
    <2>2. PlaybookRun[n + (k + 1)] = Turn(PlaybookRun[n + k])
      BY <2>1, PlaybookRunTurns
    <2>3. PlaybookRun[n + k] = PlaybookRun[n]
      BY <1>2, <2>1
    <2> QED BY <2>2, <2>3 DEF Turn
  <1>3. Nat \subseteq S
    <2> HIDE DEF S
    <2> QED BY <1>1, <1>2, SetInduction
  <1>4. MaxSteps - n \in Nat /\ n + (MaxSteps - n) = MaxSteps
    BY AgentRuntimeAssumption
  <1> QED BY <1>3, <1>4, AgentRuntimeAssumption

\* Checkpoints that the playbook alone made are its undisturbed run.
LEMMA RowsFollowPlaybook ==
    ASSUME TypeOK, RowsFollow, NEW r \in Runs, NEW n \in 0..MaxSteps, At(r, n) # NoRow,
           \A i \in 1..n : steps[r][i].policy # "llm"
    PROVE  At(r, n).state = PlaybookRun[n]
  <1> DEFINE S == {k \in Nat : k <= n => At(r, k) # NoRow /\ At(r, k).state = PlaybookRun[k]}
  <1>2. 0 \in S
    BY PlaybookRunTurns, StartIsRow DEF At
  <1>3. ASSUME NEW k \in Nat, k \in S PROVE k + 1 \in S
    <2> SUFFICES ASSUME k + 1 <= n
                 PROVE  At(r, k + 1) # NoRow /\ At(r, k + 1).state = PlaybookRun[k + 1]
      OBVIOUS
    <2>1. /\ k + 1 \in 1..MaxSteps /\ k + 1 - 1 = k /\ k <= n
          /\ k + 1 \in 1..n /\ k + 1 # 0
      BY AgentRuntimeAssumption
    <2>2. At(r, k + 1) # NoRow
      BY <2>1, EarlierRows
    <2>3. steps[r][k + 1] # NoRow /\ At(r, k + 1) = steps[r][k + 1]
      BY <2>1, <2>2 DEF At
    <2> DEFINE s == At(r, k).state
    <2>4. s = PlaybookRun[k]
      BY <1>3, <2>1
    <2>5. steps[r][k + 1].state = Append(s, Last(steps[r][k + 1].state))
      BY <2>1, <2>3, RowIsAppended
    <2>6. Follows(At(r, k), steps[r][k + 1])
      BY <2>1, <2>3 DEF RowsFollow
    <2>7. /\ ~Done(s) /\ Spent(Used(s)) = "none"
          /\ Last(steps[r][k + 1].state) = Playbook(s)
      BY <2>1, <2>6 DEF Follows
    <2>8. PlaybookRun[k + 1] = Turn(s)
      BY <2>1, <2>4, PlaybookRunTurns
    <2> HIDE DEF s
    <2> QED BY <2>2, <2>3, <2>5, <2>7, <2>8 DEF Turn
  <1>4. Nat \subseteq S
    <2> HIDE DEF S
    <2> QED BY <1>2, <1>3, SetInduction
  <1> QED BY <1>4

\* A run in which the model had no say ends where the playbook alone would
\* have ended, whatever crashed, was resumed or ran beside it.
THEOREM PlaybookRunsAreAlike == Spec => []PlaybookIsDeterministic
  <1>1. ASSUME Inv PROVE PlaybookIsDeterministic
    <2> SUFFICES ASSUME NEW r \in Runs, results[r] # NoResult, results[r].reason # "BUDGET_TIME",
                        \A n \in 1..Len(results[r].state) : steps[r][n].policy # "llm"
                 PROVE  results[r].state = PlaybookRun[MaxSteps]
      BY DEF PlaybookIsDeterministic
    <2> DEFINE s == results[r].state
    <2>1. Len(s) \in 0..MaxSteps
      <3>1. results[r] \in Results
        BY <1>1 DEF Inv, TypeOK
      <3> QED BY <3>1, StateIsSeq DEF Results
    <2>2. At(r, Len(s)) # NoRow /\ At(r, Len(s)).state = s
      BY <1>1, ResultIsCheckpoint DEF Inv
    <2>3. s = PlaybookRun[Len(s)]
      BY <1>1, <2>1, <2>2, RowsFollowPlaybook DEF Inv
    <2>4. Done(s) \/ Spent(Used(s)) # "none"
      <3>1. ~Done(s) => results[r].reason \in Exhausted(Used(s)) \ {"none"}
        BY <1>1 DEF Inv, ResultsEnd
      <3> QED BY <3>1 DEF Exhausted
    <2>5. PlaybookRun[MaxSteps] = PlaybookRun[Len(s)]
      BY <2>1, <2>3, <2>4, PlaybookRunStays
    <2> QED BY <2>3, <2>5
  <1> QED BY <1>1, InvAlways, PTL

-----------------------------------------------------------------------------
(* The runtime does what RunOnce promises.                                 *)

\* A step that stores no result and gives no answer but NoAnswer.
LEMMA NobodyIsAnswered ==
    ASSUME UNCHANGED results, LocalTypes, NEW C \in SUBSET Workers,
           answer' = [w \in Workers |-> IF w \in C THEN NoAnswer ELSE answer[w]]
    PROVE  Once!Next
  BY DEF Once!Next, Once!Ask

LEMMA AnswerIsResult ==
    ASSUME Inv, UNCHANGED results, NEW w \in Workers, NEW r \in Runs, results[r] # NoResult,
           answer' = [answer EXCEPT ![w] = <<r, results[r]>>]
    PROVE  Once!Next
  BY DEF Once!Next, Once!Answer

LEMMA RaiseIsAsk ==
    ASSUME Inv, UNCHANGED results, NEW w \in Workers,
           answer' = [answer EXCEPT ![w] = NoAnswer]
    PROVE  Once!Next
  <1>1. answer' = [u \in Workers |-> IF u \in {w} THEN NoAnswer ELSE answer[u]]
    BY InvTypes DEF LocalTypes
  <1> QED BY <1>1, InvTypes, NobodyIsAnswered

LEMMA FinishIsRecord ==
    ASSUME Inv, NEW w \in Workers, Finish(w)
    PROVE  Once!Next
  <1> DEFINE id == run[w].id
  <1>1. CASE results[id] # NoResult
    BY <1>1, RaiseIsAsk DEF Finish, Raise, Return
  <1>2. CASE results[id] = NoResult
    <2>1. PICK q \in Runs : q = id
      BY DEF Inv, TypeOK, Calls
    <2>2. PICK reason : results' = [results EXCEPT ![id] = Finalize(run[w].state, reason, run[w].counters)]
      BY <1>2 DEF Finish
    <2>3. PICK result : results' = [results EXCEPT ![q] = result]
      BY <2>1, <2>2
    <2>4. results'[q] = result
      BY <2>1, <2>3 DEF Inv, TypeOK
    <2>5. result \in Results
      <3>1. result # NoResult
        <4>1. results'[q] = Finalize(run[w].state, reason, run[w].counters)
          BY <2>1, <2>2 DEF Inv, TypeOK
        <4>2. PICK k \in Reasons : results'[q] = Finalize(run[w].state, k, run[w].counters)
          BY <1>2, <2>1, SpentType DEF Finish, Inv, TypeOK, Reasons
        <4>3. run[w].state \in States /\ run[w].counters \in Counters
          BY DEF Inv, TypeOK, Calls
        <4> QED BY <2>4, <4>2, <4>3, FinalizeType
      <3>2. TypeOK'
        BY FinishInv DEF Inv
      <3> QED BY <2>4, <3>1, <3>2 DEF TypeOK
    <2>6. UNCHANGED answer
      BY <1>2 DEF Finish, Continue
    <2>7. Once!Record(q)
      BY <1>2, <2>1, <2>3, <2>4, <2>5, <2>6 DEF Once!Record
    <2> QED BY <2>7 DEF Once!Next
  <1> QED BY <1>1, <1>2

LEMMA NextOnce == Inv /\ [Next]_vars => [Once!Next]_<<results, answer>>
  <1> SUFFICES ASSUME Inv, [Next]_vars PROVE Once!Next \/ UNCHANGED <<results, answer>>
    OBVIOUS
  <1>1. ASSUME NEW w \in Workers, Start(w) PROVE Once!Next
    <2> DEFINE id == IF suspended THEN "playbook" ELSE "llm"
    <2>1. UNCHANGED results /\ id \in Runs
      BY <1>1 DEF Start, store, Runs
    <2>2. CASE results[id] # NoResult
      BY <1>1, <2>1, <2>2, AnswerIsResult DEF Start, Return
    <2>3. CASE results[id] = NoResult
      BY <1>1, <2>1, <2>3, RaiseIsAsk DEF Start
    <2> QED BY <2>2, <2>3
  <1>2. ASSUME NEW w \in Workers, ReadRun(w) \/ ReadSteps(w) \/ Decide(w) \/ ProposalRead(w)
                                   \/ ProposalAudit(w)
        PROVE  UNCHANGED <<results, answer>>
    BY <1>2 DEF ReadRun, ReadSteps, Decide, ProposalRead, ProposalAudit, Goto, Continue, store
  <1>3. ASSUME NEW w \in Workers, InsertRun(w) \/ Checkpoint(w) \/ ProposalPut(w)
        PROVE  Once!Next \/ UNCHANGED <<results, answer>>
    BY <1>3, RaiseIsAsk DEF InsertRun, Checkpoint, ProposalPut, Goto, Raise, Return
  <1>4. ASSUME NEW w \in Workers, Finish(w) PROVE Once!Next
    BY <1>4, FinishIsRecord
  <1>5. ASSUME NEW w \in Workers, MemoryPut(w) PROVE Once!Next
    <2> DEFINE r == run[w]
    <2>1. r.id \in Runs /\ r.state \in States /\ r.reason \in Reasons /\ r.counters \in Counters
      BY DEF Inv, TypeOK, Calls
    <2>2. results[r.id] = Finalize(r.state, r.reason, r.counters) /\ results[r.id] # NoResult
      <3>1. results[r.id] = Finalize(r.state, r.reason, r.counters)
        BY <1>5 DEF Inv, CallOK, MemoryPut
      <3> QED BY <2>1, <3>1, FinalizeType
    <2>3. UNCHANGED results /\ answer' = [answer EXCEPT ![w] = <<r.id, results[r.id]>>]
      BY <1>5, <2>2 DEF MemoryPut, Return
    <2> QED BY <2>1, <2>2, <2>3, AnswerIsResult
  <1>6. ASSUME NEW w \in Workers, Fail(w) PROVE Once!Next
    BY <1>6, RaiseIsAsk DEF Fail, Raise, Return, store
  <1>7. CASE Crash
    <2>1. answer' = [w \in Workers |-> IF w \in Workers THEN NoAnswer ELSE answer[w]]
      BY <1>7 DEF Crash
    <2>2. UNCHANGED results
      BY <1>7 DEF Crash, store
    <2> QED BY <2>1, <2>2, InvTypes, NobodyIsAnswered
  <1>8. CASE OpsSet \/ PipelineStart \/ UNCHANGED vars
    BY <1>8 DEF OpsSet, PipelineStart, vars, store, locals
  <1> QED BY <1>1, <1>2, <1>3, <1>4, <1>5, <1>6, <1>7, <1>8 DEF Next, Step

\* AgentRuntime implements RunOnce: a run gets one result, and every caller of
\* run() that is answered at all is answered with it.
THEOREM RuntimeRunsOnce == Spec => RunsOnce
  <1>1. Init => Once!Init
    BY DEF Init, Once!Init
  <1>2. Inv /\ [Next]_vars => [Once!Next]_<<results, answer>>
    BY NextOnce
  <1> QED BY <1>1, <1>2, InvAlways, PTL DEF Spec, RunsOnce, Once!Spec

=============================================================================
