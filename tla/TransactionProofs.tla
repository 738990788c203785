------------------------- MODULE TransactionProofs -------------------------
(***************************************************************************)
(* Proofs about Transaction: for every number of calls, managers,          *)
(* workspaces and actions, whatever the plan, the disturbances and the     *)
(* truth of the facts.                                                     *)
(***************************************************************************)
EXTENDS Transaction, TLAPS

(***************************************************************************)
(* Type correctness.  The three ways a step can move pc, outcome and mgr   *)
(* are dealt with once.                                                    *)
(***************************************************************************)

PlaceOK ==
  /\ mgr \in [Manager -> {"open", "retained", "closed"}]
  /\ pc \in [Tx -> Active \cup {"idle", "done"}]
  /\ outcome \in [Tx -> Outcome \cup {None}]

\* Going to another label of the call keeps the places well typed.
LEMMA GotoType ==
  ASSUME NEW t \in Tx, NEW label \in Active, PlaceOK, Goto(t, label)
  PROVE  PlaceOK'
BY DEF PlaceOK, Goto

\* Returning a summary keeps the places well typed.
LEMMA ReturnType ==
  ASSUME NEW t \in Tx, NEW o \in Outcome, PlaceOK, Return(t, o)
  PROVE  PlaceOK'
BY TransactionAssumption DEF PlaceOK, Return, Outcome, TransactionAssumption

\* Raising out of the call keeps the places well typed.
LEMMA RaiseType ==
  ASSUME NEW t \in Tx, PlaceOK, Raise(t)
  PROVE  PlaceOK'
BY TransactionAssumption DEF PlaceOK, Raise, Outcome, TransactionAssumption

\* TypeOK alone is not inductive: a dispatch of action N + 1 would be ill typed.
\* Inside the loop the index is that of an action.
InLoop == {"idle", "preflight", "authority", "check", "running", "witness"}
StepOK == \A t \in Tx : pc[t] \in InLoop => step[t] \in Step

\* Advancing from an action moves to the next one, or past the last.
LEMMA AdvanceType ==
  ASSUME NEW t \in Tx, PlaceOK, step \in [Tx -> 1 .. N + 1], step[t] \in Step, Advance(t)
  PROVE  PlaceOK' /\ step' \in [Tx -> 1 .. N + 1]
<1>1. step' \in [Tx -> 1 .. N + 1]
  BY TransactionAssumption DEF Advance, Step, TransactionAssumption
<1>2. PlaceOK'
  BY GotoType DEF Advance, Active
<1> QED
  BY <1>1, <1>2

\* The initial states are well typed.
LEMMA TypeInit == Init => TypeOK /\ StepOK
<1> SUFFICES ASSUME Init PROVE TypeOK /\ StepOK
  OBVIOUS
<1> USE TransactionAssumption DEF Init, TransactionAssumption
<1>1. 1 \in 1 .. N + 1 /\ 1 \in Step
  BY DEF Step
<1>2. StepOK
  BY <1>1 DEF StepOK
<1>3. state \in SessionState /\ success \in BOOLEAN
  BY DEF SessionState
<1>4. attestedHash \in [Fact -> Truth] \cup {None} /\ boundTo \in Workspace \cup {None}
  OBVIOUS
<1>5. world \in [Fact -> BOOLEAN] /\ live \in [Manager -> [Fact -> Truth]]
  OBVIOUS
<1>6. mgr \in [Manager -> {"open", "retained", "closed"}] /\ pc \in [Tx -> Active \cup {"idle", "done"}]
  OBVIOUS
<1>7. step \in [Tx -> 1 .. N + 1] /\ undo \in [Tx -> SUBSET Step] /\ observed \in [Tx -> SUBSET Fact]
  BY <1>1
<1>8. pend \in [Tx -> SUBSET Literal] /\ outcome \in [Tx -> Outcome \cup {None}]
  OBVIOUS
<1>9. drift \subseteq Disturbances /\ ledger \subseteq Record
  OBVIOUS
<1> QED
  BY <1>2, <1>3, <1>4, <1>5, <1>6, <1>7, <1>8, <1>9 DEF TypeOK

\* Only the loop moves the index, and it leaves the loop past the last action.
LEMMA StepStep == TypeOK /\ StepOK /\ [Next]_vars => StepOK'
<1> SUFFICES ASSUME TypeOK, StepOK, [Next]_vars, NEW u \in Tx, pc'[u] \in InLoop
             PROVE  step'[u] \in Step
  BY DEF StepOK
<1> N \in Nat \ {0} /\ pc \in [Tx -> Active \cup {"idle", "done"}] /\ step \in [Tx -> 1 .. N + 1]
  BY TransactionAssumption DEF TypeOK, TransactionAssumption
<1> USE DEF InLoop, StepOK, Goto, Return, Raise
<1>1. CASE StartExecution
  BY <1>1 DEF StartExecution
<1>2. ASSUME NEW d \in Disturbances, Disturb(d) PROVE step'[u] \in Step
  BY <1>2 DEF Disturb
<1>3. ASSUME NEW t \in Tx, Interrupt(t) PROVE step'[u] \in Step
  BY <1>3 DEF Interrupt
<1>4. ASSUME NEW t \in Tx, Forward(t) PROVE step'[u] \in Step
  <2>1. CASE Bind(t) \/ Refuse(t) \/ RejectCall(t) \/ Preflight(t) \/ VerifyAuthority(t)
    BY <2>1 DEF Bind, Callable, Refuse, RejectCall, Preflight, VerifyAuthority
  <2>2. CASE Dispatch(t) \/ AbortBeforeDispatch(t)
    BY <2>2 DEF Dispatch, AbortBeforeDispatch
  <2>3. CASE CommandSucceeds(t)
    BY <2>3 DEF CommandSucceeds, Advance, Step
  <2>4. CASE CommandFails(t) \/ WitnessFails(t)
    BY <2>4 DEF CommandFails, WitnessFails
  <2>5. ASSUME NEW l \in Literal, WitnessEffect(t, l) PROVE step'[u] \in Step
    BY <2>5 DEF WitnessEffect, Advance, Step
  <2>6. CASE RecordExecutionResult(t) \/ CommitExecution(t) \/ CommitBlocked(t)
    BY <2>6 DEF RecordExecutionResult, CommitExecution, CommitBlocked
  <2> QED
    BY <1>4, <2>1, <2>2, <2>3, <2>4, <2>5, <2>6 DEF Forward
<1>5. ASSUME NEW t \in Tx, Backward(t) PROVE step'[u] \in Step
  <2> USE DEF ContainmentFailed
  <2>1. CASE RecoveryRaises(t) \/ FailUntouched(t) \/ BeginCompensation(t) \/ CheckDrift(t)
    BY <2>1 DEF RecoveryRaises, FailUntouched, BeginCompensation, CheckDrift
  <2>2. ASSUME NEW i \in Step, TriggerCompensation(t, i) \/ CompensationImpossible(t, i)
        PROVE  step'[u] \in Step
    BY <2>2 DEF TriggerCompensation, CompensationImpossible
  <2>3. ASSUME NEW i \in Step, CompensationSucceeds(t, i) \/ CompensationFails(t, i)
        PROVE  step'[u] \in Step
    BY <2>3 DEF CompensationSucceeds, CompensationFails
  <2>4. ASSUME NEW i \in Step, CompensationVerified(t, i) PROVE step'[u] \in Step
    BY <2>4 DEF CompensationVerified
  <2>5. CASE CompensationUnverified(t) \/ FinishRollback(t)
    BY <2>5 DEF CompensationUnverified, FinishRollback
  <2> QED
    BY <1>5, <2>1, <2>2, <2>3, <2>4, <2>5 DEF Backward
<1>6. CASE UNCHANGED vars
  BY <1>6 DEF vars
<1> QED
  BY <1>1, <1>2, <1>3, <1>4, <1>5, <1>6 DEF Next, Call

\* No step leaves the types.
LEMMA TypeStep == TypeOK /\ StepOK /\ [Next]_vars => TypeOK'
<1> SUFFICES ASSUME TypeOK, StepOK, [Next]_vars PROVE TypeOK'
  OBVIOUS
<1> PlaceOK
  BY DEF PlaceOK, TypeOK
<1> USE DEF sessionVars, envVars
<1>1. CASE StartExecution
  BY <1>1 DEF StartExecution, TypeOK, SessionState
<1>2. ASSUME NEW d \in Disturbances, Disturb(d) PROVE TypeOK'
  BY <1>2 DEF Disturb, TypeOK
<1>3. ASSUME NEW t \in Tx, Interrupt(t) PROVE TypeOK'
  BY <1>3, RaiseType DEF Interrupt, TypeOK, PlaceOK, Reached
<1>4. ASSUME NEW t \in Tx, Forward(t) PROVE TypeOK'
  <2> step[t] \in 1 .. N + 1 /\ ManagerOf[t] \in Manager /\ N \in Nat \ {0}
    BY TransactionAssumption DEF TypeOK, TransactionAssumption
  <2>1. CASE Bind(t)
    BY <2>1, GotoType, TransactionAssumption
    DEF Bind, TypeOK, PlaceOK, Active, TransactionAssumption
  <2>2. CASE Refuse(t)
    BY <2>2 DEF Refuse, TypeOK, Outcome
  <2>3. CASE RejectCall(t)
    BY <2>3, RaiseType DEF RejectCall, TypeOK, PlaceOK
  <2>4. CASE Preflight(t)
    BY <2>4, GotoType DEF Preflight, TypeOK, PlaceOK, Active
  <2>5. CASE VerifyAuthority(t)
    BY <2>5, GotoType DEF VerifyAuthority, TypeOK, PlaceOK, Active
  <2>6. CASE Dispatch(t)
    <3>1. step[t] \in Step
      BY <2>6 DEF Dispatch, StepOK, InLoop
    <3> QED
      BY <2>6, <3>1, GotoType DEF Dispatch, TypeOK, PlaceOK, Active, Record, Rec, Event, Step
  <2>7. CASE AbortBeforeDispatch(t)
    BY <2>7, GotoType DEF AbortBeforeDispatch, TypeOK, PlaceOK, Active
  <2>8. CASE CommandSucceeds(t)
    <3>1. step[t] \in Step
      BY <2>8 DEF CommandSucceeds, StepOK, InLoop
    <3>2. CASE Cap[step[t]].eff = {}
      BY <2>8, <3>1, <3>2, GotoType, AdvanceType DEF CommandSucceeds, TypeOK, PlaceOK, Reached
    <3>3. CASE Cap[step[t]].eff # {}
      <4>1. Cap[step[t]].eff \subseteq Literal
        BY <3>1, TransactionAssumption DEF TransactionAssumption, Contract
      <4> QED
        BY <2>8, <3>1, <3>3, <4>1, GotoType DEF CommandSucceeds, TypeOK, PlaceOK, Active, Reached
    <3> QED
      BY <3>2, <3>3
  <2>9. CASE CommandFails(t)
    BY <2>9, GotoType DEF CommandFails, TypeOK, PlaceOK, Active, Reached
  <2>10. ASSUME NEW l \in Literal, WitnessEffect(t, l) PROVE TypeOK'
    <3>1. step[t] \in Step
      BY <2>10 DEF WitnessEffect, StepOK, InLoop
    <3>2. live' \in [Manager -> [Fact -> Truth]]
      BY <2>10 DEF WitnessEffect, TypeOK, Truth, TruthOf
    <3>3. observed' \in [Tx -> SUBSET Fact] /\ pend' \in [Tx -> SUBSET Literal]
      BY <2>10 DEF WitnessEffect, TypeOK, Literal
    <3>4. ledger' \subseteq Record
      BY <2>10, <3>1 DEF WitnessEffect, TypeOK, Record, Rec, Event, Step
    <3>5. PlaceOK' /\ step' \in [Tx -> 1 .. N + 1]
      BY <2>10, <3>1, AdvanceType, GotoType DEF WitnessEffect, Active, TypeOK
    <3> QED
      BY <2>10, <3>2, <3>3, <3>4, <3>5 DEF WitnessEffect, TypeOK, PlaceOK
  <2>11. CASE WitnessFails(t)
    BY <2>11, GotoType DEF WitnessFails, TypeOK, PlaceOK, Active
  <2>12. CASE RecordExecutionResult(t)
    <3>1. live[ManagerOf[t]] \in [Fact -> Truth] /\ Completed(t) \in BOOLEAN
      BY DEF TypeOK, Completed
    <3>2. success' \in BOOLEAN /\ attestedHash' \in [Fact -> Truth] \cup {None}
      <4>1. CASE state = "EXECUTING"
        <5>1. success' = Completed(t) /\ attestedHash' = live[ManagerOf[t]]
          BY <2>12, <4>1 DEF RecordExecutionResult
        <5> QED
          BY <5>1, <3>1, Zenon
      <4>2. CASE state # "EXECUTING"
        <5>1. UNCHANGED <<success, attestedHash>>
          BY <2>12, <4>2 DEF RecordExecutionResult
        <5> QED
          BY <5>1, Zenon DEF TypeOK
      <4> QED
        BY <4>1, <4>2
    <3>3. PlaceOK'
      <4>1. "commit" \in Active /\ "recover" \in Active
        BY DEF Active
      <4> QED
        BY <2>12, <4>1, GotoType DEF RecordExecutionResult
    <3> QED
      BY <2>12, <3>2, <3>3 DEF RecordExecutionResult, TypeOK, PlaceOK
  <2>13. CASE CommitExecution(t)
    BY <2>13, ReturnType
    DEF CommitExecution, TypeOK, PlaceOK, Outcome, Record, Rec, Event, SessionState
  <2>14. CASE CommitBlocked(t)
    BY <2>14, GotoType DEF CommitBlocked, TypeOK, PlaceOK, Active
  <2> QED
    BY <1>4, <2>1, <2>2, <2>3, <2>4, <2>5, <2>6, <2>7, <2>8, <2>9, <2>10, <2>11,
       <2>12, <2>13, <2>14 DEF Forward
<1>5. ASSUME NEW t \in Tx, Backward(t) PROVE TypeOK'
  <2> ManagerOf[t] \in Manager /\ N \in Nat \ {0}
    BY TransactionAssumption DEF TransactionAssumption
  <2>1. CASE RecoveryRaises(t)
    BY <2>1, RaiseType DEF RecoveryRaises, TypeOK, PlaceOK
  <2>2. CASE FailUntouched(t)
    BY <2>2, ReturnType DEF FailUntouched, TypeOK, PlaceOK, Outcome, SessionState
  <2>3. CASE BeginCompensation(t)
    BY <2>3, GotoType
    DEF BeginCompensation, TypeOK, PlaceOK, Active, SessionState, EffectfulDispatched,
        Dispatched, Effectful
  <2>4. ASSUME ContainmentFailed(t)
        PROVE  state' \in SessionState /\ ledger' \subseteq Record /\ PlaceOK'
    <3>1. ledger' \subseteq Record
      BY <2>4 DEF ContainmentFailed, TypeOK, Record, Rec, Event
    <3>2. PlaceOK'
      BY <2>4, ReturnType DEF ContainmentFailed, Outcome
    <3> QED
      BY <2>4, <3>1, <3>2 DEF ContainmentFailed, TypeOK, SessionState
  <2>5. CASE CheckDrift(t)
    BY <2>5, <2>4, GotoType DEF CheckDrift, TypeOK, PlaceOK, Active
  <2>6. ASSUME NEW i \in Step, TriggerCompensation(t, i) PROVE TypeOK'
    BY <2>6, GotoType
    DEF TriggerCompensation, TypeOK, PlaceOK, Active, Record, Rec, Event, Step
  <2>7. ASSUME NEW i \in Step, CompensationImpossible(t, i) PROVE TypeOK'
    BY <2>7, <2>4 DEF CompensationImpossible, TypeOK, PlaceOK
  <2>8. ASSUME NEW i \in Step, CompensationSucceeds(t, i) PROVE TypeOK'
    BY <2>8, GotoType DEF CompensationSucceeds, TypeOK, PlaceOK, Active, Reached
  <2>9. ASSUME NEW i \in Step, CompensationFails(t, i) PROVE TypeOK'
    BY <2>9, <2>4 DEF CompensationFails, TypeOK, PlaceOK, Reached
  <2>10. ASSUME NEW i \in Step, CompensationVerified(t, i) PROVE TypeOK'
    <3>1. live' \in [Manager -> [Fact -> Truth]]
      <4> DEFINE undone == [f \in Fact |->
                   IF <<f, FALSE>> \in Comp[i].eff THEN TruthOf(FALSE)
                   ELSE IF <<f, TRUE>> \in Comp[i].eff THEN TruthOf(TRUE)
                   ELSE live[ManagerOf[t]][f]]
      <4>1. undone \in [Fact -> Truth]
        BY ZenonT(60) DEF TypeOK, Truth, TruthOf
      <4>2. live' = [live EXCEPT ![ManagerOf[t]] = undone]
        BY <2>10 DEF CompensationVerified
      <4> HIDE DEF undone
      <4> QED
        BY <4>1, <4>2 DEF TypeOK
    <3>2. ledger' \subseteq Record
      BY <2>10, TransactionAssumption DEF TransactionAssumption, CompensationVerified, TypeOK, Record, Rec, Event, Step
    <3> QED
      BY <2>10, <3>1, <3>2, GotoType DEF CompensationVerified, TypeOK, PlaceOK, Active
  <2>11. CASE CompensationUnverified(t)
    BY <2>11, <2>4 DEF CompensationUnverified, TypeOK, PlaceOK
  <2>12. CASE FinishRollback(t)
    BY <2>12, ReturnType, RaiseType DEF FinishRollback, TypeOK, PlaceOK, Outcome, SessionState
  <2> QED
    BY <1>5, <2>1, <2>2, <2>3, <2>5, <2>6, <2>7, <2>8, <2>9, <2>10, <2>11, <2>12 DEF Backward
<1>6. CASE UNCHANGED vars
  BY <1>6 DEF vars, TypeOK
<1> QED
  BY <1>1, <1>2, <1>3, <1>4, <1>5, <1>6 DEF Next, Call

\* Every reachable state is well typed.
THEOREM TypeCorrect == Spec => []TypeOK
<1>1. TypeOK /\ StepOK /\ [Next]_vars => TypeOK' /\ StepOK'
  BY TypeStep, StepStep
<1> QED
  BY TypeInit, <1>1, PTL DEF Spec

---------------------------------------------------------------------------
(***************************************************************************)
(* The inductive invariant CallInv.  A step of a call disturbs only its    *)
(* own place and its own ledger records (Locality), so one call at a time  *)
(* is looked at: its progress through the plan, the compensation of what   *)
(* it dispatched, and its outcome.                                         *)
(***************************************************************************)

TxInv(t) == ProgressInv(t) /\ UndoInv(t) /\ OutcomeInv(t)

\* Appending to the ledger adds one record of one call.
LEMMA Appended ==
  ASSUME NEW L, NEW t, NEW e, NEW i
  PROVE  \A u, f, j : Rec(u, f, j) \in L \cup {Rec(t, e, i)} <=>
                        Rec(u, f, j) \in L \/ (u = t /\ f = e /\ j = i)
<1> SUFFICES ASSUME NEW u, NEW f, NEW j, Rec(u, f, j) = Rec(t, e, i)
             PROVE  u = t /\ f = e /\ j = i
  OBVIOUS
<1>1. Rec(u, f, j).tx = Rec(t, e, i).tx /\ Rec(u, f, j).event = Rec(t, e, i).event
      /\ Rec(u, f, j).step = Rec(t, e, i).step
  OBVIOUS
<1> QED
  BY <1>1 DEF Rec

\* What a step of t leaves to the other calls.
Keeps(t) == \A u \in Tx \ {t} :
  /\ pc'[u] = pc[u] /\ step'[u] = step[u] /\ undo'[u] = undo[u] /\ outcome'[u] = outcome[u]
  /\ \A e, i : Rec(u, e, i) \in ledger' <=> Rec(u, e, i) \in ledger

\* A step of one call disturbs no other call.
LEMMA Locality ==
  ASSUME TypeOK, NEW t \in Tx, Call(t) \/ Interrupt(t)
  PROVE  Keeps(t)
<1> SUFFICES ASSUME NEW u \in Tx \ {t}
    PROVE /\ pc'[u] = pc[u] /\ step'[u] = step[u] /\ undo'[u] = undo[u] /\ outcome'[u] = outcome[u]
          /\ \A e, i : Rec(u, e, i) \in ledger' <=> Rec(u, e, i) \in ledger
  BY DEF Keeps
<1> DEFINE Kept4 == pc'[u] = pc[u] /\ step'[u] = step[u] /\ undo'[u] = undo[u] /\ outcome'[u] = outcome[u]
           Grows == ledger' = ledger \/ \E e, i : ledger' = ledger \cup {Rec(t, e, i)}
<1> USE DEF Goto, Return, Raise, ContainmentFailed
<1>1. Kept4 /\ Grows
  <2> pc \in [Tx -> Active \cup {"idle", "done"}] /\ step \in [Tx -> 1 .. N + 1]
      /\ undo \in [Tx -> SUBSET Step] /\ outcome \in [Tx -> Outcome \cup {None}]
    BY DEF TypeOK
  <2>1. CASE Interrupt(t)
    BY <2>1 DEF Interrupt
  <2>2. CASE Forward(t)
    <3>1. CASE Bind(t) \/ Refuse(t) \/ RejectCall(t) \/ Preflight(t) \/ VerifyAuthority(t)
      BY <3>1 DEF Bind, Refuse, RejectCall, Preflight, VerifyAuthority
    <3>2. CASE Dispatch(t) \/ AbortBeforeDispatch(t)
      BY <3>2 DEF Dispatch, AbortBeforeDispatch
    <3>3. CASE CommandSucceeds(t) \/ CommandFails(t) \/ WitnessFails(t)
      BY <3>3 DEF CommandSucceeds, CommandFails, WitnessFails, Advance
    <3>4. ASSUME NEW l \in Literal, WitnessEffect(t, l) PROVE Kept4 /\ Grows
      BY <3>4 DEF WitnessEffect, Advance
    <3>5. CASE RecordExecutionResult(t) \/ CommitExecution(t) \/ CommitBlocked(t)
      BY <3>5 DEF RecordExecutionResult, CommitExecution, CommitBlocked
    <3> QED
      BY <2>2, <3>1, <3>2, <3>3, <3>4, <3>5 DEF Forward
  <2>3. CASE Backward(t)
    <3>1. CASE RecoveryRaises(t) \/ FailUntouched(t) \/ BeginCompensation(t) \/ CheckDrift(t)
      BY <3>1 DEF RecoveryRaises, FailUntouched, BeginCompensation, CheckDrift
    <3>2. ASSUME NEW i \in Step, TriggerCompensation(t, i) \/ CompensationImpossible(t, i)
          PROVE  Kept4 /\ Grows
      BY <3>2 DEF TriggerCompensation, CompensationImpossible
    <3>3. ASSUME NEW i \in Step, CompensationSucceeds(t, i) \/ CompensationFails(t, i)
          PROVE  Kept4 /\ Grows
      BY <3>3 DEF CompensationSucceeds, CompensationFails
    <3>4. ASSUME NEW i \in Step, CompensationVerified(t, i) PROVE Kept4 /\ Grows
      BY <3>4 DEF CompensationVerified
    <3>5. CASE CompensationUnverified(t) \/ FinishRollback(t)
      BY <3>5 DEF CompensationUnverified, FinishRollback
    <3> QED
      BY <2>3, <3>1, <3>2, <3>3, <3>4, <3>5 DEF Backward
  <2> QED
    BY <2>1, <2>2, <2>3 DEF Call
<1>2. \A e, i : Rec(u, e, i) \in ledger' <=> Rec(u, e, i) \in ledger
  <2>1. CASE ledger' = ledger
    BY <2>1
  <2>2. ASSUME NEW e, NEW i, ledger' = ledger \cup {Rec(t, e, i)}
        PROVE  \A f, j : Rec(u, f, j) \in ledger' <=> Rec(u, f, j) \in ledger
    BY <2>2, Appended
  <2> QED
    BY <1>1, <2>1, <2>2
<1> QED
  BY <1>1, <1>2

\* A call that nothing disturbs keeps its invariant.
LEMMA Undisturbed ==
  ASSUME NEW u \in Tx, TxInv(u),
         pc'[u] = pc[u], step'[u] = step[u], undo'[u] = undo[u], outcome'[u] = outcome[u],
         \A e, i : Rec(u, e, i) \in ledger' <=> Rec(u, e, i) \in ledger
  PROVE  TxInv(u)'
<1> USE DEF TxInv, Logged
<1>1. InPlace(u)' = InPlace(u) /\ EffectfulDispatched(u)' = EffectfulDispatched(u)
  BY DEF InPlace, EffectfulDispatched, Dispatched, Effectful
<1>2. ProgressInv(u)'
  BY DEF ProgressInv
<1>3. UndoInv(u)'
  BY <1>1 DEF UndoInv
<1>4. OutcomeInv(u)'
  BY <1>1 DEF OutcomeInv
<1> QED
  BY <1>2, <1>3, <1>4

---------------------------------------------------------------------------
\* What the types say of one call.
PlaceOf(t) ==
  /\ N \in Nat \ {0} /\ ManagerOf[t] \in Manager /\ None \notin Outcome
  /\ pc \in [Tx -> Active \cup {"idle", "done"}] /\ step \in [Tx -> 1 .. N + 1]
  /\ undo \in [Tx -> SUBSET Step] /\ outcome \in [Tx -> Outcome \cup {None}]

LEMMA PlaceOfTypes == ASSUME TypeOK, NEW t \in Tx PROVE PlaceOf(t)
BY TransactionAssumption DEF TypeOK, PlaceOf, TransactionAssumption

\* A step that only moves pc inside the first labels, or ends the call with an
\* exception, keeps the invariant.
LEMMA ForwardMove ==
  ASSUME NEW t \in Tx, TxInv(t), PlaceOf(t),
         pc[t] \in BeforeCompensation \ {"drifted"},
         UNCHANGED <<step, undo, ledger>>,
         \/ outcome' = [outcome EXCEPT ![t] = "RAISED"] /\ pc' = [pc EXCEPT ![t] = "done"]
         \/ /\ UNCHANGED outcome
            /\ \E label \in {"preflight", "authority", "check", "record", "recover", "commit", "witness"} :
                 /\ pc' = [pc EXCEPT ![t] = label]
                 /\ label = "preflight" => pc[t] = "idle"
                 /\ label = "authority" => pc[t] = "preflight"
                 /\ label = "check" => pc[t] = "authority"
                 /\ label = "commit" => step[t] = N + 1
                 /\ label = "witness" => pc[t] \in {"running", "witness"}
  PROVE  TxInv(t)'
<1> USE DEF TxInv, Logged, PlaceOf
<1>1. InPlace(t)' = InPlace(t) /\ EffectfulDispatched(t)' = EffectfulDispatched(t)
  BY DEF InPlace, EffectfulDispatched, Dispatched, Effectful
<1>2. ProgressInv(t)'
  BY DEF ProgressInv
<1>3. UndoInv(t)'
  BY <1>1 DEF UndoInv, BeforeCompensation
<1>4. OutcomeInv(t)'
  BY <1>1 DEF OutcomeInv, BeforeCompensation
<1> QED
  BY <1>2, <1>3, <1>4

\* Every step of a call on its way forward keeps its invariant.
LEMMA ForwardInv ==
  ASSUME TypeOK, NEW t \in Tx, TxInv(t), Forward(t)
  PROVE  TxInv(t)'
<1> PlaceOf(t)
  BY PlaceOfTypes
<1> USE DEF Goto, Return, Raise, BeforeCompensation
<1>1. CASE Bind(t) \/ Refuse(t) \/ RejectCall(t) \/ Preflight(t) \/ VerifyAuthority(t)
  BY <1>1, ForwardMove DEF Bind, Callable, Refuse, RejectCall, Preflight, VerifyAuthority
<1>2. CASE AbortBeforeDispatch(t) \/ CommandFails(t) \/ WitnessFails(t) \/ CommitBlocked(t)
  BY <1>2, ForwardMove DEF AbortBeforeDispatch, CommandFails, WitnessFails, CommitBlocked
<1>3. CASE RecordExecutionResult(t)
  BY <1>3, ForwardMove DEF RecordExecutionResult, Completed
<1>4. CASE Dispatch(t)
  <2>1. \A u, f, j : Rec(u, f, j) \in ledger' <=>
          Rec(u, f, j) \in ledger \/ (u = t /\ f = "ACTION_DISPATCHED" /\ j = step[t])
    BY <1>4, Appended DEF Dispatch
  <2>2. /\ pc[t] = "check" /\ pc'[t] = "running"
        /\ UNCHANGED <<step, undo, outcome>>
    BY <1>4 DEF Dispatch, PlaceOf
  <2>3. ProgressInv(t)'
    BY <2>1, <2>2 DEF TxInv, ProgressInv, Logged, PlaceOf, Step
  <2>4. UndoInv(t)'
    BY <2>1, <2>2 DEF TxInv, UndoInv, Logged
  <2>5. OutcomeInv(t)'
    BY <2>1, <2>2 DEF TxInv, OutcomeInv, Logged, PlaceOf, Outcome
  <2> QED
    BY <2>3, <2>4, <2>5 DEF TxInv
<1>5. CASE CommandSucceeds(t)
  <2>1. CASE Cap[step[t]].eff # {}
    BY <1>5, <2>1, ForwardMove DEF CommandSucceeds
  <2>2. CASE Cap[step[t]].eff = {}
    <3>1. /\ pc[t] = "running"
          /\ pc'[t] = IF step[t] = N THEN "record" ELSE "check"
          /\ step'[t] = step[t] + 1
          /\ UNCHANGED <<undo, outcome, ledger>>
      BY <1>5, <2>2 DEF CommandSucceeds, Advance, PlaceOf
    <3>2. ProgressInv(t)'
      BY <2>2, <3>1 DEF TxInv, ProgressInv, Logged, PlaceOf, Step, Effectful
    <3>3. UndoInv(t)'
      BY <3>1 DEF TxInv, UndoInv, Logged
    <3>4. OutcomeInv(t)'
      BY <3>1 DEF TxInv, OutcomeInv, Logged, PlaceOf, Outcome
    <3> QED
      BY <3>2, <3>3, <3>4 DEF TxInv
  <2> QED
    BY <2>1, <2>2
<1>6. ASSUME NEW l \in Literal, WitnessEffect(t, l) PROVE TxInv(t)'
  <2>1. CASE pend[t] # {l}
    BY <1>6, <2>1, ForwardMove DEF WitnessEffect
  <2>2. CASE pend[t] = {l}
    <3>1. \A u, f, j : Rec(u, f, j) \in ledger' <=>
            Rec(u, f, j) \in ledger \/ (u = t /\ f = "POSTCHECK_WITNESSED" /\ j = step[t])
      BY <1>6, <2>2, Appended DEF WitnessEffect
    <3>2. /\ pc[t] = "witness"
          /\ pc'[t] = IF step[t] = N THEN "record" ELSE "check"
          /\ step'[t] = step[t] + 1
          /\ UNCHANGED <<undo, outcome>>
      BY <1>6, <2>2 DEF WitnessEffect, Advance, PlaceOf
    <3>3. ProgressInv(t)'
      BY <3>1, <3>2 DEF TxInv, ProgressInv, Logged, PlaceOf, Step
    <3>4. UndoInv(t)'
      BY <3>1, <3>2 DEF TxInv, UndoInv, Logged
    <3>5. OutcomeInv(t)'
      BY <3>1, <3>2 DEF TxInv, OutcomeInv, Logged, PlaceOf, Outcome
    <3> QED
      BY <3>3, <3>4, <3>5 DEF TxInv
  <2> QED
    BY <2>1, <2>2
<1>7. CASE CommitExecution(t)
  <2>1. \A u, f, j : Rec(u, f, j) \in ledger' <=>
          Rec(u, f, j) \in ledger \/ (u = t /\ f = "PLAN_COMMITTED" /\ j = 0)
    BY <1>7, Appended DEF CommitExecution
  <2>2. /\ pc[t] = "commit" /\ pc'[t] = "done" /\ outcome'[t] \in {"COMMITTED", "RAISED"}
        /\ UNCHANGED <<step, undo>>
    BY <1>7 DEF CommitExecution, PlaceOf
  <2>3. ProgressInv(t)'
    BY <2>1, <2>2 DEF TxInv, ProgressInv, Logged
  <2>4. UndoInv(t)'
    BY <2>1, <2>2 DEF TxInv, UndoInv, Logged
  <2>5. OutcomeInv(t)'
    BY <2>1, <2>2 DEF TxInv, OutcomeInv, ProgressInv, UndoInv, Logged
  <2> QED
    BY <2>3, <2>4, <2>5 DEF TxInv
<1> QED
  BY <1>1, <1>2, <1>3, <1>4, <1>5, <1>6, <1>7 DEF Forward

\* Ending the call without a record keeps the invariant, when the outcome says
\* no more than the ledger does.
LEMMA EndInv ==
  ASSUME NEW t \in Tx, TxInv(t), PlaceOf(t), pc[t] \in Active,
         pc' = [pc EXCEPT ![t] = "done"], UNCHANGED <<step, undo, ledger>>,
         NEW o, outcome' = [outcome EXCEPT ![t] = o],
         o = "ROLLED_BACK" => InPlace(t) = {},
         o = "FAILED" => EffectfulDispatched(t) = {}
  PROVE  TxInv(t)'
<1> USE DEF TxInv, Logged, PlaceOf
<1>1. InPlace(t)' = InPlace(t) /\ EffectfulDispatched(t)' = EffectfulDispatched(t)
  BY DEF InPlace, EffectfulDispatched, Dispatched, Effectful
<1>2. ProgressInv(t)'
  BY DEF ProgressInv
<1>3. UndoInv(t)'
  BY <1>1 DEF UndoInv, BeforeCompensation
<1>4. OutcomeInv(t)'
  BY <1>1 DEF OutcomeInv, Active
<1> QED
  BY <1>2, <1>3, <1>4

\* Containment keeps the invariant while something is in place.
LEMMA ContainmentInv ==
  ASSUME NEW t \in Tx, TxInv(t), PlaceOf(t), pc[t] \in Undoing, InPlace(t) # {},
         ContainmentFailed(t), UNCHANGED <<step, undo>>
  PROVE  TxInv(t)'
<1> USE DEF TxInv, Logged
<1>1. \A u, f, j : Rec(u, f, j) \in ledger' <=>
        Rec(u, f, j) \in ledger \/ (u = t /\ f = "CONTAINMENT_FAILED" /\ j = 0)
  BY Appended DEF ContainmentFailed
<1>2. InPlace(t)' = InPlace(t)
  BY <1>1 DEF InPlace, EffectfulDispatched, Dispatched, Effectful
<1>3. pc'[t] = "done" /\ outcome'[t] \in {"CONTAINMENT_FAILED", "RAISED"}
  BY DEF ContainmentFailed, Return, PlaceOf
<1>4. ProgressInv(t)'
  BY <1>1, <1>3 DEF ProgressInv
<1>5. UndoInv(t)'
  BY <1>1, <1>2, <1>3 DEF UndoInv, BeforeCompensation
<1>6. OutcomeInv(t)'
  BY <1>1, <1>2, <1>3 DEF OutcomeInv, Undoing
<1> QED
  BY <1>4, <1>5, <1>6

\* Every step of a call in recovery keeps its invariant.
LEMMA BackwardInv ==
  ASSUME TypeOK, NEW t \in Tx, TxInv(t), Backward(t)
  PROVE  TxInv(t)'
<1> PlaceOf(t)
  BY PlaceOfTypes
<1> USE DEF Goto
<1>1. CASE RecoveryRaises(t)
  BY <1>1, EndInv DEF RecoveryRaises, Raise, Active
<1>2. CASE FailUntouched(t)
  BY <1>2, EndInv DEF FailUntouched, Return, Active
<1>3. CASE BeginCompensation(t)
  <2>1. /\ pc[t] = "recover" /\ pc'[t] = "drifted"
        /\ undo'[t] = EffectfulDispatched(t) /\ EffectfulDispatched(t) # {}
        /\ UNCHANGED <<step, outcome, ledger>>
    BY <1>3 DEF BeginCompensation, PlaceOf
  <2>2. InPlace(t) = EffectfulDispatched(t)
    BY <2>1 DEF TxInv, UndoInv, BeforeCompensation, InPlace, EffectfulDispatched, Dispatched, Logged
  <2>3. InPlace(t)' = InPlace(t) /\ EffectfulDispatched(t)' = EffectfulDispatched(t)
    BY <2>1 DEF InPlace, EffectfulDispatched, Dispatched, Effectful, Logged
  <2>4. ProgressInv(t)'
    BY <2>1 DEF TxInv, ProgressInv, Logged
  <2>5. UndoInv(t)'
    BY <2>1, <2>2, <2>3 DEF TxInv, UndoInv, BeforeCompensation, Logged
  <2>6. OutcomeInv(t)'
    BY <2>1, <2>3 DEF TxInv, OutcomeInv, Logged
  <2> QED
    BY <2>4, <2>5, <2>6 DEF TxInv
<1>4. CASE CheckDrift(t)
  <2>1. InPlace(t) # {} /\ undo[t] = InPlace(t)
    BY <1>4 DEF CheckDrift, TxInv, UndoInv
  <2>2. CASE ContainmentFailed(t)
    BY <1>4, <2>1, <2>2, ContainmentInv DEF CheckDrift, Undoing
  <2>3. CASE Goto(t, "compensate") /\ UNCHANGED ledger
    <3>1. /\ pc[t] = "drifted" /\ pc'[t] = "compensate"
          /\ UNCHANGED <<step, undo, outcome, ledger>>
      BY <1>4, <2>3 DEF CheckDrift, PlaceOf
    <3>2. InPlace(t)' = InPlace(t) /\ EffectfulDispatched(t)' = EffectfulDispatched(t)
      BY <3>1 DEF InPlace, EffectfulDispatched, Dispatched, Effectful, Logged
    <3>3. ProgressInv(t)'
      BY <3>1 DEF TxInv, ProgressInv, Logged
    <3>4. UndoInv(t)'
      BY <3>1, <3>2, <2>1 DEF TxInv, UndoInv, BeforeCompensation, Logged
    <3>5. OutcomeInv(t)'
      BY <3>1, <3>2 DEF TxInv, OutcomeInv, Logged
    <3> QED
      BY <3>3, <3>4, <3>5 DEF TxInv
  <2> QED
    BY <1>4, <2>2, <2>3 DEF CheckDrift
<1>5. ASSUME NEW i \in Step, TriggerCompensation(t, i) PROVE TxInv(t)'
  <2>1. \A u, f, j : Rec(u, f, j) \in ledger' <=>
          Rec(u, f, j) \in ledger \/ (u = t /\ f = "COMPENSATION_TRIGGERED" /\ j = i)
    BY <1>5, Appended DEF TriggerCompensation
  <2>2. /\ pc[t] = "compensate" /\ pc'[t] = "undoing"
        /\ i \in undo[t] /\ \A j \in undo[t] : j <= i
        /\ UNCHANGED <<step, undo, outcome>>
    BY <1>5 DEF TriggerCompensation, Latest, PlaceOf
  <2>3. undo[t] = InPlace(t)
    BY <2>2 DEF TxInv, UndoInv
  <2>4. InPlace(t)' = InPlace(t) /\ EffectfulDispatched(t)' = EffectfulDispatched(t)
    BY <2>1 DEF InPlace, EffectfulDispatched, Dispatched, Effectful, Logged
  <2>5. \A j \in Step : j > i /\ j \in Effectful /\ Logged(t, "ACTION_DISPATCHED", j)
                         => Logged(t, "COMPENSATION_VERIFIED", j)
    BY <2>2, <2>3 DEF InPlace, EffectfulDispatched, Dispatched, Logged, Step
  <2>6. ProgressInv(t)'
    BY <2>1, <2>2 DEF TxInv, ProgressInv, Logged
  <2>7. UndoInv(t)'
    BY <2>1, <2>2, <2>3, <2>4, <2>5 DEF TxInv, UndoInv, BeforeCompensation, Logged
  <2>8. OutcomeInv(t)'
    BY <2>1, <2>2, <2>4 DEF TxInv, OutcomeInv, Logged
  <2> QED
    BY <2>6, <2>7, <2>8 DEF TxInv
<1>6. ASSUME NEW i \in Step, CompensationImpossible(t, i) PROVE TxInv(t)'
  <2>1. InPlace(t) # {}
    BY <1>6 DEF CompensationImpossible, Latest, TxInv, UndoInv
  <2> QED
    BY <1>6, <2>1, ContainmentInv DEF CompensationImpossible, Undoing
<1>7. ASSUME NEW i \in Step, CompensationSucceeds(t, i) PROVE TxInv(t)'
  <2>1. /\ pc[t] = "undoing" /\ pc'[t] = "unwitness"
        /\ UNCHANGED <<step, undo, outcome, ledger>>
    BY <1>7 DEF CompensationSucceeds, PlaceOf
  <2>2. InPlace(t)' = InPlace(t) /\ EffectfulDispatched(t)' = EffectfulDispatched(t)
    BY <2>1 DEF InPlace, EffectfulDispatched, Dispatched, Effectful, Logged
  <2>3. ProgressInv(t)'
    BY <2>1 DEF TxInv, ProgressInv, Logged
  <2>4. UndoInv(t)'
    BY <2>1, <2>2 DEF TxInv, UndoInv, BeforeCompensation, Logged
  <2>5. OutcomeInv(t)'
    BY <2>1, <2>2 DEF TxInv, OutcomeInv, Logged
  <2> QED
    BY <2>3, <2>4, <2>5 DEF TxInv
<1>8. ASSUME NEW i \in Step, CompensationFails(t, i) PROVE TxInv(t)'
  <2>1. InPlace(t) # {}
    BY <1>8 DEF CompensationFails, TxInv, UndoInv
  <2> QED
    BY <1>8, <2>1, ContainmentInv DEF CompensationFails, Undoing
<1>9. ASSUME NEW i \in Step, CompensationVerified(t, i) PROVE TxInv(t)'
  <2>1. \A u, f, j : Rec(u, f, j) \in ledger' <=>
          Rec(u, f, j) \in ledger \/ (u = t /\ f = "COMPENSATION_VERIFIED" /\ j = i)
    BY <1>9, Appended DEF CompensationVerified
  <2>2. /\ pc[t] = "unwitness" /\ pc'[t] = "compensate"
        /\ i \in undo[t] /\ \A j \in undo[t] : j <= i
        /\ undo'[t] = undo[t] \ {i}
        /\ UNCHANGED <<step, outcome>>
    BY <1>9 DEF CompensationVerified, Latest, PlaceOf
  <2>3. undo[t] = InPlace(t)
    BY <2>2 DEF TxInv, UndoInv
  <2>4. InPlace(t)' = InPlace(t) \ {i} /\ EffectfulDispatched(t)' = EffectfulDispatched(t)
    BY <2>1 DEF InPlace, EffectfulDispatched, Dispatched, Effectful, Logged
  <2>5. \A j \in Step : j > i /\ j \in Effectful /\ Logged(t, "ACTION_DISPATCHED", j)
                         => Logged(t, "COMPENSATION_VERIFIED", j)
    BY <2>2, <2>3 DEF InPlace, EffectfulDispatched, Dispatched, Logged, Step
  <2>6. ProgressInv(t)'
    BY <2>1, <2>2 DEF TxInv, ProgressInv, Logged
  <2>7. UndoInv(t)'
    BY <2>1, <2>2, <2>3, <2>4, <2>5 DEF TxInv, UndoInv, BeforeCompensation, Logged
  <2>8. OutcomeInv(t)'
    BY <2>1, <2>2, <2>4 DEF TxInv, OutcomeInv, Logged, PlaceOf, Outcome
  <2> QED
    BY <2>6, <2>7, <2>8 DEF TxInv
<1>10. CASE CompensationUnverified(t)
  <2>1. InPlace(t) # {}
    BY <1>10 DEF CompensationUnverified, TxInv, UndoInv
  <2> QED
    BY <1>10, <2>1, ContainmentInv DEF CompensationUnverified, Undoing
<1>11. CASE FinishRollback(t)
  <2>1. InPlace(t) = {} /\ pc[t] = "compensate"
    BY <1>11 DEF FinishRollback, TxInv, UndoInv
  <2> QED
    BY <1>11, <2>1, EndInv DEF FinishRollback, Return, Raise, Active
<1> QED
  BY <1>1, <1>2, <1>3, <1>4, <1>5, <1>6, <1>7, <1>8, <1>9, <1>10, <1>11 DEF Backward

\* Initially no call has a record.
LEMMA CallInit == Init => CallInv
<1> SUFFICES ASSUME Init, NEW t \in Tx PROVE TxInv(t)
  BY DEF CallInv, TxInv
<1> N \in Nat \ {0} /\ 1 \in Step
  BY TransactionAssumption DEF TransactionAssumption, Step
<1> USE DEF Init, Logged
<1>1. ProgressInv(t)
  BY DEF ProgressInv, Step
<1>2. UndoInv(t)
  BY DEF UndoInv
<1>3. OutcomeInv(t)
  BY TransactionAssumption DEF OutcomeInv, Outcome, TransactionAssumption
<1> QED
  BY <1>1, <1>2, <1>3 DEF TxInv

\* Every step keeps the invariant of every call.
LEMMA CallStep == TypeOK /\ CallInv /\ [Next]_vars => CallInv'
<1> SUFFICES ASSUME TypeOK, CallInv, [Next]_vars, NEW u \in Tx PROVE TxInv(u)'
  BY DEF CallInv, TxInv
<1> TxInv(u)
  BY DEF CallInv, TxInv
<1>1. CASE StartExecution
  BY <1>1, Undisturbed DEF StartExecution
<1>2. ASSUME NEW d \in Disturbances, Disturb(d) PROVE TxInv(u)'
  BY <1>2, Undisturbed DEF Disturb
<1>3. ASSUME NEW t \in Tx, Call(t) \/ Interrupt(t) PROVE TxInv(u)'
  <2>1. CASE t # u
    BY <1>3, <2>1, Locality, Undisturbed DEF Keeps
  <2>2. CASE t = u /\ Call(t)
    BY <2>2, ForwardInv, BackwardInv DEF Call
  <2>3. CASE t = u /\ Interrupt(t)
    BY <2>3, EndInv, PlaceOfTypes DEF Interrupt, Raise
  <2> QED
    BY <1>3, <2>1, <2>2, <2>3
<1>4. CASE UNCHANGED vars
  BY <1>4, Undisturbed DEF vars
<1> QED
  BY <1>1, <1>2, <1>3, <1>4 DEF Next

\* For every plan, number of calls and managers, and whatever is disturbed, a
\* call's place in execute_and_finalize, its records and its outcome agree.
THEOREM CallsCorrect == Spec => []CallInv
<1>1. TypeOK /\ CallInv /\ [Next]_vars => CallInv'
  BY CallStep
<1> QED
  BY CallInit, <1>1, TypeCorrect, PTL DEF Spec

---------------------------------------------------------------------------
(***************************************************************************)
(* What the invariant gives.  CallInv speaks of where a call is; these are *)
(* the properties of the ledger and of the reported outcomes.              *)
(***************************************************************************)

LEMMA CallInvSafe ==
  ASSUME TypeOK, CallInv
  PROVE  /\ CommitWitnessed /\ DispatchInOrder /\ ReverseOrder
         /\ RollbackComplete /\ FailedUntouched /\ ContainmentJustified
<1> \A t \in Tx : TxInv(t) /\ PlaceOf(t)
  BY PlaceOfTypes DEF CallInv, TxInv
<1> USE DEF TxInv, Logged
<1>1. CommitWitnessed
  BY DEF CommitWitnessed, ProgressInv, OutcomeInv, Dispatched, Effectful, PlaceOf, Step
<1>2. DispatchInOrder
  BY DEF DispatchInOrder, ProgressInv, PlaceOf, Step
<1>3. ReverseOrder
  BY DEF ReverseOrder, UndoInv, EffectfulDispatched, Dispatched
<1>4. RollbackComplete
  BY DEF RollbackComplete, OutcomeInv, InPlace
<1>5. FailedUntouched
  BY DEF FailedUntouched, OutcomeInv
<1>6. ContainmentJustified
  BY DEF ContainmentJustified, OutcomeInv, InPlace
<1> QED
  BY <1>1, <1>2, <1>3, <1>4, <1>5, <1>6

\* A commit is recorded only by a call that dispatched every action itself,
\* witnessed every effectful one and compensated none (commit_execution).
THEOREM CommitsAreWitnessed == Spec => []CommitWitnessed
BY TypeCorrect, CallsCorrect, CallInvSafe, PTL

\* No action is dispatched ahead of an unwitnessed effectful one
\* (execute_authorized_plan).
THEOREM DispatchesInOrder == Spec => []DispatchInOrder
BY TypeCorrect, CallsCorrect, CallInvSafe, PTL

\* Compensation goes backwards through everything the call dispatched
\* (_compensate_or_contain).
THEOREM CompensatesInReverse == Spec => []ReverseOrder
BY TypeCorrect, CallsCorrect, CallInvSafe, PTL

\* ROLLED_BACK is reported only with every dispatched effect verifiably undone.
THEOREM RollbacksAreComplete == Spec => []RollbackComplete
BY TypeCorrect, CallsCorrect, CallInvSafe, PTL

\* FAILED is reported only when nothing with an effect was dispatched.
THEOREM FailuresAreUntouched == Spec => []FailedUntouched
BY TypeCorrect, CallsCorrect, CallInvSafe, PTL

\* Containment is declared only while something is left without verified undo.
THEOREM ContainmentsAreJustified == Spec => []ContainmentJustified
BY TypeCorrect, CallsCorrect, CallInvSafe, PTL

(***************************************************************************)
(* The transactional execution manager implements Saga: each of its steps  *)
(* is a step of the saga of one call, or none.                             *)
(***************************************************************************)

\* The phases and the steps in place, as the functions Saga sees.
SPhase == [t \in Tx |-> SagaPhase(t)]
SApplied == [t \in Tx |-> InPlace(t)]

\* A step of t changes the saga of t only.
LEMMA OneSaga ==
  ASSUME TypeOK, NEW t \in Tx, Call(t) \/ Interrupt(t)
  PROVE  /\ SPhase' = [SPhase EXCEPT ![t] = SagaPhase(t)']
         /\ SApplied' = [SApplied EXCEPT ![t] = InPlace(t)']
<1>1. Keeps(t)
  BY Locality
<1>2. ASSUME NEW u \in Tx \ {t}
      PROVE  SagaPhase(u)' = SagaPhase(u) /\ InPlace(u)' = InPlace(u)
  BY <1>1 DEF Keeps, SagaPhase, InPlace, EffectfulDispatched, Dispatched, Effectful, Logged
<1> QED
  BY <1>2 DEF SPhase, SApplied

\* The saga of a call whose step changes neither place nor phase stutters.
LEMMA SameSaga ==
  ASSUME TypeOK, NEW t \in Tx, Call(t) \/ Interrupt(t),
         SagaPhase(t)' = SagaPhase(t), InPlace(t)' = InPlace(t)
  PROVE  UNCHANGED S!sagaVars
<1>1. SPhase' = SPhase /\ SApplied' = SApplied
  BY OneSaga DEF SPhase, SApplied
<1> QED
  BY <1>1 DEF S!sagaVars, SPhase, SApplied

\* A step that moves the phase of t alone is a Move of the saga.
LEMMA OneMove ==
  ASSUME TypeOK, NEW t \in Tx, Call(t) \/ Interrupt(t),
         InPlace(t)' = InPlace(t)
  PROVE  S!Move(t, SagaPhase(t), SagaPhase(t)')
<1>1. SPhase' = [SPhase EXCEPT ![t] = SagaPhase(t)'] /\ SApplied' = SApplied
  BY OneSaga DEF SApplied
<1> QED
  BY <1>1 DEF S!Move, SPhase, SApplied

---------------------------------------------------------------------------
\* A step that records nothing leaves in place what is in place.
LEMMA SilentStep ==
  ASSUME NEW t \in Tx, ledger' = ledger
  PROVE  InPlace(t)' = InPlace(t)
BY DEF InPlace, EffectfulDispatched, Dispatched, Effectful, Logged

\* A record of another event than a dispatch or a verified undo does so too.
LEMMA NeutralRecord ==
  ASSUME NEW t \in Tx, NEW e, NEW i, ledger' = ledger \cup {Rec(t, e, i)},
         e \notin {"ACTION_DISPATCHED", "COMPENSATION_VERIFIED"}
  PROVE  InPlace(t)' = InPlace(t)
<1>1. \A u, f, j : Rec(u, f, j) \in ledger' <=>
        Rec(u, f, j) \in ledger \/ (u = t /\ f = e /\ j = i)
  BY Appended
<1> QED
  BY <1>1 DEF InPlace, EffectfulDispatched, Dispatched, Effectful, Logged

\* An exception loses the saga.
LEMMA RaiseLoses ==
  ASSUME TypeOK, NEW t \in Tx, Call(t) \/ Interrupt(t), ledger' = ledger,
         pc[t] # "done", pc'[t] = "done", outcome'[t] = "RAISED"
  PROVE  S!SagaNext
<1>1. SagaPhase(t)' = "lost" /\ SagaPhase(t) \in {"forward", "backward"}
  BY DEF SagaPhase, EndPhase
<1>2. S!Lose(t)
  BY <1>1, OneMove, SilentStep DEF S!Lose
<1> QED
  BY <1>2 DEF S!SagaNext

\* Containment, reported or lost to a broken ledger.
LEMMA ContainmentSaga ==
  ASSUME TypeOK, NEW t \in Tx, TxInv(t), Call(t), pc[t] \in Undoing, InPlace(t) # {},
         ContainmentFailed(t)
  PROVE  S!SagaNext
<1>1. InPlace(t)' = InPlace(t)
  BY NeutralRecord DEF ContainmentFailed
<1>2. pc'[t] = "done" /\ outcome'[t] \in {"CONTAINMENT_FAILED", "RAISED"}
  BY DEF ContainmentFailed, Return, TypeOK
<1>3. SagaPhase(t) = "backward" /\ SagaPhase(t)' \in {"contained", "lost"}
  BY <1>2 DEF SagaPhase, EndPhase, Undoing
<1>4. S!Move(t, "backward", "contained") \/ S!Move(t, "backward", "lost")
  BY <1>1, <1>3, OneMove
<1>5. S!Contain(t) \/ S!Lose(t)
  BY <1>4 DEF S!Contain, S!Lose
<1> QED
  BY <1>5 DEF S!SagaNext

\* Every step on the way forward is a step of the saga or none.
LEMMA ForwardSaga ==
  ASSUME TypeOK, NEW t \in Tx, TxInv(t), Forward(t)
  PROVE  S!SagaNext \/ UNCHANGED S!sagaVars
<1> PlaceOf(t)
  BY PlaceOfTypes
<1> Call(t)
  BY DEF Call
<1> DEFINE ahead == Active \ Undoing
<1>1. ASSUME pc[t] \in ahead \cup {"idle"}, pc'[t] \in ahead, ledger' = ledger
      PROVE  UNCHANGED S!sagaVars
  BY <1>1, SameSaga, SilentStep DEF SagaPhase, Active, Undoing
<1> USE DEF Goto, Return, Raise
<1>2. CASE Bind(t) \/ Preflight(t) \/ VerifyAuthority(t)
  BY <1>1, <1>2 DEF Bind, Callable, Preflight, VerifyAuthority, PlaceOf, Active, Undoing
<1>3. CASE Refuse(t) \/ RejectCall(t)
  BY <1>3, RaiseLoses DEF Refuse, Callable, RejectCall, PlaceOf
<1>4. CASE AbortBeforeDispatch(t) \/ CommandFails(t) \/ WitnessFails(t)
  BY <1>1, <1>4 DEF AbortBeforeDispatch, CommandFails, WitnessFails, PlaceOf, Active, Undoing
<1>5. CASE CommandSucceeds(t) \/ RecordExecutionResult(t) \/ CommitBlocked(t)
  BY <1>1, <1>5
  DEF CommandSucceeds, Advance, RecordExecutionResult, CommitBlocked, PlaceOf, Active, Undoing
<1>6. ASSUME NEW l \in Literal, WitnessEffect(t, l)
      PROVE  UNCHANGED S!sagaVars
  <2>1. InPlace(t)' = InPlace(t)
    BY <1>6, SilentStep, NeutralRecord DEF WitnessEffect
  <2>2. pc[t] = "witness" /\ pc'[t] \in {"witness", "record", "check"}
    BY <1>6 DEF WitnessEffect, Advance, PlaceOf
  <2> QED
    BY <2>1, <2>2, SameSaga DEF SagaPhase, Undoing
<1>7. CASE Dispatch(t)
  <2> DEFINE i == step[t]
  <2>1. \A u, f, j : Rec(u, f, j) \in ledger' <=>
          Rec(u, f, j) \in ledger \/ (u = t /\ f = "ACTION_DISPATCHED" /\ j = i)
    BY <1>7, Appended DEF Dispatch
  <2>2. pc[t] = "check" /\ pc'[t] = "running"
    BY <1>7 DEF Dispatch, PlaceOf
  <2>3. SagaPhase(t) = "forward" /\ SagaPhase(t)' = "forward"
    BY <2>2 DEF SagaPhase, Undoing
  <2>4. i \in Step /\ ~Logged(t, "ACTION_DISPATCHED", i) /\ ~Logged(t, "COMPENSATION_VERIFIED", i)
    BY <2>2 DEF TxInv, ProgressInv, UndoInv, BeforeCompensation
  <2>5. CASE i \notin Effectful
    <3>1. InPlace(t)' = InPlace(t)
      BY <2>1, <2>5 DEF InPlace, EffectfulDispatched, Dispatched, Effectful, Logged
    <3> QED
      BY <3>1, <2>3, SameSaga
  <2>6. CASE i \in Effectful
    <3>1. InPlace(t)' = InPlace(t) \cup {i}
      BY <2>1, <2>4, <2>6 DEF InPlace, EffectfulDispatched, Dispatched, Effectful, Logged
    <3>2. \A j \in Effectful : j < i <=> j \in InPlace(t)
      BY <2>2, <2>4 DEF TxInv, ProgressInv, UndoInv, BeforeCompensation, InPlace,
         EffectfulDispatched, Dispatched, Effectful, Logged, Step, PlaceOf
    <3>3. SPhase' = SPhase /\ SApplied' = [SApplied EXCEPT ![t] = @ \cup {i}]
      BY <2>3, <3>1, OneSaga DEF SPhase, SApplied
    <3>4. S!Do(t, i)
      BY <2>3, <3>2, <3>3 DEF S!Do, SPhase, SApplied
    <3> QED
      BY <2>6, <3>4 DEF S!SagaNext
  <2> QED
    BY <2>5, <2>6
<1>8. CASE CommitExecution(t)
  <2>1. InPlace(t)' = InPlace(t)
    BY <1>8, NeutralRecord DEF CommitExecution
  <2>2. pc[t] = "commit" /\ pc'[t] = "done" /\ outcome'[t] \in {"COMMITTED", "RAISED"}
    BY <1>8 DEF CommitExecution, PlaceOf
  <2>3. SagaPhase(t) = "forward" /\ SagaPhase(t)' \in {"committed", "lost"}
    BY <2>2 DEF SagaPhase, EndPhase, Undoing
  <2>4. S!Move(t, "forward", "committed") \/ S!Move(t, "forward", "lost")
    BY <2>1, <2>3, OneMove
  <2>5. InPlace(t) = Effectful
    BY <2>2 DEF TxInv, ProgressInv, UndoInv, BeforeCompensation, InPlace,
       EffectfulDispatched, Dispatched, Effectful, Logged, Step, PlaceOf
  <2>6. S!Commit(t) \/ S!Lose(t)
    BY <2>4, <2>5 DEF S!Commit, S!Lose
  <2> QED
    BY <2>6 DEF S!SagaNext
<1> QED
  BY <1>2, <1>3, <1>4, <1>5, <1>6, <1>7, <1>8 DEF Forward

\* Every step of recovery is a step of the saga or none.
LEMMA BackwardSaga ==
  ASSUME TypeOK, NEW t \in Tx, TxInv(t), Backward(t)
  PROVE  S!SagaNext \/ UNCHANGED S!sagaVars
<1> PlaceOf(t)
  BY PlaceOfTypes
<1> Call(t)
  BY DEF Call
<1>1. ASSUME pc[t] \in Undoing, pc'[t] \in Undoing, InPlace(t)' = InPlace(t)
      PROVE  UNCHANGED S!sagaVars
  BY <1>1, SameSaga DEF SagaPhase, Undoing
<1> USE DEF Goto, Return, Raise
<1>2. CASE RecoveryRaises(t)
  BY <1>2, RaiseLoses DEF RecoveryRaises, PlaceOf
<1>3. CASE FailUntouched(t)
  <2>1. pc[t] = "recover" /\ pc'[t] = "done" /\ outcome'[t] \in {"FAILED", "RAISED"}
    BY <1>3 DEF FailUntouched, PlaceOf
  <2>2. SagaPhase(t) = "forward" /\ SagaPhase(t)' \in {"failed", "lost"}
    BY <2>1 DEF SagaPhase, EndPhase, Undoing
  <2>3. InPlace(t) = {} /\ InPlace(t)' = InPlace(t)
    BY <1>3, SilentStep DEF FailUntouched, InPlace
  <2>4. S!Move(t, "forward", "failed") \/ S!Move(t, "forward", "lost")
    BY <2>2, <2>3, OneMove
  <2>5. S!FailClean(t) \/ S!Lose(t)
    BY <2>3, <2>4 DEF S!FailClean, S!Lose
  <2> QED
    BY <2>5 DEF S!SagaNext
<1>4. CASE BeginCompensation(t)
  <2>1. pc[t] = "recover" /\ pc'[t] = "drifted"
    BY <1>4 DEF BeginCompensation, PlaceOf
  <2>2. SagaPhase(t) = "forward" /\ SagaPhase(t)' = "backward"
    BY <2>1 DEF SagaPhase, Undoing
  <2>3. InPlace(t)' = InPlace(t)
    BY <1>4, SilentStep DEF BeginCompensation
  <2>4. InPlace(t) # {}
    BY <1>4, <2>1 DEF BeginCompensation, TxInv, UndoInv, BeforeCompensation, InPlace,
       EffectfulDispatched, Dispatched, Logged
  <2>5. S!Move(t, "forward", "backward")
    BY <2>2, <2>3, OneMove
  <2>6. S!TurnBack(t)
    BY <2>4, <2>5 DEF S!TurnBack
  <2> QED
    BY <2>6 DEF S!SagaNext
<1>5. CASE CheckDrift(t)
  <2>1. pc[t] = "drifted" /\ InPlace(t) # {}
    BY <1>5 DEF CheckDrift, TxInv, UndoInv
  <2>2. CASE ContainmentFailed(t)
    BY <2>1, <2>2, ContainmentSaga DEF Undoing
  <2>3. CASE Goto(t, "compensate") /\ UNCHANGED ledger
    BY <1>1, <2>1, <2>3, SilentStep DEF Undoing, PlaceOf
  <2> QED
    BY <1>5, <2>2, <2>3 DEF CheckDrift
<1>6. ASSUME NEW i \in Step, TriggerCompensation(t, i)
      PROVE  UNCHANGED S!sagaVars
  BY <1>1, <1>6, NeutralRecord DEF TriggerCompensation, Undoing, PlaceOf
<1>7. ASSUME NEW i \in Step, CompensationImpossible(t, i) PROVE S!SagaNext
  BY <1>7, ContainmentSaga DEF CompensationImpossible, Latest, TxInv, UndoInv, Undoing
<1>8. ASSUME NEW i \in Step, CompensationSucceeds(t, i)
      PROVE  UNCHANGED S!sagaVars
  BY <1>1, <1>8, SilentStep DEF CompensationSucceeds, Undoing, PlaceOf
<1>9. ASSUME NEW i \in Step, CompensationFails(t, i) PROVE S!SagaNext
  BY <1>9, ContainmentSaga DEF CompensationFails, TxInv, UndoInv, Undoing
<1>10. ASSUME NEW i \in Step, CompensationVerified(t, i) PROVE S!SagaNext
  <2>1. \A u, f, j : Rec(u, f, j) \in ledger' <=>
          Rec(u, f, j) \in ledger \/ (u = t /\ f = "COMPENSATION_VERIFIED" /\ j = i)
    BY <1>10, Appended DEF CompensationVerified
  <2>2. /\ pc[t] = "unwitness" /\ pc'[t] = "compensate"
        /\ i \in undo[t] /\ \A j \in undo[t] : j <= i
    BY <1>10 DEF CompensationVerified, Latest, PlaceOf
  <2>3. undo[t] = InPlace(t)
    BY <2>2 DEF TxInv, UndoInv
  <2>4. InPlace(t)' = InPlace(t) \ {i}
    BY <2>1 DEF InPlace, EffectfulDispatched, Dispatched, Effectful, Logged
  <2>5. SagaPhase(t) = "backward" /\ SagaPhase(t)' = "backward"
    BY <2>2 DEF SagaPhase, Undoing
  <2>6. SPhase' = SPhase /\ SApplied' = [SApplied EXCEPT ![t] = @ \ {i}]
    BY <2>4, <2>5, OneSaga DEF SPhase, SApplied
  <2>7. S!UndoLast(t, i)
    BY <2>2, <2>3, <2>5, <2>6 DEF S!UndoLast, SPhase, SApplied
  <2>8. i \in Effectful
    BY <2>2, <2>3 DEF InPlace, EffectfulDispatched
  <2> QED
    BY <2>7, <2>8 DEF S!SagaNext
<1>11. CASE CompensationUnverified(t)
  BY <1>11, ContainmentSaga DEF CompensationUnverified, TxInv, UndoInv, Undoing
<1>12. CASE FinishRollback(t)
  <2>1. pc[t] = "compensate" /\ pc'[t] = "done" /\ outcome'[t] \in {"ROLLED_BACK", "RAISED"}
    BY <1>12 DEF FinishRollback, PlaceOf
  <2>2. SagaPhase(t) = "backward" /\ SagaPhase(t)' \in {"rolled_back", "lost"}
    BY <2>1 DEF SagaPhase, EndPhase, Undoing
  <2>3. InPlace(t) = {} /\ InPlace(t)' = InPlace(t)
    BY <1>12, SilentStep DEF FinishRollback, TxInv, UndoInv
  <2>4. S!Move(t, "backward", "rolled_back") \/ S!Move(t, "backward", "lost")
    BY <2>2, <2>3, OneMove
  <2>5. S!RollBack(t) \/ S!Lose(t)
    BY <2>3, <2>4 DEF S!RollBack, S!Lose
  <2> QED
    BY <2>5 DEF S!SagaNext
<1> QED
  BY <1>2, <1>3, <1>4, <1>5, <1>6, <1>7, <1>8, <1>9, <1>10, <1>11, <1>12 DEF Backward

\* Initially nothing is in place and every saga goes forward.
LEMMA InitSaga == Init => S!SagaInit
<1> SUFFICES ASSUME Init PROVE S!SagaInit
  OBVIOUS
<1>1. \A t \in Tx : SagaPhase(t) = "forward" /\ InPlace(t) = {}
  BY DEF Init, SagaPhase, Undoing, InPlace, EffectfulDispatched, Dispatched
<1> QED
  BY <1>1 DEF S!SagaInit

\* Every step is a step of one saga, or leaves them all alone.
LEMMA NextSaga == TypeOK /\ CallInv /\ [Next]_vars => [S!SagaNext]_(S!sagaVars)
<1> SUFFICES ASSUME TypeOK, CallInv, [Next]_vars
             PROVE  S!SagaNext \/ UNCHANGED S!sagaVars
  OBVIOUS
<1> \A t \in Tx : TxInv(t)
  BY DEF CallInv, TxInv
<1>1. ASSUME UNCHANGED <<pc, outcome, ledger>>
      PROVE  UNCHANGED S!sagaVars
  <2>1. \A t \in Tx : SagaPhase(t)' = SagaPhase(t) /\ InPlace(t)' = InPlace(t)
    BY <1>1, SilentStep DEF SagaPhase
  <2> QED
    BY <2>1 DEF S!sagaVars
<1>2. CASE StartExecution
  BY <1>1, <1>2 DEF StartExecution
<1>3. ASSUME NEW d \in Disturbances, Disturb(d) PROVE UNCHANGED S!sagaVars
  BY <1>1, <1>3 DEF Disturb
<1>4. ASSUME NEW t \in Tx, Call(t) PROVE S!SagaNext \/ UNCHANGED S!sagaVars
  BY <1>4, ForwardSaga, BackwardSaga DEF Call
<1>5. ASSUME NEW t \in Tx, Interrupt(t) PROVE S!SagaNext
  <2>1. pc[t] # "done" /\ pc'[t] = "done" /\ outcome'[t] = "RAISED" /\ ledger' = ledger
    BY <1>5 DEF Interrupt, Raise, Active, TypeOK
  <2> QED
    BY <1>5, <2>1, RaiseLoses
<1>6. CASE UNCHANGED vars
  BY <1>1, <1>6 DEF vars
<1> QED
  BY <1>2, <1>3, <1>4, <1>5, <1>6 DEF Next

\* The manager implements the saga: plan-order dispatch, commit with everything
\* in place, last-in first-out compensation, and no way back to the forward path.
THEOREM RefinesSaga == Spec => ImplementsSaga
BY InitSaga, NextSaga, TypeCorrect, CallsCorrect, PTL DEF Spec, ImplementsSaga, S!SagaSpec
=============================================================================
