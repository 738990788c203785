---------------------- MODULE TransactionManagersProofs ----------------------
(***************************************************************************)
(* What the calls of several managers do to one session and one workspace. *)
(* A certificate acts in one workspace, always.  The rest needs managers   *)
(* to have workspaces of their own: then one call acts at a time, and the  *)
(* session's state says how far it has come.  With commands and verifiers  *)
(* that keep to their contracts it is also true what a manager believes.   *)
(***************************************************************************)
EXTENDS TransactionProofs

---------------------------------------------------------------------------
(* One workspace. *)

Place(t) == WorkspaceOf[ManagerOf[t]]

\* The certificate is bound to the workspace of every call that has begun.
BoundInv ==
  \A t \in Tx : pc[t] \in Active \/ Dispatched(t) # {} => boundTo = Place(t)

\* Only Bind and Refuse take up a call, only Bind binds, and a dispatch is recorded
\* from the head of the loop.
LEMMA StepKinds ==
  ASSUME TypeOK, NEW t \in Tx, Call(t) \/ Interrupt(t)
  PROVE  /\ pc[t] = "idle" \/ pc[t] \in Active
         /\ pc[t] = "idle" => Bind(t) \/ Refuse(t)
         /\ pc[t] # "idle" => boundTo' = boundTo
         /\ Dispatched(t)' = Dispatched(t) \/ pc[t] = "check"
<1> USE DEF Goto, Return, Raise, ContainmentFailed, envVars, Active
<1> DEFINE Claim == /\ pc[t] \in Active /\ boundTo' = boundTo
                    /\ \/ pc[t] = "check" \/ ledger' = ledger
                       \/ \E e, i : e # "ACTION_DISPATCHED" /\ ledger' = ledger \cup {Rec(t, e, i)}
<1>1. CASE Bind(t) \/ Refuse(t)
  BY <1>1 DEF Bind, Refuse, Callable, Dispatched
<1>2. ASSUME RejectCall(t) \/ Preflight(t) \/ VerifyAuthority(t) \/ Interrupt(t) PROVE Claim
  BY <1>2 DEF RejectCall, Preflight, VerifyAuthority, Interrupt
<1>3. ASSUME Dispatch(t) \/ AbortBeforeDispatch(t) PROVE Claim
  BY <1>3 DEF Dispatch, AbortBeforeDispatch
<1>4. ASSUME CommandSucceeds(t) \/ CommandFails(t) \/ WitnessFails(t) PROVE Claim
  BY <1>4 DEF CommandSucceeds, CommandFails, WitnessFails, Advance
<1>5. ASSUME NEW l \in Literal, WitnessEffect(t, l) PROVE Claim
  BY <1>5 DEF WitnessEffect, Advance
<1>6. ASSUME RecordExecutionResult(t) \/ CommitExecution(t) \/ CommitBlocked(t) PROVE Claim
  BY <1>6 DEF RecordExecutionResult, CommitExecution, CommitBlocked
<1>7. ASSUME RecoveryRaises(t) \/ FailUntouched(t) \/ BeginCompensation(t) \/ CheckDrift(t)
      PROVE  Claim
  BY <1>7 DEF RecoveryRaises, FailUntouched, BeginCompensation, CheckDrift
<1>8. ASSUME NEW i \in Step, TriggerCompensation(t, i) \/ CompensationImpossible(t, i) PROVE Claim
  BY <1>8 DEF TriggerCompensation, CompensationImpossible
<1>9. ASSUME NEW i \in Step, CompensationSucceeds(t, i) \/ CompensationFails(t, i) PROVE Claim
  BY <1>9 DEF CompensationSucceeds, CompensationFails
<1>10. ASSUME NEW i \in Step, CompensationVerified(t, i) PROVE Claim
  BY <1>10 DEF CompensationVerified
<1>11. ASSUME CompensationUnverified(t) \/ FinishRollback(t) PROVE Claim
  BY <1>11 DEF CompensationUnverified, FinishRollback
<1>12. ASSUME Claim
       PROVE  /\ pc[t] \in Active /\ boundTo' = boundTo
              /\ Dispatched(t)' = Dispatched(t) \/ pc[t] = "check"
  <2>1. CASE pc[t] = "check" \/ ledger' = ledger
    BY <1>12, <2>1 DEF Dispatched
  <2>2. ASSUME NEW e, NEW i, e # "ACTION_DISPATCHED", ledger' = ledger \cup {Rec(t, e, i)}
        PROVE  Dispatched(t)' = Dispatched(t)
    BY <2>2, Appended DEF Dispatched
  <2>3. QED
    BY <1>12, <2>1, <2>2
<1>13. Claim \/ Bind(t) \/ Refuse(t)
  BY <1>2, <1>3, <1>4, <1>5, <1>6, <1>7, <1>8, <1>9, <1>10, <1>11 DEF Call, Forward, Backward
<1>14. QED
  BY <1>1, <1>12, <1>13

\* A call's binding outlives it, and keeps every other workspace out.
LEMMA BoundStep == TypeOK /\ BoundInv /\ [Next]_vars => BoundInv'
<1> SUFFICES ASSUME TypeOK, BoundInv, [Next]_vars,
                    NEW u \in Tx, pc'[u] \in Active \/ Dispatched(u)' # {}
             PROVE  boundTo' = Place(u)
  BY DEF BoundInv, Place
<1>1. ASSUME NEW t \in Tx, Call(t) \/ Interrupt(t) PROVE boundTo' = Place(u)
  <2>1. CASE Bind(t)
    <3>1. boundTo' = Place(t) /\ boundTo \in {None, Place(t)} /\ UNCHANGED ledger
      BY <2>1 DEF Bind, Admissible, Place
    <3>2. CASE u # t
      <4>1. Keeps(t)
        BY <1>1, Locality
      <4>2. boundTo = Place(u)
        BY <3>1, <3>2, <4>1 DEF Keeps, BoundInv, Dispatched
      <4>3. Place(u) # None
        BY TransactionAssumption DEF TransactionAssumption, Place
      <4>4. QED
        BY <3>1, <4>2, <4>3
    <3>3. QED
      BY <3>1, <3>2
  <2>2. CASE Refuse(t)
    <3>1. pc' = [pc EXCEPT ![t] = "done"] /\ UNCHANGED <<ledger, boundTo>>
      BY <2>2 DEF Refuse, envVars
    <3>2. QED
      BY <3>1 DEF BoundInv, Dispatched, TypeOK, Active
  <2>3. CASE pc[t] # "idle"
    <3>1. boundTo' = boundTo /\ pc[t] \in Active
      BY <1>1, <2>3, StepKinds
    <3>2. CASE u = t
      BY <3>1, <3>2 DEF BoundInv
    <3>3. CASE u # t
      BY <1>1, <3>1, <3>3, Locality DEF Keeps, BoundInv, Dispatched
    <3>4. QED
      BY <3>2, <3>3
  <2>4. QED
    BY <1>1, <2>1, <2>2, <2>3, StepKinds
<1>2. CASE StartExecution \/ UNCHANGED vars \/ \E d \in Disturbances : Disturb(d)
  BY <1>2 DEF StartExecution, Disturb, vars, envVars, BoundInv, Dispatched
<1>3. QED
  BY <1>1, <1>2 DEF Next

LEMMA BoundInit == Init => BoundInv
BY DEF Init, BoundInv, Dispatched, Active

LEMMA BoundAlways == Spec => []BoundInv
<1>1. TypeOK /\ BoundInv /\ [Next]_vars => BoundInv'
  BY BoundStep
<1>2. QED
  BY BoundInit, <1>1, TypeCorrect, PTL DEF Spec

\* Whatever drifts and whoever is interrupted, managers with different workspaces
\* never both act on the certificate (CERTIFICATE_WORKSPACES).
THEOREM OneWorkspaceActs == Spec => []WorkspaceExclusive
<1>1. BoundInv => WorkspaceExclusive
  BY DEF BoundInv, WorkspaceExclusive, Place
<1>2. QED
  BY <1>1, BoundAlways, PTL

---------------------------------------------------------------------------
(* One call at a time. *)

\* No two managers work in the same directory.
ManagersApart == \A m, n \in Manager : WorkspaceOf[m] = WorkspaceOf[n] => m = n

OneActive == \A t, u \in Tx : pc[t] \in Active /\ pc[u] \in Active => t = u

Triggered(t) == \E i \in Step : Logged(t, "COMPENSATION_TRIGGERED", i)

\* Where a call is, and what it has left, determines the state of the session.
SessionInv(t) ==
  /\ pc[t] \in {"check", "running", "witness", "commit"} => state = "EXECUTING"
  /\ pc[t] \in {"record", "recover"} /\ Dispatched(t) # {} => state = "EXECUTING"
  /\ pc[t] \in Undoing => state = "COMPENSATING"
  /\ Triggered(t) => state \in {"COMPENSATING", "ROLLED_BACK", "CONTAINMENT_FAILED"}
  /\ Logged(t, "PLAN_COMMITTED", 0) => state = "COMMITTED"
  /\ outcome[t] \in {"COMMITTED", "ROLLED_BACK", "CONTAINMENT_FAILED"} => state = outcome[t]

ApartInv == BoundInv /\ OneActive /\ \A t \in Tx : SessionInv(t)

\* Two calls under way would be bound to one workspace, so be calls of one manager.
LEMMA OneActiveStep ==
  ASSUME ManagersApart, TypeOK, BoundInv, OneActive, [Next]_vars
  PROVE  OneActive'
<1> SUFFICES ASSUME NEW u \in Tx, NEW v \in Tx, pc'[u] \in Active, pc'[v] \in Active
             PROVE  u = v
  BY DEF OneActive
<1>1. ASSUME NEW t \in Tx, Call(t) \/ Interrupt(t) PROVE u = v
  <2>1. \A w \in Tx \ {t} : pc'[w] = pc[w]
    BY <1>1, Locality DEF Keeps
  <2>2. CASE Bind(t)
    <3>1. ASSUME NEW w \in Tx \ {t}, pc[w] \in Active PROVE FALSE
      <4>1. boundTo = Place(w) /\ Place(w) # None /\ boundTo \in {None, Place(t)}
        BY <2>2, <3>1, TransactionAssumption
        DEF TransactionAssumption, BoundInv, Bind, Admissible, Place
      <4>2. ManagerOf[w] = ManagerOf[t]
        BY <4>1, TransactionAssumption DEF TransactionAssumption, ManagersApart, Place
      <4>3. QED
        BY <2>2, <3>1, <4>2 DEF Bind, Callable
    <3>2. QED
      BY <2>1, <3>1
  <2>3. CASE Refuse(t)
    BY <2>1, <2>3 DEF Refuse, OneActive, TypeOK, Active
  <2>4. CASE pc[t] \in Active
    BY <2>1, <2>4 DEF OneActive
  <2>5. QED
    BY <1>1, <2>2, <2>3, <2>4, StepKinds
<1>2. CASE StartExecution \/ UNCHANGED vars \/ \E d \in Disturbances : Disturb(d)
  BY <1>2 DEF StartExecution, Disturb, vars, OneActive
<1>3. QED
  BY <1>1, <1>2 DEF Next

\* Before its first dispatch a call has dispatched nothing; past the loop, all.
LEMMA Dispatches ==
  ASSUME NEW t \in Tx, TxInv(t), PlaceOf(t)
  PROVE  /\ pc[t] \in {"idle", "preflight", "authority"} => Dispatched(t) = {}
         /\ pc[t] \in {"running", "witness", "commit"} => Dispatched(t) # {}
         /\ Completed(t) => Dispatched(t) # {}
<1> USE DEF TxInv, ProgressInv, PlaceOf, Dispatched, Logged, Step
<1>1. ASSUME pc[t] \in {"idle", "preflight", "authority"}, NEW i \in Step,
             Rec(t, "ACTION_DISPATCHED", i) \in ledger
      PROVE  FALSE
  BY <1>1
<1>2. Completed(t) => Dispatched(t) # {}
  BY DEF Completed
<1>3. pc[t] \in {"running", "witness"} => Dispatched(t) # {}
  OBVIOUS
<1>4. QED
  BY <1>1, <1>2, <1>3 DEF Completed

\* A step that appends nothing leaves what the call has logged.
LEMMA SameLog ==
  ASSUME NEW t \in Tx, ledger' = ledger
  PROVE  /\ Dispatched(t)' = Dispatched(t) /\ Triggered(t)' = Triggered(t)
         /\ Logged(t, "PLAN_COMMITTED", 0)' = Logged(t, "PLAN_COMMITTED", 0)
BY DEF Dispatched, Triggered, Logged

\* A record of one kind leaves the others.
LEMMA OneMoreLog ==
  ASSUME NEW t \in Tx, NEW e, NEW i, ledger' = ledger \cup {Rec(t, e, i)}
  PROVE  /\ e # "ACTION_DISPATCHED" => Dispatched(t)' = Dispatched(t)
         /\ e # "COMPENSATION_TRIGGERED" => Triggered(t)' = Triggered(t)
         /\ e # "PLAN_COMMITTED" =>
              Logged(t, "PLAN_COMMITTED", 0)' = Logged(t, "PLAN_COMMITTED", 0)
BY Appended DEF Dispatched, Triggered, Logged

\* The call that moves keeps its own account of the session.
LEMMA SessionForward ==
  ASSUME TypeOK, NEW t \in Tx, TxInv(t), SessionInv(t), Forward(t)
  PROVE  SessionInv(t)'
<1> PlaceOf(t)
  BY PlaceOfTypes
<1> USE DEF SessionInv, Goto, Return, Raise, sessionVars, PlaceOf, Undoing
<1>1. CASE Bind(t) \/ Refuse(t)
  <2>1. pc[t] = "idle" /\ outcome[t] = None /\ Dispatched(t) = {}
    BY <1>1, Dispatches DEF Bind, Refuse, Callable, TxInv, OutcomeInv
  <2>2. QED
    BY <1>1, <2>1, SameLog DEF Bind, Refuse
<1>2. CASE RejectCall(t) \/ Preflight(t) \/ VerifyAuthority(t)
  <2>1. Dispatched(t) = {}
    BY <1>2, Dispatches DEF RejectCall, Preflight, VerifyAuthority
  <2>2. QED
    BY <1>2, <2>1, SameLog DEF RejectCall, Preflight, VerifyAuthority
<1>3. CASE Dispatch(t)
  BY <1>3, OneMoreLog DEF Dispatch
<1>4. CASE AbortBeforeDispatch(t)
  BY <1>4, SameLog DEF AbortBeforeDispatch
<1>5. CASE CommandSucceeds(t)
  BY <1>5, SameLog DEF CommandSucceeds, Advance
<1>6. CASE CommandFails(t) \/ WitnessFails(t)
  BY <1>6, SameLog DEF CommandFails, WitnessFails
<1>7. ASSUME NEW l \in Literal, WitnessEffect(t, l) PROVE SessionInv(t)'
  <2>1. CASE ledger' = ledger
    BY <1>7, <2>1, SameLog DEF WitnessEffect, Advance
  <2>2. CASE ledger' = ledger \cup {Rec(t, "POSTCHECK_WITNESSED", step[t])}
    BY <1>7, <2>2, OneMoreLog DEF WitnessEffect, Advance
  <2>3. QED
    BY <1>7, <2>1, <2>2 DEF WitnessEffect
<1>8. CASE RecordExecutionResult(t) \/ CommitBlocked(t)
  BY <1>8, SameLog DEF RecordExecutionResult, CommitBlocked
<1>9. CASE CommitExecution(t)
  <2>1. outcome'[t] \in {"COMMITTED", "RAISED"} /\ state' = "COMMITTED" /\ pc'[t] = "done"
    BY <1>9 DEF CommitExecution
  <2>2. ~Triggered(t)'
    BY <1>9, OneMoreLog DEF CommitExecution, TxInv, UndoInv, BeforeCompensation, Triggered
  <2>3. QED
    BY <2>1, <2>2
<1>10. QED
  BY <1>1, <1>2, <1>3, <1>4, <1>5, <1>6, <1>7, <1>8, <1>9 DEF Forward

LEMMA SessionContained ==
  ASSUME TypeOK, NEW t \in Tx, TxInv(t), SessionInv(t), pc[t] \in Undoing, ContainmentFailed(t)
  PROVE  SessionInv(t)'
<1> PlaceOf(t)
  BY PlaceOfTypes
<1>1. /\ state' = "CONTAINMENT_FAILED" /\ pc'[t] = "done"
      /\ outcome'[t] \in {"CONTAINMENT_FAILED", "RAISED"}
  BY DEF SessionInv, ContainmentFailed, Return, PlaceOf
<1>2. ~Logged(t, "PLAN_COMMITTED", 0)'
  BY OneMoreLog DEF ContainmentFailed, TxInv, OutcomeInv, Undoing
<1>3. QED
  BY <1>1, <1>2 DEF SessionInv, Undoing

LEMMA SessionBackward ==
  ASSUME TypeOK, NEW t \in Tx, TxInv(t), SessionInv(t), Backward(t)
  PROVE  SessionInv(t)'
<1> PlaceOf(t)
  BY PlaceOfTypes
<1> USE DEF SessionInv, Goto, Return, Raise, sessionVars, PlaceOf, Undoing
<1>1. pc[t] # "done" => ~Logged(t, "PLAN_COMMITTED", 0) /\ outcome[t] = None
  BY DEF TxInv, OutcomeInv
<1>2. pc[t] \in {"record", "recover"} => ~Triggered(t)
  BY DEF TxInv, UndoInv, BeforeCompensation, Triggered
<1>3. CASE RecoveryRaises(t)
  BY <1>1, <1>2, <1>3, SameLog DEF RecoveryRaises
<1>4. CASE FailUntouched(t)
  BY <1>1, <1>2, <1>4, SameLog DEF FailUntouched
<1>5. CASE BeginCompensation(t)
  <2>1. Dispatched(t) # {}
    BY <1>5 DEF BeginCompensation, EffectfulDispatched
  <2>2. QED
    BY <1>1, <1>2, <1>5, <2>1, SameLog DEF BeginCompensation
<1>6. CASE CheckDrift(t)
  <2>1. CASE ContainmentFailed(t)
    BY <1>6, <2>1, SessionContained DEF CheckDrift
  <2>2. CASE ~ContainmentFailed(t)
    BY <1>1, <1>6, <2>2, SameLog DEF CheckDrift
  <2>3. QED
    BY <2>1, <2>2
<1>7. ASSUME NEW i \in Step, TriggerCompensation(t, i) PROVE SessionInv(t)'
  BY <1>1, <1>7, OneMoreLog DEF TriggerCompensation
<1>8. ASSUME NEW i \in Step, CompensationSucceeds(t, i) PROVE SessionInv(t)'
  BY <1>1, <1>8, SameLog DEF CompensationSucceeds
<1>9. ASSUME NEW i \in Step, CompensationVerified(t, i) PROVE SessionInv(t)'
  BY <1>1, <1>9, OneMoreLog DEF CompensationVerified
<1>10. ASSUME NEW i \in Step, CompensationImpossible(t, i) \/ CompensationFails(t, i)
       PROVE  SessionInv(t)'
  BY <1>10, SessionContained DEF CompensationImpossible, CompensationFails
<1>11. CASE CompensationUnverified(t)
  BY <1>11, SessionContained DEF CompensationUnverified
<1>12. CASE FinishRollback(t)
  <2>1. state = "COMPENSATING" /\ CanMove(state, "ROLLED_BACK")
    BY <1>12 DEF FinishRollback, CanMove, ValidTransitions
  <2>2. QED
    BY <1>1, <1>12, <2>1, SameLog DEF FinishRollback
<1>13. QED
  BY <1>3, <1>4, <1>5, <1>6, <1>7, <1>8, <1>9, <1>10, <1>11, <1>12 DEF Backward

LEMMA SessionInterrupt ==
  ASSUME TypeOK, NEW t \in Tx, TxInv(t), SessionInv(t), Interrupt(t)
  PROVE  SessionInv(t)'
<1>1. pc'[t] = "done" /\ outcome'[t] = "RAISED" /\ state' = state
  BY PlaceOfTypes DEF Interrupt, Raise, PlaceOf, sessionVars
<1>2. QED
  BY <1>1, SameLog DEF SessionInv, Interrupt, Undoing

LEMMA OnlyCompensatingRollsBack ==
  ASSUME NEW s \in SessionState, CanMove(s, "ROLLED_BACK")
  PROVE  s = "COMPENSATING"
<1> DEFINE No(x) == "ROLLED_BACK" \notin ValidTransitions[x]
<1>1. No("DRAFT") /\ No("IR_VALID") /\ No("FEASIBILITY") /\ No("SELECTED")
  BY DEF ValidTransitions
<1>2. No("AUTHORIZED") /\ No("EXECUTING") /\ No("COMMITTED") /\ No("DIAGNOSING")
  BY DEF ValidTransitions
<1>3. No("ROLLED_BACK") /\ No("CONTAINMENT_FAILED") /\ No("FAILED")
  BY DEF ValidTransitions
<1>4. QED
  BY <1>1, <1>2, <1>3 DEF SessionState, CanMove

\* How a step of a call may move the session.
LEMMA StateMoves ==
  ASSUME TypeOK, NEW t \in Tx, Call(t) \/ Interrupt(t)
  PROVE  \/ state' = state
         \/ state = "EXECUTING" /\ state' \in {"COMMITTED", "FAILED", "COMPENSATING"}
         \/ state = "COMPENSATING" /\ state' \in {"ROLLED_BACK", "CONTAINMENT_FAILED"}
<1> DEFINE Claim == \/ state' = state
                    \/ state = "EXECUTING" /\ state' \in {"COMMITTED", "FAILED", "COMPENSATING"}
                    \/ state = "COMPENSATING" /\ state' \in {"ROLLED_BACK", "CONTAINMENT_FAILED"}
<1> USE DEF sessionVars, ContainmentFailed
<1>1. CASE Bind(t) \/ Refuse(t) \/ RejectCall(t) \/ Preflight(t) \/ VerifyAuthority(t)
  BY <1>1 DEF Bind, Refuse, RejectCall, Preflight, VerifyAuthority
<1>2. CASE Dispatch(t) \/ AbortBeforeDispatch(t) \/ Interrupt(t)
  BY <1>2 DEF Dispatch, AbortBeforeDispatch, Interrupt
<1>3. CASE CommandSucceeds(t) \/ CommandFails(t) \/ WitnessFails(t)
  BY <1>3 DEF CommandSucceeds, CommandFails, WitnessFails
<1>4. ASSUME NEW l \in Literal, WitnessEffect(t, l) PROVE Claim
  BY <1>4 DEF WitnessEffect
<1>5. CASE RecordExecutionResult(t) \/ CommitExecution(t) \/ CommitBlocked(t)
  BY <1>5 DEF RecordExecutionResult, CommitExecution, CommitGate, CommitBlocked
<1>6. CASE RecoveryRaises(t) \/ FailUntouched(t) \/ BeginCompensation(t) \/ CheckDrift(t)
  BY <1>6 DEF RecoveryRaises, FailUntouched, BeginCompensation, CheckDrift
<1>7. ASSUME NEW i \in Step, TriggerCompensation(t, i) \/ CompensationImpossible(t, i) PROVE Claim
  BY <1>7 DEF TriggerCompensation, CompensationImpossible
<1>8. ASSUME NEW i \in Step, CompensationSucceeds(t, i) \/ CompensationFails(t, i) PROVE Claim
  BY <1>8 DEF CompensationSucceeds, CompensationFails
<1>9. ASSUME NEW i \in Step, CompensationVerified(t, i) PROVE Claim
  BY <1>9 DEF CompensationVerified
<1>10. CASE CompensationUnverified(t) \/ FinishRollback(t)
  BY <1>10, OnlyCompensatingRollsBack DEF CompensationUnverified, FinishRollback, TypeOK
<1>11. QED
  BY <1>1, <1>2, <1>3, <1>4, <1>5, <1>6, <1>7, <1>8, <1>9, <1>10 DEF Call, Forward, Backward

LEMMA ApartStep ==
  ASSUME ManagersApart, TypeOK, CallInv, ApartInv, [Next]_vars
  PROVE  ApartInv'
<1> USE DEF ApartInv
<1>1. BoundInv' /\ OneActive'
  BY BoundStep, OneActiveStep
<1>2. ASSUME NEW t \in Tx, Call(t) \/ Interrupt(t), NEW u \in Tx PROVE SessionInv(u)'
  <2>1. CASE u = t
    BY <1>2, <2>1, SessionForward, SessionBackward, SessionInterrupt DEF CallInv, TxInv, Call
  <2>2. CASE u # t
    <3>1. /\ pc'[u] = pc[u] /\ outcome'[u] = outcome[u]
          /\ Dispatched(u)' = Dispatched(u) /\ Triggered(u)' = Triggered(u)
          /\ Logged(u, "PLAN_COMMITTED", 0)' = Logged(u, "PLAN_COMMITTED", 0)
      BY <1>2, <2>2, Locality DEF Keeps, Dispatched, Triggered, Logged
    <3>2. CASE state' = state
      BY <3>1, <3>2 DEF SessionInv
    <3>3. CASE state' # state
      <4>1. pc[t] \in Active
        BY <1>2, <3>3, StepKinds DEF Bind, Refuse, sessionVars
      <4>2. pc[u] \notin Active
        BY <2>2, <4>1 DEF OneActive
      <4>3. QED
        BY <1>2, <3>1, <4>2, StateMoves DEF SessionInv, Active, Undoing
    <3>4. QED
      BY <3>2, <3>3
  <2>3. QED
    BY <2>1, <2>2
<1>3. ASSUME StartExecution, NEW u \in Tx PROVE SessionInv(u)'
  <2>1. state = "AUTHORIZED" /\ UNCHANGED <<pc, ledger, outcome>>
    BY <1>3 DEF StartExecution
  <2>2. QED
    BY <2>1, SameLog DEF SessionInv
<1>4. ASSUME NEW d \in Disturbances, Disturb(d), NEW u \in Tx PROVE SessionInv(u)'
  BY <1>4, SameLog DEF Disturb, sessionVars, SessionInv
<1>5. ASSUME UNCHANGED vars, NEW u \in Tx PROVE SessionInv(u)'
  BY <1>5, SameLog DEF vars, SessionInv
<1>6. QED
  BY <1>1, <1>2, <1>3, <1>4, <1>5 DEF Next

LEMMA ApartInit == Init => ApartInv
<1> SUFFICES ASSUME Init PROVE ApartInv
  OBVIOUS
<1>1. OneActive
  BY DEF Init, OneActive, Active
<1>2. ASSUME NEW t \in Tx PROVE SessionInv(t)
  BY TransactionAssumption
  DEF TransactionAssumption, Init, SessionInv, Undoing, Triggered, Logged, Dispatched, Outcome
<1>3. QED
  BY <1>1, <1>2, BoundInit DEF ApartInv

LEMMA ApartAlways == ASSUME ManagersApart PROVE Spec => []ApartInv
<1>1. TypeOK /\ CallInv /\ ApartInv /\ [Next]_vars => ApartInv'
  BY ApartStep
<1>2. QED
  BY ApartInit, <1>1, TypeCorrect, CallsCorrect, PTL DEF Spec

\* While managers keep to workspaces of their own, a committed plan stays in place
\* (the run commit_or_undo shows what happens when they share one).
THEOREM CommitsAreFinal == ManagersApart => (Spec => []CommitFinal)
<1>1. ApartInv => CommitFinal
  BY DEF ApartInv, SessionInv, CommitFinal, Triggered
<1>2. ManagersApart => (Spec => []ApartInv)
  BY ApartAlways
<1>3. QED
  BY <1>1, <1>2, PTL

---------------------------------------------------------------------------
(* Nothing follows a failure. *)

\* A session that compensates has a call that does it, and a call that failed
\* was the last.
FailedInv ==
  /\ state = "COMPENSATING" => \E t \in Tx : pc[t] \in Undoing
  /\ \A t \in Tx : pc[t] \in Active => mgr[ManagerOf[t]] # "closed"
  /\ \A t \in Tx : outcome[t] = "FAILED" =>
       /\ \A u \in Tx : pc[u] \notin Active
       /\ mgr[ManagerOf[t]] = "closed" /\ boundTo = Place(t)

\* How a call ends: with the fate of its manager, and with the session settled.
LEMMA CallEnds ==
  ASSUME TypeOK, NEW t \in Tx, Call(t)
  PROVE  /\ mgr' = mgr \/ (pc'[t] = "done" /\ pc[t] \in Active)
         /\ outcome'[t] = "FAILED" => FailUntouched(t) \/ outcome[t] = "FAILED"
         /\ state' = "COMPENSATING" /\ (state # "COMPENSATING" \/ pc[t] \in Undoing)
              => pc'[t] \in Undoing
<1> DEFINE Claim == /\ mgr' = mgr \/ (pc'[t] = "done" /\ pc[t] \in Active)
                    /\ outcome'[t] = "FAILED" => FailUntouched(t) \/ outcome[t] = "FAILED"
                    /\ state' = "COMPENSATING" /\ (state # "COMPENSATING" \/ pc[t] \in Undoing)
                         => pc'[t] \in Undoing
<1> PlaceOf(t)
  BY PlaceOfTypes
<1> USE DEF sessionVars, ContainmentFailed, Goto, Return, Raise, PlaceOf, Active, Undoing
<1>1. CASE Bind(t) \/ Refuse(t) \/ RejectCall(t) \/ Preflight(t) \/ VerifyAuthority(t)
  BY <1>1 DEF Bind, Refuse, RejectCall, Preflight, VerifyAuthority, Callable
<1>2. CASE Dispatch(t) \/ AbortBeforeDispatch(t)
  BY <1>2 DEF Dispatch, AbortBeforeDispatch
<1>3. CASE CommandSucceeds(t) \/ CommandFails(t) \/ WitnessFails(t)
  BY <1>3 DEF CommandSucceeds, CommandFails, WitnessFails, Advance
<1>4. ASSUME NEW l \in Literal, WitnessEffect(t, l) PROVE Claim
  BY <1>4 DEF WitnessEffect, Advance
<1>5. CASE RecordExecutionResult(t) \/ CommitExecution(t) \/ CommitBlocked(t)
  BY <1>5 DEF RecordExecutionResult, CommitExecution, CommitBlocked
<1>6. CASE RecoveryRaises(t) \/ FailUntouched(t) \/ BeginCompensation(t)
  BY <1>6 DEF RecoveryRaises, FailUntouched, BeginCompensation
<1>7. CASE CheckDrift(t) \/ CompensationUnverified(t)
  BY <1>7 DEF CheckDrift, CompensationUnverified
<1>8. ASSUME NEW i \in Step, TriggerCompensation(t, i) \/ CompensationImpossible(t, i) PROVE Claim
  BY <1>8 DEF TriggerCompensation, CompensationImpossible
<1>9. ASSUME NEW i \in Step, CompensationSucceeds(t, i) \/ CompensationFails(t, i) PROVE Claim
  BY <1>9 DEF CompensationSucceeds, CompensationFails
<1>10. ASSUME NEW i \in Step, CompensationVerified(t, i) PROVE Claim
  BY <1>10 DEF CompensationVerified
<1>11. CASE FinishRollback(t)
  <2>1. state = "COMPENSATING" => CanMove(state, "ROLLED_BACK")
    BY DEF CanMove, ValidTransitions
  <2>2. QED
    BY <1>11, <2>1 DEF FinishRollback
<1>12. QED
  BY <1>1, <1>2, <1>3, <1>4, <1>5, <1>6, <1>7, <1>8, <1>9, <1>10, <1>11
  DEF Call, Forward, Backward

LEMMA FailedStep ==
  ASSUME ManagersApart, "interrupt" \notin Disturbances,
         TypeOK, CallInv, ApartInv, ApartInv', FailedInv, [Next]_vars
  PROVE  FailedInv'
<1> USE DEF ApartInv
<1>1. ASSUME NEW t \in Tx, Call(t) PROVE FailedInv'
  <2>1. Keeps(t) /\ PlaceOf(t)
    BY <1>1, Locality, PlaceOfTypes
  <2>2. ASSUME state' = "COMPENSATING" PROVE \E u \in Tx : pc'[u] \in Undoing
    <3>1. CASE state # "COMPENSATING" \/ pc[t] \in Undoing
      BY <1>1, <2>2, <3>1, CallEnds
    <3>2. CASE state = "COMPENSATING" /\ pc[t] \notin Undoing
      BY <2>1, <3>2 DEF FailedInv, Keeps
    <3>3. QED
      BY <3>1, <3>2
  <2>3. ASSUME NEW u \in Tx, pc'[u] \in Active PROVE mgr'[ManagerOf[u]] # "closed"
    <3>1. CASE Bind(t)
      <4>1. u = t
        BY <2>1, <2>3, <3>1 DEF Bind, Goto, PlaceOf, Active, OneActive
      <4>2. QED
        BY <3>1, <4>1 DEF Bind, Goto, Admissible
    <3>2. CASE ~Bind(t)
      <4>1. CASE u = t
        <5>1. pc'[t] # "done" /\ pc[t] \in Active
          BY <1>1, <2>1, <2>3, <3>2, <4>1, StepKinds DEF Refuse, PlaceOf, Active
        <5>2. QED
          BY <1>1, <4>1, <5>1, CallEnds DEF FailedInv
      <4>2. CASE u # t
        BY <1>1, <2>1, <2>3, <4>2, CallEnds DEF FailedInv, Keeps, OneActive
      <4>3. QED
        BY <4>1, <4>2
    <3>3. QED
      BY <3>1, <3>2
  <2>4. ASSUME NEW u \in Tx, outcome'[u] = "FAILED"
        PROVE  /\ \A v \in Tx : pc'[v] \notin Active
               /\ mgr'[ManagerOf[u]] = "closed" /\ boundTo' = Place(u)
    <3>1. CASE outcome[u] = "FAILED"
      <4>1. pc[t] \notin Active /\ mgr[ManagerOf[u]] = "closed" /\ boundTo = Place(u)
        BY <3>1 DEF FailedInv
      <4>2. ~Bind(t)
        BY <4>1, TransactionAssumption
        DEF TransactionAssumption, ManagersApart, Bind, Admissible, Place
      <4>3. pc'[t] = "done" /\ UNCHANGED <<mgr, boundTo>>
        BY <1>1, <2>1, <4>1, <4>2, StepKinds DEF Refuse, PlaceOf, envVars
      <4>4. ASSUME NEW v \in Tx PROVE pc'[v] \notin Active
        BY <2>1, <3>1, <4>3 DEF FailedInv, Keeps, Active
      <4>5. QED
        BY <4>1, <4>3, <4>4
    <3>2. CASE outcome[u] # "FAILED"
      <4>1. u = t /\ FailUntouched(t)
        BY <1>1, <2>1, <2>4, <3>2, CallEnds DEF Keeps
      <4>2. pc[t] = "recover" /\ pc'[t] = "done" /\ mgr'[ManagerOf[t]] = "closed"
            /\ boundTo' = boundTo
        BY <2>1, <4>1 DEF FailUntouched, Return, Kept, PlaceOf, TypeOK, envVars
      <4>3. ASSUME NEW v \in Tx PROVE pc'[v] \notin Active
        BY <2>1, <4>2 DEF OneActive, Keeps, Active
      <4>4. QED
        BY <4>1, <4>2, <4>3 DEF BoundInv, Active
    <3>3. QED
      BY <3>1, <3>2
  <2>5. QED
    BY <2>2, <2>3, <2>4 DEF FailedInv, Place
<1>2. CASE StartExecution
  BY <1>2 DEF StartExecution, envVars, FailedInv, Place
<1>3. ASSUME NEW d \in Disturbances, Disturb(d) PROVE FailedInv'
  BY <1>3 DEF Disturb, sessionVars, FailedInv, Place
<1>4. CASE UNCHANGED vars
  BY <1>4 DEF vars, FailedInv, Place
<1>5. QED
  BY <1>1, <1>2, <1>3, <1>4 DEF Next, Interrupt

LEMMA FailedInit == Init => FailedInv
BY TransactionAssumption DEF TransactionAssumption, Init, FailedInv, Active, Outcome

\* While managers keep to workspaces of their own and no call is interrupted, a
\* summary stays true of the session: no later call starts where one has failed, and
\* none leaves the session half-way.
THEOREM SummariesSettle ==
  ManagersApart /\ "interrupt" \notin Disturbances => (Spec => []SummarySettles)
<1> SUFFICES ASSUME ManagersApart, "interrupt" \notin Disturbances
             PROVE  Spec => []SummarySettles
  OBVIOUS
<1>1. TypeOK /\ CallInv /\ ApartInv /\ FailedInv /\ [Next]_vars => ApartInv' /\ FailedInv'
  BY ApartStep, FailedStep
<1>2. ApartInv /\ FailedInv => SummarySettles
  BY DEF ApartInv, SessionInv, FailedInv, SummarySettles, Undoing, Active
<1>3. QED
  BY ApartInit, FailedInit, <1>1, <1>2, TypeCorrect, CallsCorrect, PTL DEF Spec

---------------------------------------------------------------------------
(* Beliefs. *)

\* Commands do what they declare, and no verifier of an effect's fact passes for
\* the opposite of the effect.
Declared ==
  \A i \in Step :
    /\ Cap[i].side = {}
    /\ \A l \in Cap[i].eff, v \in Cap[i].ver : v[1] = l[1] => v = l

\* No call follows one that was interrupted.
NoneFollows == "interrupt" \notin Disturbances \/ \A t, u \in Tx : t = u

Right(m, f) == live[m][f] \in {"MISSING", TruthOf(world[f])}
AllRight == \A m \in Manager, f \in Fact : Right(m, f)

Forwards == "registry" \notin drift /\ state \in {"AUTHORIZED", "EXECUTING"}

\* Until a call dispatches, all beliefs are those of the snapshot; afterwards its
\* manager is right about all but the effects that are still to be witnessed.
BeliefOf(t) ==
  /\ pc[t] \in Active /\ Dispatched(t) = {} => AllRight
  /\ Settled(t) \/ pc[t] = "running" => \A f \in Fact : Right(ManagerOf[t], f)
  /\ pc[t] = "witness" =>
       /\ pend[t] \subseteq Cap[step[t]].eff
       /\ \A f \in Fact : Right(ManagerOf[t], f) \/ \E l \in pend[t] : l[1] = f

\* A call that can still come, when nothing was dispatched, finds the snapshot.
Untouched ==
  /\ \E t \in Tx : pc[t] # "done"
  /\ "ledger" \notin drift
  /\ \A t \in Tx : pc[t] \in Active => Dispatched(t) = {}

BeliefInv ==
  /\ Forwards => (Untouched => AllRight) /\ \A t \in Tx : BeliefOf(t)
  /\ CommittedCriteria

LEMMA SameBeliefs ==
  ASSUME UNCHANGED <<world, live>>
  PROVE  /\ \A m, f : Right(m, f)' <=> Right(m, f)
         /\ AllRight' <=> AllRight
BY DEF Right, AllRight

\* Only a command changes the world.
LEMMA WorldMoves ==
  ASSUME TypeOK, NEW t \in Tx, Call(t) \/ Interrupt(t)
  PROVE  world' = world \/ pc[t] \in {"running", "undoing"}
<1>1. CASE Interrupt(t)
  <2>1. world' \in Reached(InFlight(t)) /\ world \in [Fact -> BOOLEAN]
    BY <1>1 DEF Interrupt, TypeOK
  <2>2. InFlight(t) = {} => world' = world
    BY <2>1 DEF Reached
  <2>3. QED
    BY <2>2 DEF InFlight
<1>2. CASE Forward(t)
  BY <1>2
  DEF Forward, Bind, Refuse, RejectCall, Preflight, VerifyAuthority, Dispatch, AbortBeforeDispatch,
      CommandSucceeds, CommandFails, WitnessEffect, WitnessFails, RecordExecutionResult,
      CommitExecution, CommitBlocked
<1>3. CASE Backward(t)
  BY <1>3
  DEF Backward, RecoveryRaises, FailUntouched, BeginCompensation, CheckDrift, TriggerCompensation,
      CompensationImpossible, CompensationSucceeds, CompensationFails, CompensationVerified,
      CompensationUnverified, FinishRollback
<1>4. QED
  BY <1>1, <1>2, <1>3 DEF Call

\* No call heals the environment.
LEMMA StepDrift ==
  ASSUME NEW t \in Tx, Call(t) \/ Interrupt(t)
  PROVE  drift' = drift
<1> USE DEF envVars
<1>1. CASE Interrupt(t)
  BY <1>1 DEF Interrupt
<1>2. CASE Forward(t)
  BY <1>2
  DEF Forward, Bind, Refuse, RejectCall, Preflight, VerifyAuthority, Dispatch, AbortBeforeDispatch,
      CommandSucceeds, CommandFails, WitnessEffect, WitnessFails, RecordExecutionResult,
      CommitExecution, CommitBlocked
<1>3. CASE Backward(t)
  BY <1>3
  DEF Backward, RecoveryRaises, FailUntouched, BeginCompensation, CheckDrift, TriggerCompensation,
      CompensationImpossible, CompensationSucceeds, CompensationFails, CompensationVerified,
      CompensationUnverified, FinishRollback
<1>4. QED
  BY <1>1, <1>2, <1>3 DEF Call

\* Only CommitExecution commits.
LEMMA CommitMoves ==
  ASSUME NEW t \in Tx, Call(t) \/ Interrupt(t), state # "COMMITTED", state' = "COMMITTED"
  PROVE  CommitExecution(t)
<1> USE DEF sessionVars, ContainmentFailed
<1>1. CASE Interrupt(t)
  BY <1>1 DEF Interrupt
<1>2. CASE Forward(t)
  BY <1>2
  DEF Forward, Bind, Refuse, RejectCall, Preflight, VerifyAuthority, Dispatch, AbortBeforeDispatch,
      CommandSucceeds, CommandFails, WitnessEffect, WitnessFails, RecordExecutionResult,
      CommitBlocked
<1>3. CASE Backward(t)
  BY <1>3
  DEF Backward, RecoveryRaises, FailUntouched, BeginCompensation, CheckDrift, TriggerCompensation,
      CompensationImpossible, CompensationSucceeds, CompensationFails, CompensationVerified,
      CompensationUnverified, FinishRollback
<1>4. QED
  BY <1>1, <1>2, <1>3 DEF Call

\* A command that keeps to its contract touches the declared effects only.
LEMMA CommandBelief ==
  ASSUME Declared, TypeOK, NEW t \in Tx, TxInv(t), BeliefOf(t), "registry" \notin drift,
         CommandSucceeds(t)
  PROVE  BeliefOf(t)'
<1> DEFINE i == step[t]
           m == ManagerOf[t]
<1>1. PlaceOf(t) /\ i \in Step /\ Dispatched(t) # {} /\ ledger' = ledger /\ live' = live
  BY PlaceOfTypes, Dispatches DEF CommandSucceeds, TxInv, ProgressInv
<1>2. \A f \in Fact : Right(m, f)
  BY DEF BeliefOf, CommandSucceeds
<1>3. /\ world \in [Fact -> BOOLEAN] /\ world' \in [Fact -> BOOLEAN]
      /\ \A f \in Fact : world'[f] = world[f] \/ <<f, world'[f]>> \in Cap[i].eff
  BY <1>1 DEF CommandSucceeds, Reached, CommandReach, Declared, TypeOK
<1>4. \A f \in Fact : world'[f] = world[f] => Right(m, f)'
  BY <1>1, <1>2 DEF Right
<1>5. CASE Cap[i].eff = {}
  <2>1. \A f \in Fact : Right(m, f)'
    BY <1>3, <1>4, <1>5
  <2>2. pc'[t] \in {"check", "record"} /\ Dispatched(t)' # {}
    BY <1>1, <1>5, SameLog DEF CommandSucceeds, Advance, Goto, PlaceOf
  <2>3. QED
    BY <2>1, <2>2 DEF BeliefOf
<1>6. CASE Cap[i].eff # {}
  <2>1. /\ pc'[t] = "witness" /\ step' = step /\ pend'[t] = Cap[i].eff
        /\ Dispatched(t)' # {}
    BY <1>1, <1>6, SameLog DEF CommandSucceeds, Goto, PlaceOf, TypeOK
  <2>2. ASSUME NEW f \in Fact, ~Right(m, f)' PROVE \E l \in pend'[t] : l[1] = f
    <3>1. <<f, world'[f]>> \in pend'[t]
      BY <1>3, <1>4, <2>1, <2>2
    <3>2. QED
      BY <3>1
  <2>3. QED
    BY <2>1, <2>2 DEF BeliefOf, Settled
<1>7. QED
  BY <1>5, <1>6

\* A verifier of the effect's polarity witnesses what is true.
LEMMA WitnessBelief ==
  ASSUME Declared, TypeOK, NEW t \in Tx, TxInv(t), BeliefOf(t), "registry" \notin drift,
         NEW l \in Literal, WitnessEffect(t, l)
  PROVE  BeliefOf(t)'
<1> DEFINE i == step[t]
           m == ManagerOf[t]
<1>1. PlaceOf(t) /\ i \in Step /\ Dispatched(t) # {} /\ pc[t] = "witness" /\ world' = world
  BY PlaceOfTypes, Dispatches DEF WitnessEffect, TxInv, ProgressInv
<1>2. l \in pend[t] /\ pend[t] \subseteq Cap[i].eff
  BY <1>1 DEF BeliefOf, WitnessEffect
<1>3. world[l[1]] = l[2]
  <2>1. PICK v \in Cap[i].ver : v[1] = l[1] /\ world[l[1]] = v[2]
    BY DEF WitnessEffect, SomeVerifierPasses
  <2>2. QED
    BY <1>1, <1>2, <2>1 DEF Declared
<1>4. /\ m \in Manager /\ live'[m][l[1]] = TruthOf(l[2])
      /\ \A f \in Fact \ {l[1]} : live'[m][f] = live[m][f]
  BY <1>1 DEF WitnessEffect, TypeOK, PlaceOf, Literal
<1>5. pend'[t] = pend[t] \ {l}
  BY DEF WitnessEffect, TypeOK
<1>6. ASSUME NEW f \in Fact PROVE Right(m, f)' \/ \E k \in pend'[t] : k[1] = f
  <2>1. CASE f = l[1]
    BY <1>1, <1>3, <1>4, <2>1 DEF Right
  <2>2. CASE f # l[1]
    <3>1. Right(m, f)' <=> Right(m, f)
      BY <1>1, <1>4, <2>2 DEF Right
    <3>2. Right(m, f) \/ \E k \in pend[t] : k[1] = f
      BY <1>1 DEF BeliefOf
    <3>3. QED
      BY <1>5, <2>2, <3>1, <3>2
  <2>3. QED
    BY <2>1, <2>2
<1>7. Dispatched(t)' # {}
  <2>1. CASE ledger' = ledger
    BY <1>1, <2>1, SameLog
  <2>2. CASE ledger' = ledger \cup {Rec(t, "POSTCHECK_WITNESSED", step[t])}
    BY <1>1, <2>2, OneMoreLog
  <2>3. QED
    BY <2>1, <2>2 DEF WitnessEffect
<1>8. CASE pend[t] = {l}
  <2>1. pc'[t] \in {"check", "record"}
    BY <1>1, <1>8 DEF WitnessEffect, Advance, Goto, PlaceOf
  <2>2. QED
    BY <1>5, <1>6, <1>7, <1>8, <2>1 DEF BeliefOf
<1>9. CASE pend[t] # {l}
  <2>1. pc'[t] = "witness" /\ step' = step
    BY <1>1, <1>9 DEF WitnessEffect, Goto, PlaceOf
  <2>2. QED
    BY <1>2, <1>5, <1>6, <1>7, <2>1 DEF BeliefOf, Settled
<1>10. QED
  BY <1>8, <1>9

\* The step of a call, while the session still goes forward afterwards.
LEMMA BeliefCall ==
  ASSUME Declared, TypeOK, NEW t \in Tx, TxInv(t), SessionInv(t), BeliefOf(t), Forwards, Forwards',
         Call(t), Bind(t) => AllRight
  PROVE  /\ BeliefOf(t)'
         /\ pc[t] # "idle" /\ pc'[t] \notin Active => AllRight' \/ "ledger" \in drift'
<1> DEFINE Claim ==
             /\ BeliefOf(t)'
             /\ pc[t] # "idle" /\ pc'[t] \notin Active => AllRight' \/ "ledger" \in drift'
<1> PlaceOf(t)
  BY PlaceOfTypes
<1> USE DEF sessionVars, envVars, Goto, Return, Raise, PlaceOf, Active
<1>1. CASE Bind(t) \/ RejectCall(t) \/ Preflight(t) \/ VerifyAuthority(t)
  <2>1. AllRight
    <3>1. pc[t] \in {"preflight", "authority"} => Dispatched(t) = {}
      BY Dispatches
    <3>2. QED
      BY <1>1, <3>1 DEF BeliefOf, RejectCall, Preflight, VerifyAuthority
  <2>2. AllRight' /\ pc'[t] # "witness"
    BY <1>1, <2>1, SameBeliefs DEF Bind, RejectCall, Preflight, VerifyAuthority
  <2>3. \A f \in Fact : Right(ManagerOf[t], f)'
    BY <2>2 DEF AllRight
  <2>4. QED
    BY <2>2, <2>3 DEF BeliefOf
<1>2. CASE Refuse(t)
  BY <1>2 DEF Refuse, Callable, BeliefOf, Settled
<1>3. CASE Dispatch(t)
  <2>1. /\ pc'[t] = "running" /\ UNCHANGED <<world, live>>
        /\ \A f \in Fact : Right(ManagerOf[t], f)
    BY <1>3 DEF Dispatch, BeliefOf, Settled
  <2>2. step[t] \in Step /\ step[t] \in Dispatched(t)'
    BY <1>3 DEF Dispatch, Dispatched, TxInv, ProgressInv
  <2>3. QED
    BY <2>1, <2>2, SameBeliefs DEF BeliefOf, Settled
<1>4. CASE AbortBeforeDispatch(t) \/ RecordExecutionResult(t) \/ CommitBlocked(t)
  <2>1. UNCHANGED <<world, live, ledger, step>> /\ pc'[t] \in {"record", "commit", "recover"}
    BY <1>4 DEF AbortBeforeDispatch, RecordExecutionResult, CommitBlocked
  <2>2. Settled(t)' => Settled(t)
    BY <1>4, <2>1 DEF AbortBeforeDispatch, RecordExecutionResult, CommitBlocked, Settled, Completed
  <2>3. pc[t] \in Active
    BY <1>4 DEF AbortBeforeDispatch, RecordExecutionResult, CommitBlocked
  <2>4. QED
    BY <2>1, <2>2, <2>3, SameBeliefs, SameLog DEF BeliefOf
<1>5. CASE CommandSucceeds(t)
  <2>1. pc'[t] \in Active
    BY <1>5 DEF CommandSucceeds, Advance
  <2>2. QED
    BY <1>5, <2>1, CommandBelief DEF Forwards
<1>6. ASSUME NEW l \in Literal, WitnessEffect(t, l) PROVE Claim
  <2>1. pc'[t] \in Active
    BY <1>6 DEF WitnessEffect, Advance
  <2>2. QED
    BY <1>6, <2>1, WitnessBelief DEF Forwards
<1>7. CASE CommandFails(t) \/ WitnessFails(t)
  <2>1. pc[t] \in {"running", "witness"} /\ UNCHANGED <<ledger, step>> /\ pc'[t] = "record"
    BY <1>7 DEF CommandFails, WitnessFails
  <2>2. step[t] \in Step /\ Dispatched(t)' # {}
    BY <2>1, Dispatches, SameLog DEF TxInv, ProgressInv
  <2>3. ~Completed(t)'
    BY <2>1, <2>2 DEF Completed, Step
  <2>4. QED
    BY <2>1, <2>2, <2>3 DEF BeliefOf, Settled
<1>8. CASE CommitExecution(t)
  BY <1>8 DEF CommitExecution, Forwards
<1>9. CASE RecoveryRaises(t)
  BY <1>9 DEF RecoveryRaises, BeliefOf, Settled
<1>10. CASE FailUntouched(t)
  <2>1. Dispatched(t) = {} /\ pc'[t] = "done" /\ UNCHANGED <<world, live>> /\ pc[t] = "recover"
    BY <1>10 DEF FailUntouched, SessionInv, Forwards
  <2>2. AllRight'
    BY <2>1, SameBeliefs DEF BeliefOf
  <2>3. QED
    BY <2>1, <2>2 DEF BeliefOf, Settled
<1>11. CASE BeginCompensation(t)
  BY <1>11 DEF BeginCompensation, EffectfulDispatched, SessionInv, Forwards
<1>12. pc[t] \notin Undoing
  BY DEF SessionInv, Forwards
<1>13. QED
  BY <1>1, <1>2, <1>3, <1>4, <1>5, <1>6, <1>7, <1>8, <1>9, <1>10, <1>11, <1>12
  DEF Call, Forward, Backward, Undoing, CheckDrift, TriggerCompensation, CompensationImpossible,
      CompensationSucceeds, CompensationFails, CompensationVerified, CompensationUnverified,
      FinishRollback

\* The criteria are read when the manager is right, and no command runs after it.
LEMMA CriteriaCall ==
  ASSUME TypeOK, NEW t \in Tx, TxInv(t), SessionInv(t), BeliefInv, Call(t) \/ Interrupt(t)
  PROVE  CommittedCriteria'
<1> SUFFICES ASSUME state' = "COMMITTED", "registry" \notin drift', NEW c \in Criteria
             PROVE  world'[c[1]] = c[2]
  BY DEF CommittedCriteria
<1>1. drift' = drift
  BY StepDrift
<1>2. CASE state = "COMMITTED"
  <2>1. world' = world
    BY <1>2, WorldMoves DEF SessionInv, Undoing
  <2>2. QED
    BY <1>1, <1>2, <2>1 DEF BeliefInv, CommittedCriteria
<1>3. CASE state # "COMMITTED"
  <2>1. CommitExecution(t)
    BY <1>3, CommitMoves
  <2>2. Settled(t) /\ Forwards /\ live[ManagerOf[t]][c[1]] = TruthOf(c[2]) /\ world' = world
    BY <1>1, <2>1
    DEF CommitExecution, CommitGate, Settled, Completed, TxInv, ProgressInv, Forwards
  <2>3. c[1] \in Fact /\ c[2] \in BOOLEAN /\ world[c[1]] \in BOOLEAN
    BY TransactionAssumption DEF TransactionAssumption, Literal, TypeOK
  <2>4. Right(ManagerOf[t], c[1])
    BY <2>2, <2>3 DEF BeliefInv, BeliefOf
  <2>5. QED
    BY <2>2, <2>3, <2>4 DEF Right, TruthOf
<1>4. QED
  BY <1>2, <1>3

LEMMA BeliefStep ==
  ASSUME ManagersApart, Declared, NoneFollows,
         TypeOK, CallInv, ApartInv, ApartInv', BeliefInv, [Next]_vars
  PROVE  BeliefInv'
<1> USE DEF ApartInv
<1>1. ASSUME NEW t \in Tx, Call(t) \/ Interrupt(t) PROVE BeliefInv'
  <2>1. Keeps(t) /\ PlaceOf(t) /\ TxInv(t) /\ SessionInv(t) /\ drift' = drift
    BY <1>1, Locality, PlaceOfTypes, StepDrift DEF CallInv, TxInv
  <2>2. CommittedCriteria'
    BY <1>1, <2>1, CriteriaCall
  <2>3. Forwards' => Forwards
    BY <1>1, <2>1, StateMoves DEF Forwards
  <2>4. ASSUME Forwards', Bind(t) PROVE AllRight
    <3>1. pc[t] = "idle" /\ "ledger" \notin drift /\ pc'[t] \in Active
      BY <2>1, <2>4 DEF Bind, Callable, Admissible, Goto, PlaceOf, Active
    <3>2. \A u \in Tx : pc[u] \notin Active
      BY <2>1, <3>1 DEF OneActive, Keeps, Active
    <3>3. QED
      BY <2>3, <2>4, <3>1, <3>2 DEF BeliefInv, Untouched
  <2>5. ASSUME Forwards', Call(t)
        PROVE  /\ BeliefOf(t)'
               /\ pc[t] # "idle" /\ pc'[t] \notin Active => AllRight' \/ "ledger" \in drift'
    BY <2>1, <2>3, <2>4, <2>5, BeliefCall DEF BeliefInv
  <2>6. ASSUME Interrupt(t) PROVE pc'[t] = "done" /\ \A u \in Tx : u = t
    BY <2>1, <2>6 DEF Interrupt, Raise, PlaceOf, NoneFollows
  <2>7. ASSUME Forwards', NEW u \in Tx PROVE BeliefOf(u)'
    <3>1. CASE u = t
      BY <1>1, <2>5, <2>6, <2>7, <3>1 DEF BeliefOf, Settled, Active
    <3>2. CASE u # t /\ pc[t] = "idle"
      <4>1. /\ UNCHANGED <<world, live, ledger, step, pend>> /\ pc'[u] = pc[u]
        BY <1>1, <2>1, <3>2, StepKinds DEF Bind, Refuse, Keeps
      <4>2. QED
        BY <2>3, <2>7, <4>1, SameBeliefs, SameLog DEF BeliefInv, BeliefOf, Settled, Completed
    <3>3. CASE u # t /\ pc[t] # "idle"
      <4>1. pc'[u] \notin Active
        BY <1>1, <2>1, <3>3, StepKinds DEF OneActive, Keeps
      <4>2. QED
        BY <4>1 DEF BeliefOf, Settled, Active
    <3>4. QED
      BY <3>1, <3>2, <3>3
  <2>8. ASSUME Forwards', Untouched' PROVE AllRight'
    <3>1. CASE pc'[t] \in Active
      BY <2>7, <2>8, <3>1 DEF BeliefOf, Untouched
    <3>2. CASE pc'[t] \notin Active /\ pc[t] # "idle" /\ Call(t)
      BY <2>5, <2>8, <3>2 DEF Untouched
    <3>3. CASE pc'[t] \notin Active /\ pc[t] = "idle"
      <4>1. Refuse(t)
        BY <1>1, <2>1, <3>3, StepKinds DEF Bind, Goto, PlaceOf, Active
      <4>2. UNCHANGED <<world, live, ledger>>
        BY <4>1 DEF Refuse
      <4>3. Untouched
        BY <2>1, <2>8, <3>3, <4>2 DEF Untouched, Keeps, Dispatched, Active
      <4>4. QED
        BY <2>3, <2>8, <4>2, <4>3, SameBeliefs DEF BeliefInv
    <3>4. CASE Interrupt(t)
      BY <2>6, <2>8, <3>4 DEF Untouched
    <3>5. QED
      BY <1>1, <3>1, <3>2, <3>3, <3>4
  <2>9. QED
    BY <2>2, <2>7, <2>8 DEF BeliefInv
<1>2. CASE StartExecution
  <2>1. UNCHANGED <<world, live, ledger, pc, drift, step, pend>> /\ state = "AUTHORIZED"
        /\ state' = "EXECUTING"
    BY <1>2 DEF StartExecution, envVars
  <2>2. QED
    BY <2>1, SameBeliefs, SameLog
    DEF BeliefInv, BeliefOf, Untouched, Forwards, Settled, Completed, CommittedCriteria
<1>3. ASSUME NEW d \in Disturbances, Disturb(d) PROVE BeliefInv'
  <2>1. UNCHANGED <<world, live, ledger, pc, state, step, pend>> /\ drift \subseteq drift'
    BY <1>3 DEF Disturb, sessionVars
  <2>2. QED
    BY <2>1, SameBeliefs, SameLog
    DEF BeliefInv, BeliefOf, Untouched, Forwards, Settled, Completed, CommittedCriteria
<1>4. CASE UNCHANGED vars
  BY <1>4, SameBeliefs, SameLog
  DEF vars, BeliefInv, BeliefOf, Untouched, Forwards, Settled, Completed, CommittedCriteria
<1>5. QED
  BY <1>1, <1>2, <1>3, <1>4 DEF Next

LEMMA BeliefInit == Init => BeliefInv
<1> SUFFICES ASSUME Init PROVE BeliefInv
  OBVIOUS
<1>1. AllRight
  BY DEF Init, AllRight, Right
<1>2. QED
  BY <1>1 DEF Init, BeliefInv, BeliefOf, Settled, CommittedCriteria

LEMMA BeliefAlways ==
  ASSUME ManagersApart, Declared, NoneFollows
  PROVE  Spec => []BeliefInv
<1>1. TypeOK /\ CallInv /\ ApartInv /\ ApartInv' /\ BeliefInv /\ [Next]_vars => BeliefInv'
  BY BeliefStep
<1>2. QED
  BY BeliefInit, <1>1, TypeCorrect, CallsCorrect, ApartAlways, PTL DEF Spec

\* While commands and verifiers keep to their contracts, managers to workspaces of
\* their own, and nothing follows an interrupt, what a manager believes between actions
\* is true (execute_authorized_plan, witness_postconditions).
THEOREM BeliefsAreSound ==
  ManagersApart /\ Declared /\ NoneFollows => (Spec => []LiveSound)
<1> SUFFICES ASSUME ManagersApart, Declared, NoneFollows PROVE Spec => []LiveSound
  OBVIOUS
<1>1. BeliefInv => LiveSound
  BY DEF BeliefInv, BeliefOf, Forwards, LiveSound, Right
<1>2. QED
  BY <1>1, BeliefAlways, PTL

\* Under the same conditions a committed plan's criteria hold in the workspace
\* (commit_execution).
THEOREM CommitsMeetCriteria ==
  ManagersApart /\ Declared /\ NoneFollows => (Spec => []CommittedCriteria)
<1> SUFFICES ASSUME ManagersApart, Declared, NoneFollows PROVE Spec => []CommittedCriteria
  OBVIOUS
<1>1. BeliefInv => CommittedCriteria
  BY DEF BeliefInv
<1>2. QED
  BY <1>1, BeliefAlways, PTL

=============================================================================
