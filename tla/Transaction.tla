---------------------------- MODULE Transaction ----------------------------
(***************************************************************************)
(* TransactionalExecutionManager and ExecutionPlanManager: an authorized   *)
(* plan of N actions is dispatched in order into a workspace, every effect *)
(* is witnessed by an independent verifier, and the call ends in a commit  *)
(* or in compensation of what was dispatched, last action first.           *)
(*                                                                         *)
(* A transaction t \in Tx is one call of execute_and_finalize on manager   *)
(* ManagerOf[t].  All calls share one PlanningSession, its certificate and *)
(* its EvidenceLedger; calls on different managers interleave.             *)
(*                                                                         *)
(* Facts are Boolean.  `world' is the truth of each fact in the workspace  *)
(* the certificate is bound to; `live[m]' is what the manager believes     *)
(* (executor.live_world_state).  A literal <<f, b>> is a condition "fact f *)
(* has truth b" and also the effect that makes it so.                      *)
(***************************************************************************)
EXTENDS Integers, FiniteSets, SessionStates

CONSTANTS
  Tx,            \* calls of execute_and_finalize, each with a fresh transaction id
  Manager,       \* TransactionalExecutionManager objects
  Workspace,     \* workspace identities (path, device, inode)
  ManagerOf,     \* [Tx -> Manager]
  WorkspaceOf,   \* [Manager -> Workspace]
  Owned,         \* managers that created their own EphemeralWorkspace
  Fact,          \* fact keys
  N,             \* number of actions of the authorized plan
  Cap,           \* [1..N -> capability contract of the action]
  Comp,          \* [1..N -> registered compensation of the action]
  Criteria,      \* mandatory success criteria, a set of literals
  Snapshot,      \* [Fact -> Truth], the trusted snapshot the certificate signs
  Disturbances,  \* what the environment may do to a run
  None

Step == 1 .. N
\* MISSING: no such fact, or one whose truth is UNKNOWN or CONFLICT, which the
\* conditions of a plan do not ask for.
Truth == {"VERIFIED_TRUE", "VERIFIED_FALSE", "MISSING"}
Literal == Fact \X BOOLEAN

Contract ==
  [pre  : SUBSET Literal,    \* preconditions
   eff  : SUBSET Literal,    \* positive effects <<f, TRUE>>, negative <<f, FALSE>>
   side : SUBSET Literal,    \* what the command may do besides (undeclared)
   ver  : SUBSET Literal,    \* verifiers: <<f, b>> passes when f has truth b
   exec : BOOLEAN]           \* an executor command template is registered

Compensation ==
  [spec : BOOLEAN,           \* default_compensation is not None
   valid: BOOLEAN,           \* capability, parameter mapping, contract, executor
   pre  : SUBSET Literal,
   eff  : SUBSET Literal,
   ver  : SUBSET Literal]

Identity == {"registry", "policy", "isolation", "workspace"}

\* How a call ends: a TransactionOutcome, or an exception.
Outcome == {"COMMITTED", "ROLLED_BACK", "FAILED", "CONTAINMENT_FAILED", "RAISED"}

ASSUME TransactionAssumption ==
  /\ N \in Nat \ {0}
  /\ ManagerOf \in [Tx -> Manager]
  /\ WorkspaceOf \in [Manager -> Workspace]
  /\ Owned \subseteq Manager
  /\ Cap \in [Step -> Contract]
  /\ Comp \in [Step -> Compensation]
  /\ Criteria \subseteq Literal
  /\ Snapshot \in [Fact -> Truth]
  /\ Disturbances \subseteq Identity \cup {"expiry", "ledger", "interrupt", "kernel"}
  /\ None \notin Workspace
  /\ None \notin [Fact -> Truth] \cup Outcome

VARIABLES
  state,        \* session.current_state
  success,      \* session.last_execution_success
  attestedHash, \* session.last_execution_world_state_hash, or None
  drift,        \* identities that no longer match the certificate; expiry; tampering
  boundTo,      \* CERTIFICATE_WORKSPACES[certificate]
  ledger,       \* records of the EvidenceLedger
  world,        \* [Fact -> BOOLEAN]
  mgr,          \* [Manager -> "open" | "retained" | "closed"]
  live,         \* [Manager -> [Fact -> Truth]]
  pc,           \* [Tx -> where the call is]
  step,         \* [Tx -> index of the current action, N + 1 past the last]
  pend,         \* [Tx -> literals of the action not yet witnessed]
  observed,     \* [Tx -> facts whose live value this call witnessed]
  undo,         \* [Tx -> effectful dispatched actions not yet compensated]
  outcome       \* [Tx -> TransactionOutcome, "RAISED" or None]

sessionVars == <<state, success, attestedHash>>
envVars     == <<drift, boundTo>>
vars == <<state, success, attestedHash, drift, boundTo, ledger, world, mgr,
          live, pc, step, pend, observed, undo, outcome>>

\* The ledger events recovery and the properties read.  POSTCHECK_WITNESSED and
\* COMPENSATION_VERIFIED stand for the records whose witness_status is true.
Event == {"ACTION_DISPATCHED", "POSTCHECK_WITNESSED", "COMPENSATION_TRIGGERED",
          "COMPENSATION_VERIFIED", "PLAN_COMMITTED", "CONTAINMENT_FAILED"}
Record == [tx : Tx, event : Event, step : 0 .. N]
Rec(t, e, i) == [tx |-> t, event |-> e, step |-> i]

\* Calls that have not returned.
Active == {"preflight", "authority", "check", "running", "witness", "record",
           "commit", "recover", "drifted", "compensate", "undoing", "unwitness"}

---------------------------------------------------------------------------
(* Reading facts, running commands and verifiers.                          *)

TruthOf(b) == IF b THEN "VERIFIED_TRUE" ELSE "VERIFIED_FALSE"

Believes(m, lits) == \A l \in lits : live[m][l[1]] = TruthOf(l[2])

\* Executing a command makes some of the literals it can reach true, in any
\* number: a process may fail half-way and may exit 0 without its effect.
Reached(lits) ==
  {w \in [Fact -> BOOLEAN] : \A f \in Fact : w[f] = world[f] \/ <<f, w[f]>> \in lits}

\* A capability replaced in the registry runs another command.
CommandReach(i) ==
  IF "registry" \in drift THEN Literal ELSE Cap[i].eff \cup Cap[i].side
CompensationReach(i) ==
  IF "registry" \in drift THEN Literal ELSE Comp[i].eff

\* Mutant of Latest: compensation in dispatch order.
Earliest(i, S) == i \in S /\ \A j \in S : i <= j

Latest(i, S) == i \in S /\ \A j \in S : j <= i

\* sandbox_execute and commit_execution: the workspace is still the bound one.
WorkspaceBound == "workspace" \notin drift

\* What the command that is running right now may still do.
InFlight(t) ==
  CASE pc[t] = "running" -> CommandReach(step[t])
    [] pc[t] = "undoing" ->
         UNION {CompensationReach(i) : i \in {j \in undo[t] : Latest(j, undo[t])}}
    [] OTHER -> {}

\* Mutant of SomeVerifierPasses: a matching verifier is enough, its result is not read.
SomeVerifierMatches(f, verifiers) == \E v \in verifiers : v[1] = f

\* Some verifier whose predicate and arguments match the effect passes.  As
\* _matches_verifier_runtime, the match ignores the verifier's polarity.
SomeVerifierPasses(f, verifiers) ==
  \/ "registry" \in drift
  \/ \E v \in verifiers : v[1] = f /\ world[f] = v[2]

\* Mutant of Dispatched: the ledger is read without the transaction id.
DispatchedByAny(t) == {i \in Step : \E u \in Tx : Rec(u, "ACTION_DISPATCHED", i) \in ledger}

Dispatched(t) == {i \in Step : Rec(t, "ACTION_DISPATCHED", i) \in ledger}
Effectful == {i \in Step : Cap[i].eff # {}}

---------------------------------------------------------------------------
(* How a call returns.                                                     *)

Kept == {"COMMITTED", "CONTAINMENT_FAILED"}

\* The call returns a TransactionSummary: the ledger is verified once more
\* and the workspace is retained or closed.
Return(t, o) ==
  LET m == ManagerOf[t] IN
  /\ pc' = [pc EXCEPT ![t] = "done"]
  /\ outcome' = [outcome EXCEPT ![t] = IF "ledger" \in drift THEN "RAISED" ELSE o]
  /\ mgr' = [mgr EXCEPT ![m] =
       IF m \in Owned /\ ("ledger" \in drift \/ o \in Kept) THEN "retained"
       ELSE IF "ledger" \in drift THEN @
       ELSE "closed"]

\* An exception leaves execute_and_finalize.
Raise(t) ==
  LET m == ManagerOf[t] IN
  /\ pc' = [pc EXCEPT ![t] = "done"]
  /\ outcome' = [outcome EXCEPT ![t] = "RAISED"]
  /\ mgr' = [mgr EXCEPT ![m] =
       IF Dispatched(t) # {} /\ m \in Owned THEN "retained" ELSE "closed"]

Goto(t, label) ==
  /\ pc' = [pc EXCEPT ![t] = label]
  /\ UNCHANGED <<outcome, mgr>>

---------------------------------------------------------------------------
Init ==
  /\ state = "AUTHORIZED"
  /\ success = FALSE
  /\ attestedHash = None
  /\ drift = {}
  /\ boundTo = None
  /\ ledger = {}
  /\ world \in {w \in [Fact -> BOOLEAN] :
                  \A f \in Fact : Snapshot[f] \in {"MISSING", TruthOf(w[f])}}
  /\ mgr = [m \in Manager |-> "open"]
  /\ live = [m \in Manager |-> Snapshot]
  /\ pc = [t \in Tx |-> "idle"]
  /\ step = [t \in Tx |-> 1]
  /\ pend = [t \in Tx |-> {}]
  /\ observed = [t \in Tx |-> {}]
  /\ undo = [t \in Tx |-> {}]
  /\ outcome = [t \in Tx |-> None]

---------------------------------------------------------------------------
(* The environment.                                                        *)

\* Something the certificate binds changes under the running call, the
\* certificate expires, or a ledger record is altered.
Disturb(d) ==
  /\ d \in Disturbances \ (drift \cup {"interrupt", "kernel"})
  /\ drift' = drift \cup {d}
  /\ UNCHANGED <<sessionVars, boundTo, ledger, world, mgr, live, pc, step, pend,
                 observed, undo, outcome>>

\* KeyboardInterrupt and its like: not an Exception, so no handler of the
\* transaction runs; a command that was running may have done part of its work.
Interrupt(t) ==
  /\ "interrupt" \in Disturbances
  /\ pc[t] \in Active
  /\ world' \in Reached(InFlight(t))
  /\ Raise(t)
  /\ UNCHANGED <<sessionVars, envVars, ledger, live, step, pend, observed, undo>>

\* session.start_execution: certificate, policy, world and registry identities
\* are checked, the attestation of an earlier execution is forgotten.
StartExecution ==
  /\ state = "AUTHORIZED"
  /\ drift \cap {"expiry", "policy", "registry"} = {}
  /\ success' = FALSE
  /\ attestedHash' = None
  /\ state' = "EXECUTING"
  /\ UNCHANGED <<envVars, ledger, world, mgr, live, pc, step, pend, observed,
                 undo, outcome>>

---------------------------------------------------------------------------
(* Entry of execute_and_finalize.                                          *)

\* A manager runs one call at a time.
Callable(t) ==
  /\ pc[t] = "idle"
  /\ \A u \in Tx : ManagerOf[u] = ManagerOf[t] => pc[u] \notin Active

\* Mutant of Admissible: the certificate's workspace is not compared.
AdmissibleAnywhere(t) == mgr[ManagerOf[t]] # "closed" /\ "ledger" \notin drift

Admissible(t) ==
  /\ mgr[ManagerOf[t]] # "closed"
  /\ "ledger" \notin drift
  /\ boundTo \in {None, WorkspaceOf[ManagerOf[t]]}

\* Closed manager, broken ledger, or the certificate belongs to another
\* workspace: raised before the call touches anything.
Refuse(t) ==
  /\ Callable(t)
  /\ ~Admissible(t)
  /\ pc' = [pc EXCEPT ![t] = "done"]
  /\ outcome' = [outcome EXCEPT ![t] = "RAISED"]
  /\ UNCHANGED <<sessionVars, envVars, ledger, world, mgr, live, step, pend,
                 observed, undo>>

\* The certificate is bound to the manager's workspace for good.
Bind(t) ==
  /\ Callable(t)
  /\ Admissible(t)
  /\ boundTo' = WorkspaceOf[ManagerOf[t]]
  /\ Goto(t, "preflight")
  /\ UNCHANGED <<sessionVars, drift, ledger, world, live, step, pend, observed, undo>>

\* Duplicate action ids, or a custom backend on the production path.
RejectCall(t) ==
  /\ pc[t] = "preflight"
  /\ Raise(t)
  /\ UNCHANGED <<sessionVars, envVars, ledger, world, live, step, pend, observed, undo>>

\* _secure_runtime_preflight: the isolation policy must be the signed one and
\* kernel isolation (bwrap) must be available.
Preflight(t) ==
  /\ pc[t] = "preflight"
  /\ \/ "isolation" \notin drift /\ Goto(t, "authority")
     \/ /\ "isolation" \in drift \/ "kernel" \in Disturbances
        /\ Goto(t, "record")
  /\ UNCHANGED <<sessionVars, envVars, ledger, world, live, step, pend, observed, undo>>

\* The checks at the head of execute_authorized_plan.  The executor's own copy
\* of policy_hash was taken when the manager was built.
VerifyAuthority(t) ==
  /\ pc[t] = "authority"
  /\ IF /\ state = "EXECUTING"
        /\ drift \cap {"expiry", "registry"} = {}
        /\ live[ManagerOf[t]] = Snapshot
     THEN Goto(t, "check")
     ELSE Goto(t, "record")
  /\ UNCHANGED <<sessionVars, envVars, ledger, world, live, step, pend, observed, undo>>

---------------------------------------------------------------------------
(* The loop over the actions of the plan.                                  *)

\* Mutant of Dispatch: the command starts and no dispatch is recorded.
DispatchUnrecorded(t) ==
  /\ pc[t] = "check"
  /\ Believes(ManagerOf[t], Cap[step[t]].pre)
  /\ Cap[step[t]].exec
  /\ Goto(t, "running")
  /\ UNCHANGED <<sessionVars, envVars, ledger, world, live, step, pend, observed, undo>>

\* Contract, live preconditions and executor template hold: the dispatch is
\* recorded before the command starts.
Dispatch(t) ==
  LET i == step[t] IN
  /\ pc[t] = "check"
  /\ Believes(ManagerOf[t], Cap[i].pre)
  /\ Cap[i].exec
  /\ ledger' = ledger \cup {Rec(t, "ACTION_DISPATCHED", i)}
  /\ Goto(t, "running")
  /\ UNCHANGED <<sessionVars, envVars, world, live, step, pend, observed, undo>>

\* PLAN_ABORTED before the action's command runs.
AbortBeforeDispatch(t) ==
  LET i == step[t] IN
  /\ pc[t] = "check"
  /\ \/ ~Believes(ManagerOf[t], Cap[i].pre)
     \/ ~Cap[i].exec
     \/ "registry" \in drift
  /\ Goto(t, "record")
  /\ UNCHANGED <<sessionVars, envVars, ledger, world, live, step, pend, observed, undo>>

\* Mutant of Advance: an action is skipped.
AdvanceByTwo(t) ==
  /\ step' = [step EXCEPT ![t] = @ + 2]
  /\ Goto(t, IF step[t] = N THEN "record" ELSE "check")

Advance(t) ==
  /\ step' = [step EXCEPT ![t] = @ + 1]
  /\ Goto(t, IF step[t] = N THEN "record" ELSE "check")

\* Exit status 0.  An action without effects is complete; otherwise every
\* effect has to be witnessed.
CommandSucceeds(t) ==
  LET i == step[t] IN
  /\ pc[t] = "running"
  /\ WorkspaceBound
  /\ world' \in Reached(CommandReach(i))
  /\ IF Cap[i].eff = {}
     THEN Advance(t) /\ UNCHANGED pend
     ELSE Goto(t, "witness") /\ pend' = [pend EXCEPT ![t] = Cap[i].eff] /\ UNCHANGED step
  /\ UNCHANGED <<sessionVars, envVars, ledger, live, observed, undo>>

\* Mutant of CommandFails: the exit status is ignored.
CommandFailureIgnored(t) ==
  /\ pc[t] = "running"
  /\ Advance(t)
  /\ UNCHANGED <<sessionVars, envVars, ledger, world, live, pend, observed, undo>>

\* Non-zero exit, timeout or exception.  The sandbox answers 126 without
\* running anything once the workspace is no longer the bound one.
CommandFails(t) ==
  /\ pc[t] = "running"
  /\ IF WorkspaceBound THEN world' \in Reached(CommandReach(step[t]))
     ELSE UNCHANGED world
  /\ Goto(t, "record")
  /\ UNCHANGED <<sessionVars, envVars, ledger, live, step, pend, observed, undo>>

\* Mutant of WitnessEffect: one witnessed effect stands for all of them.
WitnessAllAtOnce(t, l) ==
  LET i == step[t]
      m == ManagerOf[t] IN
  /\ pc[t] = "witness"
  /\ l \in pend[t]
  /\ SomeVerifierPasses(l[1], Cap[i].ver)
  /\ live' = [live EXCEPT ![m] = [f \in Fact |->
       IF \E k \in pend[t] : k[1] = f THEN TruthOf(\E k \in pend[t] : k = <<f, TRUE>>) ELSE @[f]]]
  /\ observed' = [observed EXCEPT ![t] = @ \cup {k[1] : k \in pend[t]}]
  /\ pend' = [pend EXCEPT ![t] = {}]
  /\ ledger' = ledger \cup {Rec(t, "POSTCHECK_WITNESSED", i)}
  /\ Advance(t)
  /\ UNCHANGED <<sessionVars, envVars, world, undo>>

\* One verifier of one effect passes: the live fact is replaced at once.
\* Positive effects are witnessed before negative ones.
WitnessEffect(t, l) ==
  LET i == step[t]
      m == ManagerOf[t] IN
  /\ pc[t] = "witness"
  /\ l \in pend[t]
  /\ l[2] \/ \A k \in pend[t] : ~k[2]
  /\ WorkspaceBound
  /\ SomeVerifierPasses(l[1], Cap[i].ver)
  /\ live' = [live EXCEPT ![m][l[1]] = TruthOf(l[2])]
  /\ observed' = [observed EXCEPT ![t] = @ \cup {l[1]}]
  /\ pend' = [pend EXCEPT ![t] = @ \ {l}]
  /\ IF pend[t] = {l}
     THEN ledger' = ledger \cup {Rec(t, "POSTCHECK_WITNESSED", i)} /\ Advance(t)
     ELSE Goto(t, "witness") /\ UNCHANGED <<ledger, step>>
  /\ UNCHANGED <<sessionVars, envVars, world, undo>>

\* No verifier matches, none passes, or one raises.
WitnessFails(t) ==
  /\ pc[t] = "witness"
  /\ pend' = [pend EXCEPT ![t] = {}]
  /\ Goto(t, "record")
  /\ UNCHANGED <<sessionVars, envVars, ledger, world, live, step, observed, undo>>

---------------------------------------------------------------------------
(* Commit gate.                                                            *)

\* Mutant of Completed: reaching the last action is taken for finishing it.
CompletedEarly(t) == step[t] >= N

Completed(t) == step[t] = N + 1

\* session.record_execution_result; it raises unless the session is EXECUTING,
\* and the call then goes to recovery whatever the execution said.
RecordExecutionResult(t) ==
  /\ pc[t] = "record"
  /\ IF state = "EXECUTING"
     THEN /\ success' = Completed(t)
          /\ attestedHash' = live[ManagerOf[t]]
          /\ Goto(t, IF Completed(t) THEN "commit" ELSE "recover")
     ELSE /\ UNCHANGED <<success, attestedHash>>
          /\ Goto(t, "recover")
  /\ UNCHANGED <<state, envVars, ledger, world, live, step, pend, observed, undo>>

\* Each mandatory criterion carries an attestation issued in this transaction.
Attested(t) == \A c \in Criteria : c[1] \in observed[t]

\* Every blocker of the three commit_execution layers is absent: bound
\* workspace, runtime attestation, and the session's own checks of success,
\* world hash and criterion truth.
CommitGate(t) ==
  LET m == ManagerOf[t] IN
  /\ state = "EXECUTING"
  /\ WorkspaceBound
  /\ success
  /\ attestedHash = live[m]
  /\ Attested(t)
  /\ \A c \in Criteria : live[m][c[1]] = TruthOf(c[2])

CommitExecution(t) ==
  /\ pc[t] = "commit"
  /\ CommitGate(t)
  /\ state' = "COMMITTED"
  /\ ledger' = ledger \cup {Rec(t, "PLAN_COMMITTED", 0)}
  /\ Return(t, "COMMITTED")
  /\ UNCHANGED <<success, attestedHash, envVars, world, live, step, pend, observed, undo>>

\* Mutant of CommitBlocked: the commit is tried again.
CommitRetried(t) ==
  /\ pc[t] = "commit"
  /\ ~CommitGate(t)
  /\ Goto(t, "commit")
  /\ UNCHANGED <<sessionVars, envVars, ledger, world, live, step, pend, observed, undo>>

CommitBlocked(t) ==
  /\ pc[t] = "commit"
  /\ ~CommitGate(t)
  /\ Goto(t, "recover")
  /\ UNCHANGED <<sessionVars, envVars, ledger, world, live, step, pend, observed, undo>>

---------------------------------------------------------------------------
(* _compensate_or_contain.                                                 *)

\* _dispatched_action_ids verifies the ledger, and raises when it is broken; an
\* execution that raised asks it before its result is recorded.
RecoveryRaises(t) ==
  /\ pc[t] = "recover" \/ (pc[t] = "record" /\ ~Completed(t))
  /\ "ledger" \in drift
  /\ Raise(t)
  /\ UNCHANGED <<sessionVars, envVars, ledger, world, live, step, pend, observed, undo>>

\* The effectful actions this call dispatched, by its own transaction id.
EffectfulDispatched(t) == Dispatched(t) \cap Effectful

\* Mutant of FailUntouched: only witnessed effects count as touched.
FailUnwitnessed(t) ==
  /\ pc[t] = "recover"
  /\ "ledger" \notin drift
  /\ \A i \in EffectfulDispatched(t) : Rec(t, "POSTCHECK_WITNESSED", i) \notin ledger
  /\ state' = IF state = "EXECUTING" THEN "FAILED" ELSE state
  /\ Return(t, "FAILED")
  /\ UNCHANGED <<success, attestedHash, envVars, ledger, world, live, step, pend,
                 observed, undo>>

FailUntouched(t) ==
  /\ pc[t] = "recover"
  /\ "ledger" \notin drift
  /\ EffectfulDispatched(t) = {}
  /\ state' = IF state = "EXECUTING" THEN "FAILED" ELSE state
  /\ Return(t, "FAILED")
  /\ UNCHANGED <<success, attestedHash, envVars, ledger, world, live, step, pend,
                 observed, undo>>

\* Mutant of BeginCompensation: an action that failed after its dispatch is not undone.
BeginWitnessedOnly(t) ==
  /\ pc[t] = "recover"
  /\ "ledger" \notin drift
  /\ EffectfulDispatched(t) # {}
  /\ state' = IF state = "EXECUTING" THEN "COMPENSATING" ELSE state
  /\ undo' = [undo EXCEPT ![t] =
       {i \in EffectfulDispatched(t) : Rec(t, "POSTCHECK_WITNESSED", i) \in ledger}]
  /\ Goto(t, "drifted")
  /\ UNCHANGED <<success, attestedHash, envVars, ledger, world, live, step, pend, observed>>

BeginCompensation(t) ==
  /\ pc[t] = "recover"
  /\ "ledger" \notin drift
  /\ EffectfulDispatched(t) # {}
  /\ state' = IF state = "EXECUTING" THEN "COMPENSATING" ELSE state
  /\ undo' = [undo EXCEPT ![t] = EffectfulDispatched(t)]
  /\ Goto(t, "drifted")
  /\ UNCHANGED <<success, attestedHash, envVars, ledger, world, live, step, pend, observed>>

\* Mutant of ContainmentFailed: the session is left COMPENSATING.
ContainmentUnreported(t) ==
  /\ ledger' = ledger \cup {Rec(t, "CONTAINMENT_FAILED", 0)}
  /\ Return(t, "CONTAINMENT_FAILED")
  /\ UNCHANGED state

ContainmentFailed(t) ==
  /\ state' = IF state = "COMPENSATING" THEN "CONTAINMENT_FAILED" ELSE state
  /\ ledger' = ledger \cup {Rec(t, "CONTAINMENT_FAILED", 0)}
  /\ Return(t, "CONTAINMENT_FAILED")

\* Registry, policy and isolation identities are compared once, before the loop.
CheckDrift(t) ==
  /\ pc[t] = "drifted"
  /\ IF drift \cap {"registry", "policy", "isolation"} = {}
     THEN Goto(t, "compensate") /\ UNCHANGED <<state, ledger>>
     ELSE ContainmentFailed(t)
  /\ UNCHANGED <<success, attestedHash, envVars, world, live, step, pend, observed, undo>>

Compensable(t, i) ==
  /\ Comp[i].spec
  /\ Comp[i].valid
  /\ Comp[i].eff # {}
  /\ Believes(ManagerOf[t], Comp[i].pre)

TriggerCompensation(t, i) ==
  /\ pc[t] = "compensate"
  /\ Latest(i, undo[t])
  /\ Compensable(t, i)
  /\ ledger' = ledger \cup {Rec(t, "COMPENSATION_TRIGGERED", i)}
  /\ Goto(t, "undoing")
  /\ UNCHANGED <<sessionVars, envVars, world, live, step, pend, observed, undo>>

\* No compensation, a broken contract, no observable effect, or a precondition
\* the live state does not meet.  (A registry that drifts inside the loop may
\* break the contract.)
CompensationImpossible(t, i) ==
  /\ pc[t] = "compensate"
  /\ Latest(i, undo[t])
  /\ ~Compensable(t, i) \/ "registry" \in drift
  /\ ContainmentFailed(t)
  /\ UNCHANGED <<success, attestedHash, envVars, world, live, step, pend, observed, undo>>

CompensationSucceeds(t, i) ==
  /\ pc[t] = "undoing"
  /\ Latest(i, undo[t])
  /\ WorkspaceBound
  /\ world' \in Reached(CompensationReach(i))
  /\ Goto(t, "unwitness")
  /\ UNCHANGED <<sessionVars, envVars, ledger, live, step, pend, observed, undo>>

\* Mutant of CompensationFails: the loop goes on to the next action.
CompensationFailureSkipped(t, i) ==
  /\ pc[t] = "undoing"
  /\ Latest(i, undo[t])
  /\ undo' = [undo EXCEPT ![t] = @ \ {i}]
  /\ Goto(t, "compensate")
  /\ UNCHANGED <<sessionVars, envVars, ledger, world, live, step, pend, observed>>

CompensationFails(t, i) ==
  /\ pc[t] = "undoing"
  /\ Latest(i, undo[t])
  /\ IF WorkspaceBound THEN world' \in Reached(CompensationReach(i))
     ELSE UNCHANGED world
  /\ ContainmentFailed(t)
  /\ UNCHANGED <<success, attestedHash, envVars, live, step, pend, observed, undo>>

\* All effects of the compensation are witnessed; only then the live facts
\* change and the loop goes on.
CompensationVerified(t, i) ==
  LET m == ManagerOf[t] IN
  /\ pc[t] = "unwitness"
  /\ Latest(i, undo[t])
  /\ WorkspaceBound
  /\ \A l \in Comp[i].eff : SomeVerifierPasses(l[1], Comp[i].ver)
  /\ ledger' = ledger \cup {Rec(t, "COMPENSATION_VERIFIED", i)}
  /\ live' = [live EXCEPT ![m] = [f \in Fact |->
       IF <<f, FALSE>> \in Comp[i].eff THEN TruthOf(FALSE)
       ELSE IF <<f, TRUE>> \in Comp[i].eff THEN TruthOf(TRUE) ELSE @[f]]]
  /\ undo' = [undo EXCEPT ![t] = @ \ {i}]
  /\ Goto(t, "compensate")
  /\ UNCHANGED <<sessionVars, envVars, world, step, pend, observed>>

CompensationUnverified(t) ==
  /\ pc[t] = "unwitness"
  /\ ContainmentFailed(t)
  /\ UNCHANGED <<success, attestedHash, envVars, world, live, step, pend, observed, undo>>

\* Mutant of FinishRollback: the identities are compared after the loop.
FinishRollbackThenCheck(t) ==
  /\ pc[t] = "compensate"
  /\ undo[t] = {}
  /\ IF drift \cap {"registry", "policy", "isolation"} = {}
     THEN state' = "ROLLED_BACK" /\ Return(t, "ROLLED_BACK") /\ UNCHANGED ledger
     ELSE ContainmentFailed(t)
  /\ UNCHANGED <<success, attestedHash, envVars, world, live, step, pend, observed, undo>>

\* transition_to(ROLLED_BACK) raises unless the session is COMPENSATING.
FinishRollback(t) ==
  /\ pc[t] = "compensate"
  /\ undo[t] = {}
  /\ IF CanMove(state, "ROLLED_BACK")
     THEN state' = "ROLLED_BACK" /\ Return(t, "ROLLED_BACK")
     ELSE UNCHANGED state /\ Raise(t)
  /\ UNCHANGED <<success, attestedHash, envVars, ledger, world, live, step, pend,
                 observed, undo>>

---------------------------------------------------------------------------
Forward(t) ==
  \/ Bind(t) \/ Refuse(t) \/ RejectCall(t) \/ Preflight(t) \/ VerifyAuthority(t)
  \/ Dispatch(t) \/ AbortBeforeDispatch(t)
  \/ CommandSucceeds(t) \/ CommandFails(t)
  \/ \E l \in Literal : WitnessEffect(t, l)
  \/ WitnessFails(t)
  \/ RecordExecutionResult(t) \/ CommitExecution(t) \/ CommitBlocked(t)

Backward(t) ==
  \/ RecoveryRaises(t) \/ FailUntouched(t) \/ BeginCompensation(t) \/ CheckDrift(t)
  \/ \E i \in Step :
       \/ TriggerCompensation(t, i) \/ CompensationImpossible(t, i)
       \/ CompensationSucceeds(t, i) \/ CompensationFails(t, i)
       \/ CompensationVerified(t, i)
  \/ CompensationUnverified(t) \/ FinishRollback(t)

Call(t) == Forward(t) \/ Backward(t)

Next ==
  \/ StartExecution
  \/ \E d \in Disturbances : Disturb(d)
  \/ \E t \in Tx : Call(t) \/ Interrupt(t)

Spec == Init /\ [][Next]_vars

---------------------------------------------------------------------------
(* Properties.                                                             *)

\* Every variable keeps the shape the code gives it; in particular no call's
\* index runs past the action after the last (execute_authorized_plan's loop).
TypeOK ==
  /\ state \in SessionState
  /\ success \in BOOLEAN
  /\ attestedHash \in [Fact -> Truth] \cup {None}
  /\ drift \subseteq Disturbances
  /\ boundTo \in Workspace \cup {None}
  /\ ledger \subseteq Record
  /\ world \in [Fact -> BOOLEAN]
  /\ mgr \in [Manager -> {"open", "retained", "closed"}]
  /\ live \in [Manager -> [Fact -> Truth]]
  /\ pc \in [Tx -> Active \cup {"idle", "done"}]
  /\ step \in [Tx -> 1 .. N + 1]
  /\ pend \in [Tx -> SUBSET Literal]
  /\ observed \in [Tx -> SUBSET Fact]
  /\ undo \in [Tx -> SUBSET Step]
  /\ outcome \in [Tx -> Outcome \cup {None}]

Logged(t, e, i) == Rec(t, e, i) \in ledger

\* A commit is recorded only by a call that dispatched every action of the plan
\* itself, witnessed every effectful one, and compensated none of them.
CommitWitnessed ==
  \A t \in Tx : Logged(t, "PLAN_COMMITTED", 0) =>
    /\ Dispatched(t) = Step
    /\ \A i \in Effectful : Logged(t, "POSTCHECK_WITNESSED", i)
    /\ \A i \in Step : ~Logged(t, "COMPENSATION_TRIGGERED", i)

\* No action is dispatched before every effectful action ahead of it in the
\* plan has been witnessed by the same call.
DispatchInOrder ==
  \A t \in Tx : \A i, j \in Step :
    (i < j /\ Logged(t, "ACTION_DISPATCHED", j)) =>
      /\ Logged(t, "ACTION_DISPATCHED", i)
      /\ i \in Effectful => Logged(t, "POSTCHECK_WITNESSED", i)

\* Compensation runs backwards: nothing is undone while a later effectful
\* action the same call dispatched is not yet verifiably undone.
ReverseOrder ==
  \A t \in Tx : \A i, j \in Step :
    (Logged(t, "COMPENSATION_TRIGGERED", i) /\ j > i /\ j \in EffectfulDispatched(t))
      => Logged(t, "COMPENSATION_VERIFIED", j)

\* A call reports ROLLED_BACK only when each effectful action it dispatched,
\* failed ones included, has a verified compensation.
RollbackComplete ==
  \A t \in Tx : outcome[t] = "ROLLED_BACK" =>
    \A i \in EffectfulDispatched(t) : Logged(t, "COMPENSATION_VERIFIED", i)

\* A call reports FAILED only when nothing with an effect was dispatched.
FailedUntouched ==
  \A t \in Tx : outcome[t] = "FAILED" => EffectfulDispatched(t) = {}

\* Containment is declared only while an effect is left without verified undo.
ContainmentJustified ==
  \A t \in Tx : Logged(t, "CONTAINMENT_FAILED", 0) =>
    \E i \in EffectfulDispatched(t) : ~Logged(t, "COMPENSATION_VERIFIED", i)

\* Once some call has committed the plan, no call undoes any of it.
CommitFinal ==
  (\E t \in Tx : Logged(t, "PLAN_COMMITTED", 0)) =>
    \A t \in Tx : \A i \in Step : ~Logged(t, "COMPENSATION_TRIGGERED", i)

\* A committed plan's mandatory criteria hold in the workspace, not only in the
\* manager's beliefs.  (A capability replaced behind the certificate's back may
\* verify anything.)
CommittedCriteria ==
  (state = "COMMITTED" /\ "registry" \notin drift) =>
    \A c \in Criteria : world[c[1]] = c[2]

\* No effect of the call is waiting to be witnessed.
Settled(t) ==
  \/ pc[t] \in {"preflight", "authority", "check"}
  \/ pc[t] \in {"record", "commit"} /\ Completed(t)

\* Between actions and up to the commit, what a manager believes verified is
\* what is true: preconditions and criteria are read from those beliefs.
LiveSound ==
  \A t \in Tx : (Settled(t) /\ "registry" \notin drift /\ state = "EXECUTING") =>
    \A f \in Fact : live[ManagerOf[t]][f] \in {"MISSING", TruthOf(world[f])}

\* A returned summary and the session agree.
SummarySettles ==
  \A t \in Tx :
    /\ outcome[t] \in {"COMMITTED", "ROLLED_BACK", "CONTAINMENT_FAILED"} => state = outcome[t]
    /\ outcome[t] = "FAILED" => state \notin {"COMPENSATING"}

\* One certificate acts in one workspace: calls on managers with different
\* workspaces never both dispatch.
WorkspaceExclusive ==
  \A t, u \in Tx : (Dispatched(t) # {} /\ Dispatched(u) # {})
    => WorkspaceOf[ManagerOf[t]] = WorkspaceOf[ManagerOf[u]]

---------------------------------------------------------------------------
(* Every transaction is a saga: the effectful actions it dispatched and    *)
(* has not verifiably compensated are the steps in place.                  *)

EndPhase ==
  [COMMITTED |-> "committed", ROLLED_BACK |-> "rolled_back", FAILED |-> "failed",
   CONTAINMENT_FAILED |-> "contained", RAISED |-> "lost"]

Undoing == {"drifted", "compensate", "undoing", "unwitness"}

SagaPhase(t) ==
  IF pc[t] = "done" THEN EndPhase[outcome[t]]
  ELSE IF pc[t] \in Undoing THEN "backward"
  ELSE "forward"

InPlace(t) == {i \in EffectfulDispatched(t) : ~Logged(t, "COMPENSATION_VERIFIED", i)}

S == INSTANCE Saga WITH phase   <- [t \in Tx |-> SagaPhase(t)],
                        applied <- [t \in Tx |-> InPlace(t)]

\* The manager implements the saga.
ImplementsSaga == S!SagaSpec

---------------------------------------------------------------------------
(* Inductive strengthening: where a call is determines what its records in *)
(* the ledger can be.                                                      *)

BeforeCompensation ==
  {"idle", "preflight", "authority", "check", "running", "witness", "record",
   "commit", "recover", "drifted"}

\* Actions before the current one are dispatched and witnessed, none after it.
ProgressInv(t) ==
  /\ \A i \in Step : i < step[t] =>
       Logged(t, "ACTION_DISPATCHED", i) /\ (i \in Effectful => Logged(t, "POSTCHECK_WITNESSED", i))
  /\ \A i \in Step : Logged(t, "ACTION_DISPATCHED", i) => i <= step[t]
  /\ pc[t] \in {"idle", "preflight", "authority"} => step[t] = 1
  /\ pc[t] \in {"idle", "preflight", "authority", "check"} =>
       step[t] \in Step /\ ~Logged(t, "ACTION_DISPATCHED", step[t])
  /\ pc[t] \in {"running", "witness"} =>
       step[t] \in Step /\ Logged(t, "ACTION_DISPATCHED", step[t])
  /\ pc[t] = "commit" => step[t] = N + 1

\* `undo' is what is still in place, and a suffix of it has been undone.
UndoInv(t) ==
  /\ pc[t] \in BeforeCompensation => \A i \in Step :
       ~Logged(t, "COMPENSATION_TRIGGERED", i) /\ ~Logged(t, "COMPENSATION_VERIFIED", i)
  /\ pc[t] = "drifted" => InPlace(t) # {} /\ undo[t] = InPlace(t)
  /\ pc[t] \in {"compensate", "undoing", "unwitness"} => undo[t] = InPlace(t)
  /\ pc[t] \in {"undoing", "unwitness"} => undo[t] # {}
  /\ \A i, j \in Step :
       /\ Logged(t, "COMPENSATION_TRIGGERED", i) \/ Logged(t, "COMPENSATION_VERIFIED", i)
       /\ j > i
       /\ j \in Effectful
       /\ Logged(t, "ACTION_DISPATCHED", j)
       => Logged(t, "COMPENSATION_VERIFIED", j)

\* What a call that is over has left in the ledger.
OutcomeInv(t) ==
  /\ pc[t] # "done" => outcome[t] = None
  /\ Logged(t, "PLAN_COMMITTED", 0) =>
       /\ pc[t] = "done" /\ step[t] = N + 1
       /\ \A i \in Step : ~Logged(t, "COMPENSATION_TRIGGERED", i)
  /\ Logged(t, "CONTAINMENT_FAILED", 0) => pc[t] = "done" /\ InPlace(t) # {}
  /\ outcome[t] = "ROLLED_BACK" => InPlace(t) = {}
  /\ outcome[t] = "FAILED" => EffectfulDispatched(t) = {}

\* Every call's place, ledger records and result agree.
CallInv == \A t \in Tx : ProgressInv(t) /\ UndoInv(t) /\ OutcomeInv(t)

---------------------------------------------------------------------------
(* Progress.  Commands and verifiers run under a timeout, so a call that   *)
(* has begun keeps taking steps.                                           *)

Progress(t) == pc[t] \in Active /\ Call(t)

LiveSpec == Spec /\ \A t \in Tx : WF_vars(Progress(t))

\* Every call that starts returns or raises.
EveryCallReturns == \A t \in Tx : pc[t] = "preflight" ~> pc[t] = "done"

=============================================================================
