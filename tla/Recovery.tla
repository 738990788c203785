------------------------------ MODULE Recovery ------------------------------
(***************************************************************************)
(* The stand-alone saga recovery of recovery.py: SagaRecoveryManager is    *)
(* handed the results of executed steps, selects those that exited 0 and   *)
(* were witnessed, and runs their registered compensations, the latest     *)
(* first; the first that cannot be run or fails ends in containment.       *)
(*                                                                         *)
(* What may be wrong with the compensation of a step (why) is data of its  *)
(* plan and registry.  A compensation that exits 0 has undone the effect;  *)
(* one that fails, or times out, may have undone it or not.  The caller    *)
(* may call again with the same steps.                                     *)
(***************************************************************************)
EXTENDS Naturals, Sequences, FiniteSets, SequencesExt, SessionStates, Ascending

CONSTANTS
    Flaws,        \* what may be wrong with a step's compensation; "none" is nothing
    MaxExecuted,  \* bound: the steps executed
    MaxRollbacks  \* bound: the calls of execute_saga_rollback

VARIABLES
    steps,     \* the executed steps: exit, witnessed, flaw
    world,     \* the steps whose effect is in place
    session,   \* the session's state
    to_undo,   \* the steps a call still has to compensate, in its order
    saga_pc,   \* "run": steps execute; "undo": a call is under way; "idle"
    done,      \* compensated_count of the call
    report,    \* the status the last call returned
    calls

recoveryVars == <<steps, world, session, to_undo, saga_pc, done, report, calls>>

RecoveryTypeOK ==
    /\ steps \in Seq([exit : {0, 1}, witnessed : BOOLEAN, flaw : Flaws])
    /\ world \subseteq 1..Len(steps) /\ session \in SessionState
    /\ to_undo \in Seq(1..MaxExecuted) /\ saga_pc \in {"run", "undo", "idle"}
    /\ done \in 0..MaxExecuted /\ calls \in 0..MaxRollbacks
    /\ report \in {"none", "raised", "NO_RECOVERY_NEEDED", "ROLLED_BACK", "CONTAINMENT_FAILED"}

RecoveryInit ==
    /\ steps = <<>> /\ world = {} /\ session = "EXECUTING" /\ to_undo = <<>>
    /\ saga_pc = "run" /\ done = 0 /\ report = "none" /\ calls = 0

\* a step ran; one that failed, or was not witnessed, may have had its effect
Execute(step, effective) ==
    /\ saga_pc = "run" /\ Len(steps) < MaxExecuted
    /\ step.exit = 0 /\ step.witnessed => effective
    /\ steps' = Append(steps, step)
    /\ world' = IF effective THEN world \cup {Len(steps) + 1} ELSE world
    /\ UNCHANGED <<session, to_undo, saga_pc, done, report, calls>>

\* the caller moves the session on before it asks for the rollback, or not
MoveOn(target) ==
    /\ saga_pc = "run" /\ CanMove(session, target) /\ session' = target
    /\ UNCHANGED <<steps, world, to_undo, saga_pc, done, report, calls>>

\* the steps that exited 0 and were witnessed
Undoable == {i \in 1..Len(steps) : steps[i].exit = 0 /\ steps[i].witnessed}

steps_to_undo == InOrder(Undoable)

\* execute_saga_rollback, up to its loop
Rollback ==
    /\ saga_pc \in {"run", "idle"} /\ calls < MaxRollbacks /\ calls' = calls + 1
    /\ done' = 0 /\ to_undo' = Reverse(steps_to_undo)
    /\ IF steps_to_undo = <<>>
       THEN /\ session' = IF session = "COMPENSATING" THEN "ROLLED_BACK" ELSE session
            /\ report' = "NO_RECOVERY_NEEDED" /\ saga_pc' = "idle"
       ELSE /\ session' = IF session \in {"EXECUTING", "DIAGNOSING"} THEN "COMPENSATING" ELSE session
            /\ report' = "none" /\ saga_pc' = "undo"
    /\ UNCHANGED <<steps, world>>

\* _containment_failure: through CONTAINMENT_FAILED, and always on to FAILED
Contain ==
    /\ session' = "FAILED" /\ report' = "CONTAINMENT_FAILED" /\ saga_pc' = "idle" /\ to_undo' = <<>>
    /\ UNCHANGED <<steps, done, calls>>

\* the step is not in the plan, has no compensation, or its compensation has
\* no capability, no command or parameters that do not resolve
Unable ==
    /\ saga_pc = "undo" /\ to_undo # <<>> /\ steps[Head(to_undo)].flaw \notin {"none", "unregistered"}
    /\ Contain
    /\ UNCHANGED world

\* registry.get of the step's own capability raises through the manager
Raises ==
    /\ saga_pc = "undo" /\ to_undo # <<>> /\ steps[Head(to_undo)].flaw = "unregistered"
    /\ report' = "raised" /\ saga_pc' = "idle" /\ to_undo' = <<>>
    /\ UNCHANGED <<steps, world, session, done, calls>>

\* Mutant of Compensate: a compensation that failed is passed over
CompensateOnwards(ok, undone) ==
    /\ saga_pc = "undo" /\ to_undo # <<>> /\ steps[Head(to_undo)].flaw = "none" /\ (ok => undone)
    /\ world' = IF undone THEN world \ {Head(to_undo)} ELSE world
    /\ to_undo' = Tail(to_undo) /\ done' = done + 1
    /\ UNCHANGED <<steps, session, saga_pc, report, calls>>

\* the compensation command: exit code 0 in time, or not
Compensate(ok, undone) ==
    /\ saga_pc = "undo" /\ to_undo # <<>> /\ steps[Head(to_undo)].flaw = "none" /\ (ok => undone)
    /\ world' = IF undone THEN world \ {Head(to_undo)} ELSE world
    /\ IF ok THEN /\ to_undo' = Tail(to_undo) /\ done' = done + 1
                  /\ UNCHANGED <<steps, session, saga_pc, report, calls>>
       ELSE Contain

Complete ==
    /\ saga_pc = "undo" /\ to_undo = <<>>
    /\ session' = IF session = "COMPENSATING" THEN "ROLLED_BACK" ELSE session
    /\ report' = "ROLLED_BACK" /\ saga_pc' = "idle"
    /\ UNCHANGED <<steps, world, to_undo, done, calls>>

ExecutedStep == [exit : {0, 1}, witnessed : BOOLEAN, flaw : Flaws]

RecoveryNext ==
    \/ \E s \in ExecutedStep, effective \in BOOLEAN : Execute(s, effective)
    \/ \E target \in {"DIAGNOSING", "COMPENSATING"} : MoveOn(target)
    \/ Rollback \/ Unable \/ Raises \/ Complete
    \/ \E ok, undone \in BOOLEAN : Compensate(ok, undone)

RecoverySpec == RecoveryInit /\ [][RecoveryNext]_recoveryVars

-----------------------------------------------------------------------------
(* ROLLED_BACK -- in the report or of the session, in the first call or a   *)
(* later one with the same steps -- means that no effect of a step that     *)
(* exited 0 and was witnessed is in place; a compensation runs only when    *)
(* the effects of all later such steps are gone; and a report of failed     *)
(* containment leaves the session FAILED.  Only steps that failed or were   *)
(* not witnessed may leave an effect behind: they are never compensated.    *)
RolledBackClean ==
    /\ saga_pc = "idle" /\ "ROLLED_BACK" \in {report, session} => Undoable \cap world = {}
    /\ report = "ROLLED_BACK" => done = Cardinality(Undoable)
    /\ saga_pc = "undo" /\ to_undo # <<>> => \A i \in Undoable \cap world : i <= Head(to_undo)
    /\ report = "CONTAINMENT_FAILED" => session = "FAILED"
=============================================================================
