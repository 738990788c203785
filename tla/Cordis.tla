------------------------------- MODULE Cordis -------------------------------
(***************************************************************************)
(* Revertible effects and the plan executor built on them.                 *)
(*                                                                         *)
(* cordis.py's Context keeps the inverses of the effects run under it and  *)
(* undoes them when it is disposed; followup_hardening.py replaces         *)
(* effect, async_effect, dispose and async_dispose with versions that      *)
(* report a failing inverse, and supplies the execute_plan that            *)
(* _public_api_impl.py wraps.  execute_plan runs the handlers of a plan's  *)
(* tasks one after another, each under a context derived from the plan's,  *)
(* and on a failure disposes the plan's context.                           *)
(*                                                                         *)
(* Everything here runs on one event loop: an action is what happens       *)
(* between two awaits.  The context's RLock is reentrant, so it does not   *)
(* keep two coroutines of the loop apart and does not appear.  A handler   *)
(* may run effects it awaits and effects in coroutines it leaves running,  *)
(* dispose its own context, or call the dispose function an effect         *)
(* returned.                                                               *)
(***************************************************************************)
EXTENDS Naturals, Sequences, FiniteSets, SequencesExt

CONSTANTS
    Order,      \* the orders plan_dag may list the plan's tasks in
    Deps,       \* the declared dependencies of each task
    Sub,        \* contexts the handlers derive from their own task context
    SubOf,      \* the task each of those belongs to
    Eff,        \* the effects the handlers run
    On,         \* bound: the contexts each effect may be run on
    Disposable, \* bound: the contexts handlers dispose of themselves
    MaxSteps,   \* bound: the mutations of each effect
    PlanCtx,    \* the context of the whole plan
    Nobody      \* not a context

PlanTasks == DOMAIN Deps
Ctx == {PlanCtx} \cup PlanTasks \cup Sub
Parent(c) == IF c \in Sub THEN SubOf[c] ELSE IF c \in PlanTasks THEN PlanCtx ELSE Nobody
Steps(e) == 1..MaxSteps[e]

\* contexts are objects of their own, and a plan lists its own tasks
ASSUME CordisAssumption ==
    /\ Nobody \notin Ctx /\ "iterator" \notin Ctx \cup {Nobody}
    /\ PlanCtx \notin PlanTasks \cup Sub /\ PlanTasks \cap Sub = {}
    /\ IsFiniteSet(PlanTasks) /\ Order \subseteq Seq(PlanTasks)

VARIABLES
    order,      \* the tasks, in the order this plan lists them
    plan_pc,    \* where execute_plan stands
    executed,   \* executed_tasks
    plan_result, \* what execute_plan returned
    disposed,   \* [Ctx -> _disposed]
    inverses,   \* [Ctx -> _inverses], as effects in order of registration
    pending,    \* [Ctx -> what a running async_dispose still has to undo]
    ctx_errors, \* the contexts whose disposal met a failing inverse
    stage,      \* [Eff -> where the call of effect or async_effect stands]
    ectx,       \* [Eff -> the context it was called on]
    awaited,    \* the effects the current handler is waiting for
    applied,    \* [Eff -> the steps whose mutation is in place]
    collected,  \* [Eff -> the steps whose inverse was collected, in order]
    armed,      \* [Eff -> the armed flag of its dispose functions]
    undoer,     \* [Eff -> who is running its inverses now]
    left,       \* [Eff -> the inverses still to run, in order]
    tried,      \* history: [Eff -> the inverses run so far, in order]
    failed,     \* history: [Eff -> the steps whose inverse raised]
    log,        \* history: the effects in the order of their registration
    cut         \* history: [Ctx -> Len(log) when the context was disposed]

planVars == <<order, plan_pc, executed, plan_result>>
ctxVars == <<disposed, inverses, pending, ctx_errors, cut>>
undoVars == <<applied, undoer, left, tried, failed>>
effVars == <<stage, ectx, awaited, collected, armed, log>>
cordisVars == <<planVars, ctxVars, effVars, undoVars>>

CordisTypeOK ==
    /\ order \in Order \cup {<<>>}
    /\ plan_pc \in {"call", "next", "handling", "disposing", "done"}
    /\ executed \subseteq PlanTasks
    /\ plan_result \in {"none", "refused", "ok", "failed", "cancelled", "recovered", "not_recovered"}
    /\ disposed \in [Ctx -> BOOLEAN] /\ ctx_errors \subseteq Ctx
    /\ inverses \in [Ctx -> Seq(Eff)] /\ pending \in [Ctx -> Seq(Eff)]
    /\ stage \in [Eff -> {"idle", "iterating", "undoing", "registered", "raised", "cancelled"}]
    /\ ectx \in [Eff -> Ctx \cup {Nobody}]
    /\ awaited \subseteq Eff
    /\ log \in Seq(Eff) /\ cut \in [Ctx -> Nat]
    /\ \A e \in Eff : applied[e] \subseteq Steps(e) /\ failed[e] \subseteq Steps(e)
    /\ DOMAIN applied = Eff /\ DOMAIN failed = Eff
    /\ collected \in [Eff -> Seq(Nat)]
    /\ armed \in [Eff -> BOOLEAN]
    /\ undoer \in [Eff -> Ctx \cup {Nobody, "iterator"}]
    /\ left \in [Eff -> Seq(Nat)] /\ tried \in [Eff -> Seq(Nat)]

CordisInit ==
    /\ order = <<>>
    /\ plan_pc = "call" /\ executed = {} /\ plan_result = "none"
    /\ disposed = [c \in Ctx |-> FALSE]
    /\ inverses = [c \in Ctx |-> <<>>]
    /\ pending = [c \in Ctx |-> <<>>]
    /\ ctx_errors = {}
    /\ stage = [e \in Eff |-> "idle"]
    /\ ectx = [e \in Eff |-> Nobody]
    /\ awaited = {}
    /\ log = <<>> /\ cut = [c \in Ctx |-> 0]
    /\ applied = [e \in Eff |-> {}]
    /\ collected = [e \in Eff |-> <<>>]
    /\ armed = [e \in Eff |-> FALSE]
    /\ undoer = [e \in Eff |-> Nobody]
    /\ left = [e \in Eff |-> <<>>]
    /\ tried = [e \in Eff |-> <<>>]
    /\ failed = [e \in Eff |-> {}]

-----------------------------------------------------------------------------
(* Effects *)

\* the task whose handler is running, and the contexts handlers have seen
Current == order[Cardinality(executed) + 1]
Begun == executed \cup (IF plan_pc = "handling" THEN {Current} ELSE {})
Reachable == Begun \cup {s \in Sub : SubOf[s] \in Begun}

\* Mutant of Register: the pair joins the list of its own context only
RegisterOwn(e, c, inv) ==
    /\ inverses' = [inverses EXCEPT ![c] = Append(@, e)]
    /\ stage' = [stage EXCEPT ![e] = "registered"]
    /\ armed' = [armed EXCEPT ![e] = TRUE]
    /\ collected' = [collected EXCEPT ![e] = inv]
    /\ log' = Append(log, e)
    /\ awaited' = awaited \ {e}

\* what effect and async_effect do last: the pair joins the context's list
\* and its parent's -- and no list above that
Register(e, c, inv) ==
    /\ inverses' = [d \in Ctx |-> IF d \in {c, Parent(c)} THEN Append(inverses[d], e)
                                  ELSE inverses[d]]
    /\ stage' = [stage EXCEPT ![e] = "registered"]
    /\ armed' = [armed EXCEPT ![e] = TRUE]
    /\ collected' = [collected EXCEPT ![e] = inv]
    /\ log' = Append(log, e)
    /\ awaited' = awaited \ {e}

\* effect: the mutation and the registration are one step
Effect(e, c) ==
    /\ stage[e] = "idle" /\ c \in Reachable \cap On[e] /\ ~disposed[c]
    /\ ectx' = [ectx EXCEPT ![e] = c]
    /\ applied' = [applied EXCEPT ![e] = {1}]
    /\ Register(e, c, <<1>>)
    /\ UNCHANGED <<planVars, disposed, pending, ctx_errors, cut, undoer, left, tried, failed>>

\* async_effect tests _disposed once, here, before its first await
AsyncEffect(e, c, wait) ==
    /\ stage[e] = "idle" /\ c \in Reachable \cap On[e] /\ ~disposed[c]
    /\ wait => plan_pc = "handling" /\ awaited = {}
    /\ stage' = [stage EXCEPT ![e] = "iterating"]
    /\ ectx' = [ectx EXCEPT ![e] = c]
    /\ awaited' = IF wait THEN awaited \cup {e} ELSE awaited
    /\ UNCHANGED <<planVars, ctxVars, undoVars, collected, armed, log>>

\* the asynchronous generator mutates something and yields its inverse
EffectStep(e) ==
    /\ stage[e] = "iterating" /\ Cardinality(applied[e]) < MaxSteps[e]
    /\ LET s == Cardinality(applied[e]) + 1
       IN /\ applied' = [applied EXCEPT ![e] = @ \cup {s}]
          /\ collected' = [collected EXCEPT ![e] = Append(@, s)]
    /\ UNCHANGED <<planVars, ctxVars, stage, ectx, awaited, armed, log, undoer, left, tried, failed>>

\* the token was cancelled during the step: the loop breaks before it keeps
\* the inverse just yielded, and what was collected is registered
EffectTokenCancelled(e) ==
    /\ stage[e] = "iterating" /\ Cardinality(applied[e]) < MaxSteps[e]
    /\ applied' = [applied EXCEPT ![e] = @ \cup {Cardinality(@) + 1}]
    /\ Register(e, ectx[e], collected[e])
    /\ UNCHANGED <<planVars, disposed, pending, ctx_errors, cut, ectx, undoer, left, tried, failed>>

\* the generator ends; the registration does not look at _disposed again
EffectEnd(e) ==
    /\ stage[e] = "iterating"
    /\ Register(e, ectx[e], collected[e])
    /\ UNCHANGED <<planVars, disposed, pending, ctx_errors, cut, ectx, undoVars>>

\* the generator raises: rollback_collected starts
EffectRaises(e) ==
    /\ stage[e] = "iterating"
    /\ stage' = [stage EXCEPT ![e] = "undoing"]
    /\ undoer' = [undoer EXCEPT ![e] = "iterator"]
    /\ left' = [left EXCEPT ![e] = Reverse(collected[e])]
    /\ UNCHANGED <<planVars, ctxVars, ectx, awaited, collected, armed, log, applied, tried, failed>>

\* the coroutine of a background effect is cancelled: CancelledError is no
\* Exception, so nothing collected is rolled back
EffectCancelled(e) ==
    /\ stage[e] = "iterating" /\ e \notin awaited
    /\ stage' = [stage EXCEPT ![e] = "cancelled"]
    /\ UNCHANGED <<planVars, ctxVars, undoVars, ectx, awaited, collected, armed, log>>

-----------------------------------------------------------------------------
(* Undoing *)

\* one inverse is awaited: it succeeds, or it raises and the mutation stays
UndoStep(e, ok) ==
    /\ undoer[e] # Nobody /\ left[e] # <<>>
    /\ LET s == Head(left[e])
       IN /\ tried' = [tried EXCEPT ![e] = Append(@, s)]
          /\ applied' = [applied EXCEPT ![e] = IF ok THEN @ \ {s} ELSE @]
          /\ failed' = [failed EXCEPT ![e] = IF ok THEN @ ELSE @ \cup {s}]
    /\ left' = [left EXCEPT ![e] = Tail(@)]
    /\ ctx_errors' = IF ~ok /\ undoer[e] \in Ctx THEN ctx_errors \cup {undoer[e]} ELSE ctx_errors
    /\ UNCHANGED <<planVars, disposed, inverses, pending, cut, effVars, undoer>>

\* the last inverse of the effect has run
UndoEnd(e) ==
    /\ undoer[e] # Nobody /\ left[e] = <<>>
    /\ undoer' = [undoer EXCEPT ![e] = Nobody]
    /\ IF undoer[e] \in Ctx
       THEN /\ pending' = [pending EXCEPT ![undoer[e]] = Tail(@)]
            /\ UNCHANGED <<stage, awaited>>
       ELSE /\ stage' = [stage EXCEPT ![e] = "raised"]
            /\ awaited' = awaited \ {e}
            /\ UNCHANGED pending
    /\ UNCHANGED <<planVars, disposed, inverses, ctx_errors, cut, ectx, collected, armed, log, applied, left, tried, failed>>

\* dispose_one, the function an effect returns: synchronous, at most once;
\* F are the inverses that raise
Dispose1(e, F) ==
    /\ armed[e] /\ F \subseteq ToSet(collected[e])
    /\ armed' = [armed EXCEPT ![e] = FALSE]
    /\ tried' = [tried EXCEPT ![e] = @ \o Reverse(collected[e])]
    /\ applied' = [applied EXCEPT ![e] = @ \ (ToSet(collected[e]) \ F)]
    /\ failed' = [failed EXCEPT ![e] = @ \cup F]
    /\ UNCHANGED <<planVars, ctxVars, stage, ectx, awaited, collected, log, undoer, left>>

\* Mutant of BeginDispose: the list is run in the order of registration
BeginDisposeForward(c) ==
    /\ disposed' = [disposed EXCEPT ![c] = TRUE]
    /\ pending' = [pending EXCEPT ![c] = inverses[c]]
    /\ inverses' = [inverses EXCEPT ![c] = <<>>]
    /\ cut' = [cut EXCEPT ![c] = Len(log)]
    /\ UNCHANGED ctx_errors

\* dispose and async_dispose take the list over before they run any of it
BeginDispose(c) ==
    /\ disposed' = [disposed EXCEPT ![c] = TRUE]
    /\ pending' = [pending EXCEPT ![c] = Reverse(inverses[c])]
    /\ inverses' = [inverses EXCEPT ![c] = <<>>]
    /\ cut' = [cut EXCEPT ![c] = Len(log)]
    /\ UNCHANGED ctx_errors

\* a handler, or a coroutine it left behind, disposes a context of its own
DisposeTask(c) ==
    /\ c \in Reachable \cap Disposable /\ ~disposed[c]
    /\ BeginDispose(c)
    /\ UNCHANGED <<planVars, effVars, undoVars>>

\* the caller, who passed the context in, disposes it after execute_plan
DisposeByCaller ==
    /\ plan_pc = "done" /\ ~disposed[PlanCtx]
    /\ BeginDispose(PlanCtx)
    /\ UNCHANGED <<planVars, effVars, undoVars>>

\* Mutant of DisposeNext: the effect is disarmed by nobody before its inverses are awaited
DisposeNextArmed(c) ==
    /\ pending[c] # <<>>
    /\ LET e == Head(pending[c])
       IN /\ undoer[e] # c
          /\ IF armed[e]
             THEN /\ undoer' = [undoer EXCEPT ![e] = c]
                  /\ left' = [left EXCEPT ![e] = Reverse(collected[e])]
                  /\ UNCHANGED pending
             ELSE /\ pending' = [pending EXCEPT ![c] = Tail(@)]
                  /\ UNCHANGED <<undoer, left>>
    /\ UNCHANGED <<planVars, disposed, inverses, ctx_errors, cut, stage, ectx, awaited, collected, armed, log, applied, tried, failed>>

\* dispose_one_async: disarm the next effect of the list, then run its
\* inverses; one that was disarmed before is skipped
DisposeNext(c) ==
    /\ pending[c] # <<>>
    /\ LET e == Head(pending[c])
       IN /\ undoer[e] # c
          /\ IF armed[e]
             THEN /\ armed' = [armed EXCEPT ![e] = FALSE]
                  /\ undoer' = [undoer EXCEPT ![e] = c]
                  /\ left' = [left EXCEPT ![e] = Reverse(collected[e])]
                  /\ UNCHANGED pending
             ELSE /\ pending' = [pending EXCEPT ![c] = Tail(@)]
                  /\ UNCHANGED <<armed, undoer, left>>
    /\ UNCHANGED <<planVars, disposed, inverses, ctx_errors, cut, stage, ectx, awaited, collected, log, applied, tried, failed>>

-----------------------------------------------------------------------------
(* execute_plan *)

Return(r) == plan_pc' = "done" /\ plan_result' = r

\* execute_plan is called; _public_api_impl.py refuses a task with no
\* asynchronous handler before it starts
CallPlan(o) ==
    /\ plan_pc = "call" /\ plan_pc' = "next" /\ order' = o
    /\ UNCHANGED <<executed, plan_result, ctxVars, effVars, undoVars>>

Refuse ==
    /\ plan_pc = "call" /\ Return("refused")
    /\ UNCHANGED <<order, executed, ctxVars, effVars, undoVars>>

StartTask ==
    /\ plan_pc = "next"
    /\ Cardinality(executed) < Len(order) /\ Deps[Current] \subseteq executed
    /\ plan_pc' = "handling"
    /\ UNCHANGED <<order, executed, plan_result, ctxVars, effVars, undoVars>>

\* the except branch of execute_plan; continue_on_error is read only here
FailPlan(continue_on_error) ==
    IF continue_on_error
    THEN Return("failed") /\ UNCHANGED ctxVars
    ELSE plan_pc' = "disposing" /\ UNCHANGED plan_result /\ BeginDispose(PlanCtx)

\* a task listed before one it depends on
Blocked(continue_on_error) ==
    /\ plan_pc = "next"
    /\ Cardinality(executed) < Len(order) /\ ~ (Deps[Current] \subseteq executed)
    /\ FailPlan(continue_on_error)
    /\ UNCHANGED <<order, executed, effVars, undoVars>>

HandlerReturns ==
    /\ plan_pc = "handling" /\ awaited = {}
    /\ executed' = executed \cup {Current}
    /\ plan_pc' = "next"
    /\ UNCHANGED <<order, plan_result, ctxVars, effVars, undoVars>>

HandlerRaises(continue_on_error) ==
    /\ plan_pc = "handling" /\ awaited = {}
    /\ FailPlan(continue_on_error)
    /\ UNCHANGED <<order, executed, effVars, undoVars>>

\* cancelling the handler cancels the iteration it is waiting for, and what
\* that iteration had collected is dropped; a rollback under way is waited for
CancelAwaited ==
    /\ \A e \in awaited : stage[e] = "iterating"
    /\ stage' = [e \in Eff |-> IF e \in awaited THEN "cancelled" ELSE stage[e]]
    /\ awaited' = {}
    /\ UNCHANGED <<ectx, collected, armed, log>>

\* Mutant of HandlerTimesOut: the timeout does not interrupt what the handler waits for
HandlerTimesOutLate(continue_on_error) ==
    /\ plan_pc = "handling" /\ awaited = {}
    /\ CancelAwaited
    /\ FailPlan(continue_on_error)
    /\ UNCHANGED <<order, executed, undoVars>>

\* asyncio.wait_for ends every handler: the wrapper always passes a timeout
HandlerTimesOut(continue_on_error) ==
    /\ plan_pc = "handling"
    /\ CancelAwaited
    /\ FailPlan(continue_on_error)
    /\ UNCHANGED <<order, executed, undoVars>>

\* execute_plan itself is cancelled: no except branch takes CancelledError
RunCancelled ==
    /\ plan_pc = "handling"
    /\ CancelAwaited
    /\ Return("cancelled")
    /\ UNCHANGED <<order, executed, ctxVars, undoVars>>

AllExecuted ==
    /\ plan_pc = "next" /\ Cardinality(executed) = Len(order)
    /\ Return("ok")
    /\ UNCHANGED <<order, executed, ctxVars, effVars, undoVars>>

\* async_dispose of the plan's context came to its end
Recovered ==
    /\ plan_pc = "disposing" /\ pending[PlanCtx] = <<>>
    /\ Return(IF PlanCtx \in ctx_errors THEN "not_recovered" ELSE "recovered")
    /\ UNCHANGED <<order, executed, ctxVars, effVars, undoVars>>

-----------------------------------------------------------------------------
EffectAction(e) ==
    \/ \E c \in Ctx : Effect(e, c) \/ \E wait \in BOOLEAN : AsyncEffect(e, c, wait)
    \/ EffectStep(e) \/ EffectTokenCancelled(e) \/ EffectEnd(e) \/ EffectRaises(e) \/ EffectCancelled(e)
    \/ \E F \in SUBSET Steps(e) : Dispose1(e, F)

Undoing(e) == UndoEnd(e) \/ \E ok \in BOOLEAN : UndoStep(e, ok)

Executor ==
    \/ \E o \in Order : CallPlan(o)
    \/ Refuse \/ StartTask \/ HandlerReturns \/ RunCancelled \/ AllExecuted \/ Recovered
    \/ \E c \in BOOLEAN : Blocked(c) \/ HandlerRaises(c) \/ HandlerTimesOut(c)

CordisNext ==
    \/ Executor
    \/ DisposeByCaller
    \/ \E c \in Ctx : DisposeTask(c) \/ DisposeNext(c)
    \/ \E e \in Eff : EffectAction(e) \/ Undoing(e)

(* The event loop runs every ready callback: execute_plan's own steps, the  *)
(* timer of wait_for, the disposal loops and the inverses they await go on. *)
(* Nothing makes a handler return or a background effect progress.          *)
CordisFairness ==
    /\ WF_cordisVars(StartTask \/ AllExecuted \/ Recovered \/ \E c \in BOOLEAN : Blocked(c))
    /\ WF_cordisVars(\E c \in BOOLEAN : HandlerTimesOut(c))
    /\ \A c \in Ctx : WF_cordisVars(DisposeNext(c))
    /\ \A e \in Eff : WF_cordisVars(Undoing(e))

CordisSpec == CordisInit /\ [][CordisNext]_cordisVars /\ CordisFairness

-----------------------------------------------------------------------------
(* Every inverse is tried at most once, and those of one effect in the      *)
(* reverse of the order they were collected in: three callers may race to   *)
(* undo an effect -- its own dispose function, its context and the parent's *)
(* -- and dispose_one_async awaits in the middle.                           *)
UndoneOnceInReverse ==
    \A e \in Eff :
        /\ IsPrefix(tried[e], Reverse(collected[e]))
        /\ stage[e] = "registered" /\ ~armed[e] =>
              tried[e] \o left[e] = Reverse(collected[e])

(* A disposal undoes in the reverse of the order of registration, its       *)
(* children's effects included: while it undoes one effect, every effect    *)
(* registered after that one under the same context, or under a child of    *)
(* it, before the disposal began is out of place already.  (The plan's list *)
(* merges the tasks' lists, which handlers and background coroutines append *)
(* to in any interleaving.)                                                 *)
Under(e, c) == ectx[e] = c \/ (ectx[e] # Nobody /\ Parent(ectx[e]) = c)
InPlace(e) == ~ (applied[e] \cap ToSet(collected[e]) \subseteq failed[e])

LaterUndoneFirst ==
    \A c \in Ctx : \A i, j \in 1..cut[c] :
        i < j /\ undoer[log[i]] = c /\ Under(log[j], c) /\ undoer[log[j]] = Nobody => ~InPlace(log[j])

(* recovered=True is returned only when every effect run under a task's     *)
(* context -- awaited or in the background, by this task or an earlier one  *)
(* -- that was registered before the disposal began is undone: the          *)
(* exceptions are an inverse that had already raised in an earlier disposal *)
(* (it is disarmed and never retried) and an effect that another coroutine  *)
(* is still undoing.                                                        *)
RecoveredUndone ==
    plan_result = "recovered" =>
        \A i \in 1..cut[PlanCtx] :
            ectx[log[i]] \in PlanTasks /\ undoer[log[i]] = Nobody => ~InPlace(log[i])

(* execute_plan, once called, returns: the wrapper gives every handler a timeout,  *)
(* and its disposal gets to the end of its list whatever the handlers'      *)
(* coroutines do to the effects on it meanwhile.                            *)
PlanSettles == (plan_pc = "next") ~> (plan_pc = "done")
=============================================================================
