# TLA+ models of prime-agent-plan

Prime Agent Plan turns a task into a plan, reviews and validates it, authorizes
it, and runs it so that what it did is either witnessed and committed or undone
and contained. These modules model the part of the program that carries that
promise, `src/src/plan_mode/`, beginning with the transactional runtime. Paths
below are relative to that directory unless they say otherwise.

## 1. The system

| Component | State | Operations | Talks to |
|---|---|---|---|
| Planning session (`session.py`, `authorization_compat.py`) | `current_state`, versions, best/authorized/committed version, certificate, attestation of the last execution | submit_draft, validate_candidate, select_version, authorize_selected, start_execution, record_execution_result, commit_execution | validator, registry, transactional manager |
| Capability registry, plan IR (`registry.py`, `ir.py`, `fact_identity.py`) | capabilities, verifiers, compensations; immutable plans | register, get, validate_action, hashes | everything |
| Validators (`epistemic_validator.py`, `causal_validator.py`) | none: functions of a plan and a snapshot | normalize_trusted_snapshot, validate_plan | session |
| Transactional manager (`runtime/transaction.py`, `runtime_closure_execution.py`, `runtime_closure_context.py`) | open / retained / closed, transaction id, bound workspace, certificate-to-workspace table | execute_and_finalize, close | session, executor, ledger, sandbox |
| Executor and attestation (`runtime/executor.py`, `runtime_closure_attestation.py`) | `live_world_state`, attestations | execute_authorized_plan, witness_postconditions | sandbox, ledger, session |
| Evidence ledger (`runtime/ledger.py`) | hash-chained records | append_record, verify_integrity | manager, executor |
| Sandbox (`runtime/sandbox.py`, `runtime/isolation_identity.py`, `runtime/secret_scrubber.py`) | workspace directory, policy | execute_argv_pipeline | operating system |
| Session store (`_api_impl.py`, `runtime_closure_session.py`, `runtime_closure_validation.py`) | one JSON file per planning session, lock table | session_lock, load, save, assess, checkpoint, rewind, compress_history, fold_history | files, other processes |
| Release and finish (`runtime_closure_public.py`, `followup_hardening.py`, `api_hardening*.py`, `_public_api_impl.py`) | judge log and release gate in the session file | record_judge, judge_ensemble, release, finish, assess wrapper | session store |
| Cordis (`cordis.py`, `followup_hardening.py`) | contexts with their inverses, services, fibers | effect, async_effect, dispose, async_dispose, provide, withdraw, execute_plan | event loop, threads |
| Recovery (`recovery.py`, `recovery_graph.py`) | report of a rollback, repair route | execute_saga_rollback, route | session, ledger, sandbox |
| Isolation manager (`isolation.py`) | log of artifact versions | acquire, release, detect_conflicts | agents |
| Search, self verification, judges (`search_engine.py`, `ast_search.py`, `ir_search.py`, `self_verification.py`, `judges.py`, ...) | search tree, scores, votes | select, expand, back-propagate, Best-of-N, ensemble | model calls |
| Execution trace and contract (`execution_trace.py`, `_execution_contract_impl.py`, ...) | list of events | validate, verdict | release gate |
| Probing, distiller, entry points, benchmarks | little or none | | |

How they interact: the public functions are one object patched in layers
(`_api_impl`, `api_hardening`, `api_hardening_compat`, `followup_hardening`,
`authorization_compat`, `_public_api_impl`, `runtime_closure*`), so an operation
is what is left after the last layer. Every definition here is translated from
that final behaviour, across the layers.

What is hard, and what makes each component correct:

* **Transactional runtime.** Several managers may share one session, certificate
  and ledger; commands fail half-way; the registry, policy, workspace and clock
  move under a running call; the process may be interrupted. Correct means:
  dispatch and compensation keep their order, each reported outcome means what
  it says, one certificate acts in one workspace, a commit rests on what the
  same call witnessed, and every call ends.
* **Planning session.** Legal calls in unusual orders: resubmission after a
  terminal state, revalidation of the selected version, re-authorization.
  Correct means: what is executed is what was validated as PASS and authorized
  last, once.
* **Session store and release gate.** Threads and processes on one file, lock
  sections that cover only part of an operation. Correct means: no update is
  lost, and a session marked finished by the gate is one that passed it.
* **Cordis.** Disposal racing an awaited effect, a timeout, or another disposal;
  services that activate and deactivate components in chains. Correct means:
  after disposal every registered effect has been undone, once, in reverse order,
  and a component runs exactly while what it needs is there.
* **Validators.** Truths that expire, conflict or cannot be witnessed; files with
  two names. Correct means: a plan that passes works, in every world that agrees
  with what was observed.
* **Trace gate.** Evidence by the executor, a workspace others write to. Correct
  means: release passes only what it observed itself, on one story.
* **Recovery, journal, isolation, search, choice.** Repeated calls, failures
  half-way, stale answers. Correct means agreement with a short definition of the
  result.

The hazards are listed, line by line, in `PROJECT.json`.

## 2. Modules

| Module | What it is |
|---|---|
| `SessionStates` | `SessionState`, the table `VALID_TRANSITIONS` and `transition_to` (`CanMove`) |
| `Transaction` | the transactional manager with its executor, attestation and commit gate; properties; inductive invariant |
| `Saga` | the abstract specification: a transaction is a saga |
| `PlanSession` | one planning session from draft to commit over several versions and certificates |
| `PlanSessionProofs` | its type correctness and its three safety properties |
| `MCPlanSession` | two plans, worlds and registries for TLC |
| `SessionStore` | the session file and the callers that plan, judge, release and finish on it |
| `SessionStoreProofs` | its type correctness and its three safety properties |
| `MCSessionStore` | two callers and two plan texts for TLC |
| `MCTransaction` | the plans, managers and workspaces TLC runs |
| `TransactionProofs` | type correctness, the inductive invariant, the safety theorems, and that every transaction is a saga |
| `TransactionManagersProofs` | what several managers do to one session: one workspace, final commits, true beliefs |
| `Cordis` | revertible effects, disposal, and the plan executor on them |
| `Services` | provider stacks, realms, and fibers that depend on services |
| `CordisProofs` | the safety properties of `Cordis` and of `Services` |
| `Epistemic` | the epistemic validator beside a possible world |
| `CausalPlan` | the validator of textual plans beside the world a plan runs in |
| `PlanningProofs` | that what the two validators say of a plan is so, and that the search keeps its tree sound |
| `TraceGate` | the execution-evidence check of release |
| `Isolation` | the log of artifact acquisitions and its conflict detection |
| `Journal` | the effect journal of `edit_file` and `rollback` |
| `Recovery` | the stand-alone saga rollback |
| `SearchTree` | the plan search and its tree |
| `SelfVerification` | the choice among candidate plans |
| `Ascending` | a finite set of numbers as a list in ascending order: what a filter over the places of a list returns |
| `AscendingProofs` | that `InOrder` lists exactly the members, ascending; least and greatest members |
| `ComponentProofs` | the safety properties of `TraceGate`, `Isolation`, `Recovery`, `SelfVerification` and `Journal` |
| `MCComponents` | the modules from `Cordis` on, side by side, for TLC |
| `MCSearch` | a search with room for a plan to be pruned |

### State and code

| Variable | Code |
|---|---|
| `state`, `success`, `attestedHash` | `session.current_state`, `last_execution_success`, `last_execution_world_state_hash` |
| `boundTo` | the certificate's entry of `CERTIFICATE_WORKSPACES` |
| `ledger` | the records of the `EvidenceLedger` that decisions or properties read, each with its transaction id |
| `world` | truth of each fact in the bound workspace |
| `mgr` | manager open, holding a retained workspace, or closed |
| `live` | `executor.live_world_state`; MISSING stands for an absent fact and for UNKNOWN and CONFLICT |
| `pc`, `step`, `pend`, `observed`, `undo`, `outcome` | where the call is, the loop variables of the executor and of the compensation loop, and what the call returned |
| `drift` | which of registry, policy, isolation policy, workspace no longer match the certificate, whether it expired, whether the ledger was altered |

A transaction `t` is one call of `execute_and_finalize`; calls on one manager
follow each other, calls on different managers interleave between any two
actions of the model. One action of the model is a stretch of the code that ends where
another actor's effect can matter: a command, a verifier, a read or write of the
session, a ledger decision. Names follow the code; `PROJECT.json` maps each
definition to its lines.

Abstractions. A capability is its preconditions, effects, verifiers and the
literals its command may additionally make true (`side`). Running a command may
make any subset of its literals true, whether it exits 0 or not (`Reached`). A
verifier `<<f, b>>` passes when fact `f` has truth `b`. Hash comparisons are the
answer they give: `drift` holds the identities that differ. A world-state hash is
the state itself. After `registry` drift, commands and verifiers may do anything
to the declared facts.

`PlanSession` looks at the same session from its own side, where `Transaction`
has one authorized plan and many calls:

| Variable | Code |
|---|---|
| `state`, `versions`, `candidate`, `authorized`, `committed` | fields of `PlanningSession`; a version is its current `plan_ir`, its `plan_hash`, the status of its validation and the snapshot validated in |
| `cert` | `authorization_certificate`, numbered in order of issue |
| `success`, `attested`, `attestedFor` | the attestation of the last execution |
| `registry` | the contents of the registry callers pass in |
| `spent`, `judged`, `witness` | history: certificates an execution was started with, the content each version had when it was last validated, and the certificate under which success was last recorded |

One action is one method call (methods are synchronous and a session is not
shared between threads). The manager appears as the moves it makes the session
perform (`RecordExecutionResult`, `CommitExecution`, `Settle`); `Settle` may
leave EXECUTING for any of the states the table allows a failing execution. A
caller may edit a submitted plan in place (`Edit`; `PlanVersion` is frozen but
its `PlanIR` is not), change the registry, and let the certificate expire at any
point. `Edits` says whether an edit may be undone.

`SessionStore` is the older, file-based session. The public functions are patched
in layers; the model has what is left after the last one:

| Variable | Code |
|---|---|
| `file` | the JSON of one session: `rounds` (text and score), `best_version`, `status`, `replan_pending`, `committed_version`, `committed_plan_hash` (`promised`), `judge_log`, `history_folded`, `checkpoints`, `max_rounds` (`max`) |
| `lock` | who holds `session_lock` |
| `mem[a]` | the session dict caller `a` has in hand: what its call loaded, or, for a caller in `Holders`, the dict it passes to every call |
| `pc[a]`, `topic[a]` | where its call is, and the text it assessed or has judged |
| `heard`, `raced` | history: texts, or versions that did not exist yet, some "go" was about, and callers whose finish another caller's save overtook after its release |

A call that loads, works and saves inside the lock is `Begin` followed by one
action. Where the code saves more than once, or outside the lock, each save is an
action: `assess` (`Assess`, then `ReadStatus` and `PersistStatus` by its wrapper),
`judge_ensemble` (`AskJudges` before the await, `RecordEnsemble` after it),
`release` (`Release` saves the cut-down judge log, `RestoreJudges` the whole one)
and `finish` (`BeginFinish` takes the lock a second time). `Crash` is the caller's
process dying, a cancelled await, or the lock's TimeoutError.

Abstractions. A text is a model value and stands for its hash. Its score is a
constant; `Sound` has the texts that pass `verify`, `ground_check` and
`simulate`. `open` is any mechanical critique the text meets, `addressed`
whether the revision addresses the pending replan, `long` whether the history is
above the token budget, `others` the optional checks of `release`. `release` and
`finish` are called with their defaults (a judge and a release are required).
`record_judge` takes a verdict for any version; where there is no such round the
verdict has no hash (`text` is `None`). The vote `judge_ensemble` records is its own
or one recorded earlier, which then keeps its own version and hash (`Votes`).
Left out are verdict dicts in which the caller of `record_judge` itself overrides
`round_version` or `plan_hash`, and verdicts for version 0, which release never
counts.

The other components keep their state in one object each, and their modules name
it as the code does:

| Module | State and code | One action is |
|---|---|---|
| `Cordis` | `disposed`, `inverses`: fields of each `Context`; `stage`, `collected`, `armed`: the local variables of a call of `effect` or `async_effect`; `pending`, `left`: what a running `async_dispose` and `dispose_one_async` still have to do; `executed`, `plan_pc`, `plan_result`: `execute_plan` | what happens between two awaits |
| `Services` | `providers`, `store`: `_providers`, `_store`; `fiber_state`, `own`: each fiber's state and what its active context provides; `frames`: the calls that have not returned, the innermost last (`notify`; `apply`, a running `apply_fn`; `dispose`, of an active context; `order`, a withdrawal's `_dfs` and the loop over what it found) | one operation of the root context when nothing runs, or the next step of the innermost call |
| `Epistemic` | `facts`: `current_state`; `sim_steps`: the actions simulated; `clock`: `current_sim_time`; `unknown`: whether `unknown_facts` is non-empty | an observation, the snapshot, the planner's claims, one action of the plan, the verdict |
| `CausalPlan` | `state` (strings: `Key(x)` for a proposition or `exists(f)`, `Path(f)` for the bare path), `produced`, `flaws` | one task |
| `TraceGate` | `expected`: the identity release read; `copy`: the snapshot; `queue`, `spent`: the contract's commands and their budget | a file copied, a command run, an audit; other processes write in between |
| `Isolation` | `records`, `versions` | one method (all take the lock) |
| `Journal` | `files`, `lines`, `ended` (whether the journal ends with a newline) | one read or write of a file; callers may stop between any two, or in the middle of one |
| `Recovery` | `steps`: the steps handed in, `session`, `to_undo` | one compensation, or one return |
| `SearchTree` | `tree`: the session's `search_tree`; `search_pc`, `sel`, `variants`, `frontier`, `best_found`, `top`: where a search is and its local variables | one variant added, one prune, one turn of a loop |
| `SelfVerification` | `found`, `eligible`, `selected`: `candidate_statuses`, `eligible_indices`, `selected_index` | one validation, one answer of the model |

`Epistemic`, `CausalPlan` and `TraceGate` carry a second, real world as history,
and their properties relate the code's verdict to it. In `Epistemic` the world
agrees with each trusted observation while that lasts and is arbitrary
elsewhere. It drifts during actions as well: `Simulate` goes from the end of one
action to the end of the next, so an observation may run out while the action runs,
after the code has looked at it for the last time. An action makes its effects
certain only when a verifier can witness them. In `CausalPlan` the world applies
each task's deletes and adds, whatever
name they were given, while the validator's state follows the names: `exists(f)`,
an output or an initial fact stands for both names of a file, an effect that gives
the bare path for the path alone (a file is taken to have an extension, without
which the initial state gives it one name only). In `Isolation`, `Journal` and `Recovery` the reference is
the history or the world itself.

Abstractions. Effects in `Cordis` mutate in numbered steps and an inverse
succeeds or raises; threads are left out, everything runs on one event loop. In
`Services` the methods call each other, so a stack of frames stands for the
interpreter's; its contexts belong to one event loop as well. In
`SearchTree` a text has a value of its own, UCB may choose any child, and mean
values are exact fractions where the code has floats. In `Recovery` what is
wrong with a compensation is one datum of the step (`flaw`). In
`SelfVerification` the registry and the clock together are a `moment`, and a
moment decides each candidate's status.

### The abstract specification

`Saga` knows, per transaction, a phase and the set of effectful steps in place.
Steps are taken forward in order and undone from the last; a commit needs all of
them in place, a rollback none, a clean failure none, containment some; an
exception loses track of the rest. `ImplementsSaga` maps the phase from `pc` and
`outcome`, and the steps in place from the ledger: dispatched with effects, not
verifiably compensated.

## 3. Runs

The `Transaction` runs use three facts and a plan of three actions: `install` (one effect,
with an undo that is itself conditional), `probe` (no effect) and `swap` (one
positive and one negative effect). That is the smallest plan with an effectless
action between effectful ones, an action with two effects witnessed one after the
other, and a compensation that may become impossible. Nothing counts upwards
except the step index, so no state constraint is used; the bounds are the number
of calls, managers, actions and facts.

| Run | Question | Instance |
|---|---|---|
| `one_call` | does one call keep its order and its word while everything drifts? | one call, all eight disturbances |
| `managers` | does a certificate stay in one workspace, and does a committed plan stay committed, over repeated and concurrent calls? | three calls, two managers with workspaces of their own; registry, workspace and ledger may drift |
| `shared` | two managers in one workspace: is every call still a saga, does it commit only its own work, does it end? | two calls, policy may drift |
| `commit_or_undo` | (violation) does a committed plan stay when managers share a workspace? | two calls, nothing drifts |
| `polarity` | (violation) are beliefs right when a verifier of the other polarity is registered? | one call |
| `final_audit` | (violation) do the mandatory criteria hold at the commit when a later action disturbs them? | one call |

| `plan_session` | is what is executed and committed what was validated and authorized last? | one session: two plan contents, worlds (one with perishable facts) and registries, two versions, two certificates |
| `plan_session_undone` | (violation) the same when an edit may be undone | the same |
| `session_store` | do stale copies, unlocked saves, crashes, folding and rewinds ever lose a best or committed text, or commit or finish what was not judged and released? | a planner by session id, a judge with a dict; `max_rounds` 1 or 2, two texts, three rounds, two verdicts and a checkpoint |
| `lost_update` | (violation) is every update of the session made under the lock? | two planners by session id |
| `components` | does each remaining component keep its promise under every order of calls, failures and inputs? | the ten modules side by side, see below |
| `search_best` | (violation) does a search return the best plan it found? | one Monte Carlo search, width 2, three iterations |

The bounds of `plan_session` are `MaxVersion` and `MaxCert`, in the guards of
`SubmitDraft` and `AuthorizeSelected`. Two versions are enough for a candidate
that differs from the authorized version, two certificates for an execution that
follows another; the theorems of section 4 have no such bound.

The lists of `SessionStore` are bounded in the guards: `RoundBound`,
`JudgeBound`, `CheckpointBound`. Three rounds are needed for a history to be
folded, one checkpoint for a version number to be reused. `max_rounds` is 2, so
that a session converges, is released and can still grow, or 1, so that a session
with one round may be released. Two verdicts let the ensemble record an earlier
one again. The better text is
the unsound one, so a judged text and a releasable one differ. The constraint
`Narrow` keeps two callers in the middle of a call from exploring checkpoints, logged failures,
second verdicts and third rounds together; a caller on its own reaches checkpoints and third rounds, also
after what both did before, but two verdicts only on sessions of one round and without a checkpoint,
and verdicts without a hash on sessions of two rounds and without a checkpoint. The theorems have none of these bounds.

`components` holds ten independent systems. They share no state in the code, so
they are not interleaved: `part`, chosen in the initial state, says which of them
moves, and each property is about its own part. The bounds are in `MCComponents`:

* `Cordis`: two tasks, the second depending on the first and listed after or
  before it; one effect of two mutations on the first task, one of one mutation
  on the second or on a context the first derived. Handlers may dispose the
  first task's context. That is enough for an effect to be undone by its own
  function, by its task's context and by the plan's, for a disposal to overtake
  an awaited effect, and for a list to merge two tasks' effects.
* `Services`: three fibers, each of which needs what the root or another fiber
  provides, so that withdrawals, notifications and activations nest in each
  other; one fiber in an isolated realm; three keys, two services of the root that
  fibers provide as well, components that start to raise. In it fibers do become
  active without a dependency (`stale`) and do lose services to a
  withdrawal (`dropped`). A fiber that is stopped without its service within the
  operation that activated it (`revived`) needs F to provide `b` too and H to
  provide `a` too: 450,578 states instead of 253,710, in which the same properties hold.
* `Epistemic`: two facts, one with an argument; lifetimes 0, 2 and none
  (`Forever`) against durations of 0 to 2; plans of up to three of seven actions, among them one that
  breaks its contract, one that has none and one that only takes time; a constraint that ends.
* `CausalPlan`: six tasks over a proposition and two files of one stem, one of them
  added, deleted and required by either name; plans of
  up to three, numbers 1 to 3 in any order that can be sorted; a goal that asks for
  or denies one name.
* `TraceGate`: two outputs (one audited), two commands and an exit criterion, a
  budget that two commands use up, seven reports each wrong in one way or none,
  one replacement of the workspace.
* `Isolation`: two places, two agents, three records, ties in time.
* `Journal`: two callers, two files, two edits, rollbacks of 0, 1 or 2 entries.
* `Recovery`: two steps with three kinds of flaw, two calls.
* `SearchTree`: three texts with the root in the middle, width 1, depth 2, three
  nodes, two searches of any of the three algorithms in a row.
* `SelfVerification`: three candidates, three moments, a budget that two
  candidates fit into and three do not.

Two providers, two callers, two calls, two searches are each the least with
which something old can be met again.

What the passing runs show. `one_call`: whatever drifts and whenever it is
interrupted, a call dispatches in order, compensates in reverse, reports
ROLLED_BACK only when each dispatched effect was verifiably undone, FAILED only
when none was dispatched, CONTAINMENT_FAILED only when one is left; between
actions the manager believes nothing false, and a commit happens only when its
criteria hold, provided verifiers have the effect's polarity and commands do
what they declare (the two violation runs drop these provisos one at a time).
`managers`: `boundTo` lets one workspace act; a second call on a manager reads
only its own dispatches; a returned summary agrees with the session.
`shared`: the session is raced for, and still no call commits what it did not
witness itself, and no call hangs.
`plan_session`: resubmission, revalidation, reselection and re-authorization in
any order, with the registry, the plans and the clock moving, never lead to the
execution of something the validator did not pass in the certificate's world; an
ended execution cannot be started again under its certificate, nor can its
result serve a later commit of the same version.
`session_store`: however old the copy a caller saves, the file is a session whose
best and committed texts are there and whose commit was judged (but for the one
exception below); what concurrency
can do is take back other callers' updates (`lost_update`) or let a finish be
overtaken between its release and its mark. `FinishIsReleased` leaves out exactly
the latter: `finish` takes the lock twice, although its own docstring
(`_api_impl.py:1261`) speaks of full session locking across release validation.

`components`: inverses run once and in reverse whoever races to run them, a plan's
disposal ends and undoes every registered effect of its tasks, and, when an operation
returns, a component is active only with its services there, in its own realm. A plan that passes the
epistemic validator works in every world that agrees with its observations while
they last, and a well-numbered textual plan has no causal flaw exactly when it runs to its goal,
each but for the exceptions below.
The trace gate passes nothing it did not see in the one workspace release named.
Conflict detection, the journal, the rollback, the search tree and the choice
among candidates agree with their definitions. What each property leaves out is
said in its comment, because the code really does otherwise there:

* `CommitJudged`: a verdict for a version that does not exist yet has no hash, and
  `release` keeps verdicts without one while the session has at most one round
  (`followup_hardening.py:416`). With `max_rounds` 1, a go recorded for version 1
  before the first `assess` commits a text no judge saw. The property admits this for
  version 1, and for no other: without the exception TLC finds the case.
* `PassHolds`: freshness is checked at the start of each action only
  (`epistemic_validator.py:331`), while the constraints are judged, and after the
  last action the success criteria (`:595`), on the state at its end. A constraint
  or a criterion on a fact whose observation runs out during that very action is
  therefore trusted unseen, and excepted (`RunsOut`); an observation that ran out
  earlier is not. And a second observation of a fact is merged into the first, which
  keeps its lifetime, so a later truth may be believed for longer than it lasts
  (`borrowed`).
* `CausalVerdict`: an effect that gives a file's bare path changes the path alone
  (`causal_validator.py:467-484`). A task that deletes a file that way leaves
  `exists(f)` in the state, and a plan may pass on a file that is gone. A task that
  adds one that way leaves `exists(f)` out: a plan that works may be reported as
  clobbered, or its goal as unreached, and a goal that denies `exists(f)` may be
  reported as met.
* `ActiveSatisfied`: `_notify` passes over a fiber that is RELOADING, and nobody
  looks again when its `apply_fn` returns. A fiber whose dependency goes while it
  is being activated (its own `provide` can set that off) becomes ACTIVE
  without it (`stale`).
* `ServicesOfActive`: a withdrawal ends with `_store.pop` and `_providers.pop`
  (`cordis.py:444`), which discard whatever the realm holds by then: also the
  service of a fiber that came back during the withdrawal, which stays ACTIVE
  while nobody finds what it provides (`dropped`).
* `WithdrawnLast`: a fiber may be activated once more inside the withdrawal that
  stopped it; its second cleanup runs after the service is gone (`revived`). So
  does that of a fiber that became active without it (`stale`).
* `ConflictsExact`: an agent that holds a read and a write counts by the later of
  the two; the optimistic mode reports nothing at all, since versions are unique.
* `Recoverable`: a crash between a file and its entry, or an entry appended to a
  journal whose last newline a rollback removed (both entries are lost).
* `RecoveredUndone`: an effect cancelled by its handler's timeout. Its collected
  inverses are dropped, because `except Exception` (`followup_hardening.py:229`)
  does not see CancelledError, and `execute_plan` still reports that all
  mutations were rolled back. Nor does it speak of effects that
  `continue_on_error` or a cancelled `execute_plan` leave in place.
* `RolledBackClean`: steps that failed, or were not witnessed, are never
  compensated and may leave effects behind a ROLLED_BACK.

One case is left out of `managers` on purpose: an interrupt followed by a second
call on the same manager. The second call dispatches nothing, reports FAILED and
closes the manager, which destroys the workspace retained for the interrupted
call. No document promises otherwise; the case is listed as a hazard.

Deadlock checking is off: a call that has returned stays returned and a finished
system stops.

**Fairness.** `LiveSpec` asks that each call that has begun keeps taking steps
(`WF_vars(Progress(t))`). It is justified because `execute_and_finalize` is a
straight-line synchronous function with no lock wait after its entry, and the
commands and verifiers it runs are bounded by timeouts of the sandbox. No
fairness is asked of callers, of the environment or of interrupts.

`CordisFairness`, for `PlanSettles`, asks for what one event loop gives: the
steps of `execute_plan` itself, the timer of `asyncio.wait_for` (the public
wrapper replaces a missing `timeout_per_task` by 60 s and refuses one that is
not positive), the disposal loops and the inverses they await are run when they
are ready. No fairness is asked of handlers or background effects: they may hang.
An inverse that never returns would be an exception to this; the code has no
timeout for it, so it is assumed to return or raise.

### Disagreements between code and documents

1. `commit_or_undo`: a certificate may be executed by two managers in one
   workspace; the call that finds the session already COMMITTED compensates its
   own dispatches, undoing the committed plan's effects. See
   `docs/TARGET_SECURITY_MODEL.md:24`.
2. `polarity`: `expected_truth` of a verifier is not part of the runtime match,
   against the docstring at `registry.py:37`.
3. `final_audit`: the commit reads recorded beliefs where `README.md:101` of the
   repository draws a final audit by the verifier.
4. `plan_session_undone`: authorization compares the plan with its hash at
   submission, which `validate_candidate` copies, where
   `authorization_compat.py:3` promises to reject mutation after validation. For
   the same reason the revalidation its message asks for cannot help.
5. `lost_update`: the public `assess` saves the converged status without the lock
   `SKILL.md:235` says every mutation takes, and with it whatever it loaded.
6. `search_best`: `search` promises "the best plan found" (`search_engine.py:476`),
   but `prune` goes by mean value and may delete the plan of highest value, and
   the result is looked up among what is left.

## 4. Proofs

The theorems about `Transaction` hold for every value of the constants that
satisfies `TransactionAssumption`: any number of calls, managers, workspaces, facts and
actions, any contracts, and all disturbances.

* `TypeCorrect`: the type invariant.
* `CallsCorrect`: the inductive invariant `CallInv`. The safety properties speak
  of ledger records only and are not inductive: that an action was not dispatched
  before its predecessors were witnessed depends on where the loop is.
  `ProgressInv` therefore ties `step` and `pc` to the dispatch and witness
  records, `UndoInv` ties `undo` to the records of compensation (it is exactly
  the set of effects still in place, and what has been undone is a suffix of the
  plan), and `OutcomeInv` says what a finished call left behind. The proof rests
  on `Appended` (a new record changes one call's records only) and `Undisturbed`
  (a step of another call, the environment or the session leaves a call's
  invariant alone), so concurrency costs one lemma.
* `CommitsAreWitnessed`, `DispatchesInOrder`, `CompensatesInReverse`,
  `RollbacksAreComplete`, `FailuresAreUntouched`, `ContainmentsAreJustified`:
  the checked properties, as consequences.
* `RefinesSaga`: initial states map to initial states, and each action maps to a
  saga action of the same call or to a stutter.

`PlanSessionProofs`, for every set of plans, worlds, registries and policies and
every bound: `SessionTypeCorrect`, `AuthorizedWasJudged` (with `Edits = "kept"`),
`StartsOnce` and `CommitsAreEarned`. `AuthorizedIsJudged` speaks of AUTHORIZED
and EXECUTING only; the invariant `IInv` adds what must hold earlier for it to be
reached: `VersionInv` (a version as submitted that has a result was judged as
submitted), `SelectedInv` (a selected candidate has passed) and `SpentInv` (an
authorized certificate is unspent, an executing one spent, and a recorded success
is its own).

`TransactionManagersProofs` adds what several calls do to one session. All its
theorems hold for any number of calls, managers and facts; their hypotheses are
conditions on the constants, and where one is dropped a violation run shows what
happens.

* `OneWorkspaceActs`: no hypothesis. `BoundInv` says that whoever has begun or
  dispatched works in the workspace the certificate is bound to.
* `CommitsAreFinal`: if no two managers share a workspace (`ManagersApart`; the
  run `commit_or_undo` drops this). Then the binding admits one manager, so one
  call acts at a time (`OneActive`) and `SessionInv` can tie the session's state
  to where that call is and to what it left behind when it ended.
* `SummariesSettle`: `ManagersApart`, and nobody interrupts. An interrupt leaves
  the session half-way, and the next call on the manager reports FAILED of a
  session that is EXECUTING. `FailedInv` says that a compensating session has
  a call that compensates, and that a call that failed was the last.
* `BeliefsAreSound`, `CommitsMeetCriteria`: `ManagersApart`, nothing follows an
  interrupt (`NoneFollows`), and commands do what they declare with verifiers of
  the effect's own polarity (`Declared`; the runs `polarity` and `final_audit`
  each drop one half of it). These are the conditions of the run `one_call`.
  `BeliefInv` follows a belief through the time it is wrong: between the command
  and the witness of each of its effects only the facts of the effects still
  pending may be believed to be what they are not.

`SessionStoreProofs`, for any number of callers, texts and scores and any bounds:
`SessionsStaySessions`, `PlansAreKept`, `CommitsAreJudged` and
`FinishesTheRelease` (an action property). Any caller may save any copy it ever
held, so nothing about the file alone is inductive. `Sane` says of one session
that its best and committed versions exist and have kept their text, that each
positive verdict is about something a judge has passed, and its commit about a text
one has passed or about version 1 on the word of a verdict without a hash, and the same
of its checkpoints; `SaneInv` says it of the file and of every copy in hand.
Whatever is written is then sane because it was computed from something sane,
and each computation (`Compress`, `Rewound`, `Released`, `Assessed`, ...) has one
lemma. `PlaceInv` says who holds the lock and who has a copy, `ReleaseInv`
follows a released session up to its finish. The lemma `RelevantAreVerdicts` says
of the cut judge log that its entries are entries of the whole one.

`CordisProofs`, for any plan, contexts, effects and order of steps
(`CordisAssumption`: the plan's context, the tasks' and the derived ones
are distinct, `Nobody` and `"iterator"` are none of them, a plan is a finite set of tasks listed in a
sequence of them): `InversesRunOnce`, `DisposalGoesBackwards` and
`RecoveredIsUndone`. Three routines may run an effect's inverses, and between
two awaits any of them may be overtaken. `EffectInv` ties the flag `armed` to how
many inverses have run: while it is set none has, and once it is cleared those
run and those left are the collected ones reversed. `LogInv` numbers effects by
their registration. `ListInv` says of a context that its list and what its
disposal still has to undo follow that numbering and miss no armed effect
registered under it: that is why a later effect is out of place when an earlier
one is undone, and why nothing is left when the plan's disposal ends
(`PlanInv`).

It also has the three properties of `Services`, for any fibers, needs, provisions
and realms (`ServicesAssumption`), however deep the calls nest:

* `ServicesTypesHold`, `ServicesAreOfActive`. The properties speak of the moments
  between operations, when no call is left; what holds in the middle of a call is
  a statement about the stack. `FramesInv` says that each frame agrees with the
  states of the fibers, that the order of a withdrawal still holds everybody
  active since it began, and that frames are `Apart`: no fiber is in two of them,
  and no withdrawal waits to stop a fiber that is in a call below. `FibersInv`
  says that a fiber is between two states only while a frame handles it, and that
  what it provides is a beginning of what it gives; `StacksInv` that a provider
  stack holds just what fibers provide there, less what was discarded; `StoreInv`
  that the store shows the top of the stack unless a withdrawal is under way in
  that realm.
* `ActiveAreSatisfied`, `ServicesAreWithdrawnLast`. `ChaseInv`: an active fiber
  whose dependency went is on the list of a notification that is still to reach
  it, so when no call is left there is none. Both have the hypothesis `KeysApart`,
  that no two keys lead to one realm, be it from different fibers: `_notify` goes
  by the name of the key, so a fiber that knows the same realm by
  another name is not told. `isolate` with an explicit realm name can break it; the default
  names, derived from the key, do not.

`PlanningProofs` has the two validators, each against the world beside it, and
the search:

* `PassMeansFeasible` (`EpistemicAssumption`: durations are numbers, an endless
  lifetime is not one, actions and constraints speak of the facts there are). What
  the simulation believes must be so in the world at every moment it is used, not
  only when it was learnt. `Founded` says of a fact that what is believed
  of it holds in the world, unless it ran out within the last action, and that the
  world owes it at least as long as the code believes it; the lemmas `DecayedOwed`
  and `ProjectedFounded` carry this through the recheck at the time of use, which
  forgets just what ran out, and through the effects and the drift up to the
  action's end. `ValueInv` knows that an entry is an
  observation, both of whose truths are the same, or a projection without an end:
  that is why the recheck, which looks at the observed truth only, forgets both.
  `PromiseInv` says that a plan of which nothing was unknown so far has broken
  nothing so far.
* `VerdictIsRight` (`TasksAssumption`: tasks carry numbers and name what the plan
  speaks of). `StringsInv` says that, unless a file was deleted by its path, what the
  validator has under some name is a fact of the world, that every file of the world
  is there under its path and every fact under its key, but for files added by their
  path; and that, unless one was, whatever a task deleted after its last producer is
  gone from the world. `FoundHolds` follows: a
  precondition, which asks for either name, is found exactly when it holds, so only
  a goal, which asks for one name, and a threat can be wrong. `OrderInv` that the numbers ascend
  and a plan that runs finds the tasks it depends on before it. `NoCycle` follows:
  in a cycle the task that ran first would have to wait, and there is a first one
  by `LeastNat`.
* `TreesAreSound`, `SearchTypesHold` (`SearchAssumption`). `TreeSound` asks of the tree,
  after every step, that parents and children agree and nobody is below itself,
  that each text's entry in the transposition table is the node with that text,
  and that root and best are there. `Grounded` is that without the best node, which `prune` may just
  have deleted; `TreeInv` adds it. `SearchInv` says of the local variables of
  a search that the nodes they speak of are in the tree. What is below a node is
  the least set closed under children, not a recursive function, so
  that a new node or a removed subtree is dealt with by naming a closed set.

`ComponentProofs` has the components that need one invariant each, for every
value of their constants:

* `PassesOneStory` and `PassesOnSight` (`ContractAssumption`: a contract's
  commands and criteria are lists). Both speak of the moment the gate passes,
  long after what they say was decided. `StoryInv` says that while no error was
  collected the evidence agrees with the plan; the lemma `OneEntry` shows that
  the two readers of a task's entries then read the same one. `SightInv` adds
  `CopyInv` (what the copy holds comes from the tree, between the two looks at
  its identity, or from the commands) and `CountInv` (in a stage without an error
  the commands that exited 0 and those still queued add up); that nothing was
  made before the audit is why an audited item is never a command's product.
* `ConflictsAreExact`. `LogInv` says that versions grow along the log and times
  do not fall. `ActiveIsHeld` and `LastIsHeld` relate the code's way to find an
  active record (the latest of each agent that no release follows) to the
  definition over the history.
* `RolledBackIsClean`. `SagaInv` says that in the loop what is in place is still
  to be undone, and that undone and to be undone add up; `StepsToUndo` that the
  reversed filter lists each step that can be undone once, from the last to the
  first.
* `SelectionIsCertified` (`StatusAssumption`: every moment has a status for each
  candidate). `EligibleInv` says that the eligible list is the filter the code
  takes of the candidates, `SelectionInv` that the selected candidate and each
  score are at the place the model spoke of. `WithProperties` gives what the
  filter returns.
* `EditsAreRecoverable` (`JournalAssumption`: rollbacks are asked for numbers of
  entries). The property speaks of the moments between calls, and an edit or a
  rollback is long on its way. `KeptInv` says of a path that is not lost that the
  first entry of it in the journal found no file, and that without one there is
  no file yet or somebody is about to append the entry. `RollInv` says of a
  running rollback that what it leaves in the journal starts from no file as
  well, and when it leaves nothing of a path, the last entry it undoes of that
  path does: wherever it stops, the old journal or the new one is true of the
  files. `ParsedEntries` relates the lines to the entries a rollback parses,
  `PutAlone` says what an append does to the lines of the other paths.

`RolledBackIsClean`, `SelectionIsCertified`, `EditsAreRecoverable` and the
theorems about `Services` and `SearchTree` rest on `AscendingProofs`. The model writes a list comprehension as `InOrder(S)`, the
members of a set of places in ascending order, and not as a fold: a fold's value
is known to the prover only by induction over data, while `InOrder` is defined
by rank, and `InOrderProperties` follows from finiteness and from `LeastNat`,
which is induction in the form of a statement about sets.

Every invariant named here was checked by TLC on the runs' instances before it
was proved.

Only model-checked: `EveryCallReturns` and `PlanSettles`, since liveness is
outside the prover, and `Types`, the conjunction of the type invariants in the
`components` run. Of these `ServicesTypeOK` and `SearchTypeOK` are theorems of
their own, and the other components' types are part of their inductive
invariants as far as the proofs need them.

## 5. Not modelled

`best_verified_version` and `best_unknown_version` (nothing reads them). Hash
functions, HMAC, JSON, wording of errors, process control and namespaces,
prompts and model calls. A manager called from two threads at once (nothing in
the code protects it and nothing documents it as allowed). Of the session store:
`start` and `resume`, `assess_candidates` and `suggest`, `search_expand` (which
adds nodes to the search's tree by rules of its own), log and cache contents, and
the report `release` returns. `custom_action_handler` and the test-only insecure
sandbox switches. Of Cordis: asynchronous activation of fibers, listeners,
`intercept`, and contexts shared by threads. Of the validators and the trace
gate: all parsing of text, typed signatures, `parity_audit`. Of the search: how a
variant's text is made, the stages of `ir_search` and `search_stable`. The
judges, `recovery_graph` (a pure table), probing, the distiller, entry points and
benchmarks: text, I/O or scoring with no state to speak of. See also the notes
of the components in `PROJECT.json`.

## 6. Plan

1. `Transaction`, `Saga` and their proofs, `TransactionManagersProofs` included
   (done).
2. `PlanSession`, proofs (done).
3. `SessionStore` with release and finish, proofs (done).
4. `Cordis`, `Services`, `Epistemic`, `CausalPlan`, `TraceGate`, `Isolation`,
   `Journal`, `Recovery`, `SearchTree`, `SelfVerification`, proofs (done).

Left: the search's other entry (`search_expand`), asynchronous activation of
fibers, and the judges' ensemble as a component of its own.
