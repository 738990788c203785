----------------------------- MODULE CausalPlan -----------------------------
(***************************************************************************)
(* The symbolic validator of textual plans (causal_validator.py, with the  *)
(* wrapper of runtime_closure_validation.py): a forward simulation of the  *)
(* tasks in the order of their numbers, under closed-world semantics, that *)
(* collects structural flaws.                                              *)
(*                                                                         *)
(* The validator's state is a set of strings.  A file f can appear in it   *)
(* under two of them, "exists(f)" and its bare path; a proposition under   *)
(* one.  A plan may name a file either way, and what it says of            *)
(* "exists(f)" is done to both names, what it says of the path to the path *)
(* alone.  Beside it runs the world a plan is about: its facts, with each  *)
(* task's deletes applied before its adds, whatever string named them.     *)
(***************************************************************************)
EXTENDS Naturals, Sequences, FiniteSets, FiniteSetsExt

CONSTANTS
    Props, Files,   \* the propositions and the files a plan speaks of
    Stem,           \* [Files -> the file's name without its extension]
    TaskCatalog,    \* the tasks: [pre, nopre, add, del, deps, reads, writes], the
                    \* first four sets of names, the last two of files
    Ids,            \* the numbers a task may carry
    MaxTasks,       \* bound: tasks of a plan
    MinTasks        \* the "at least n tasks" constraint of the plan

PlanFacts == Props \cup Files

\* The names a plan has for its facts: positive_key ("p", "exists(f)"), or the
\* bare path of a file.
Key(x) == <<"fact", x>>
Path(f) == <<"path", f>>
Strings(xs) == {Key(x) : x \in xs} \cup {Path(f) : f \in xs \cap Files}
Named(names) == {n[2] : n \in names}

\* tasks carry numbers, and name what the plan speaks of
ASSUME TasksAssumption ==
    /\ Ids \subseteq Nat
    /\ \A t \in TaskCatalog :
         /\ t.pre \cup t.nopre \cup t.add \cup t.del \subseteq Strings(PlanFacts)
         /\ t.reads \cup t.writes \subseteq Files

\* what the state has for these names: both of a file's for its "exists(f)"
Names(names) == names \cup {Path(f) : f \in {g \in Files : Key(g) \in names}}

VARIABLES
    causal_phase, \* "start", "simulate", "done"
    tasks,      \* the tasks simulated so far, in order
    ids,        \* their numbers
    state,      \* the validator's world state
    produced,   \* produced_propositions: [string -> number of its last producer]
    flaws,      \* the types of the flaws collected
    causal_world, \* history: the facts that hold when the plan really runs
    runs,       \* history: whether every task could start so far
    unwanted    \* history: what the goal wants not to hold

causalVars == <<causal_phase, tasks, ids, state, produced, flaws, causal_world, runs, unwanted>>

FlawTypes == {"unsatisfied_precondition", "clobber_threat", "unsatisfied_dependency",
              "non_contiguous_sequence", "cyclic_dependency", "type_mismatch",
              "unreachable_goal", "resource_minimum_not_met"}

CausalTypeOK ==
    /\ causal_phase \in {"start", "simulate", "done"}
    /\ Len(tasks) <= MaxTasks /\ Len(ids) = Len(tasks)
    /\ state \subseteq Strings(PlanFacts) /\ DOMAIN produced \subseteq Strings(PlanFacts)
    /\ flaws \subseteq FlawTypes /\ causal_world \subseteq PlanFacts /\ runs \in BOOLEAN
    /\ unwanted \subseteq Strings(PlanFacts)

CausalInit ==
    /\ causal_phase = "start" /\ tasks = <<>> /\ ids = <<>>
    /\ state = {} /\ produced = <<>> /\ flaws = {}
    /\ causal_world = {} /\ runs = TRUE /\ unwanted = {}

-----------------------------------------------------------------------------
\* the initial state: negated source facts are dropped, and what is left
\* out is false
Start(initial) ==
    /\ causal_phase = "start" /\ causal_phase' = "simulate"
    /\ state' = Strings(initial) /\ causal_world' = initial
    /\ produced' = [s \in Strings(initial) |-> 0]
    /\ UNCHANGED <<tasks, ids, flaws, runs, unwanted>>

Produces(t) == Names(t.add) \cup Strings(t.writes)
Deletes(t) == Names(t.del)
Requires(t) == t.pre \cup {Key(f) : f \in t.reads}

\* produced_propositions: of the name itself, else of the path it speaks of
Producer(n) == IF n \in DOMAIN produced THEN produced[n] ELSE produced[Path(n[2])]

\* a task between the producer of what task `id' requires and that task deletes it
\* under the same name
Clobbered(n, id) ==
    /\ Names({n}) \cap DOMAIN produced # {}
    /\ \E i \in DOMAIN tasks : Producer(n) < ids[i] /\ ids[i] < id /\ n \in tasks[i].del

Unsatisfied(t, id) ==
    \/ \E n \in t.nopre : state \cap Names({n}) # {}
    \/ \E n \in Requires(t) : ~Clobbered(n, id) /\ state \cap Names({n}) = {}

\* Mutant of PreconditionFlaws: a deleted fact counts as produced by its last producer
PreconditionFlawsForgetful(t, id) == IF Unsatisfied(t, id) THEN {"unsatisfied_precondition"} ELSE {}

PreconditionFlaws(t, id) ==
    (IF Unsatisfied(t, id) THEN {"unsatisfied_precondition"} ELSE {})
    \cup (IF \E n \in Requires(t) : Clobbered(n, id) THEN {"clobber_threat"} ELSE {})

\* one task of the forward simulation
Task(id, t) ==
    /\ causal_phase = "simulate" /\ Len(tasks) < MaxTasks
    /\ ids # <<>> => ids[Len(ids)] <= id
    /\ tasks' = Append(tasks, t) /\ ids' = Append(ids, id)
    /\ flaws' = flaws \cup PreconditionFlaws(t, id)
                  \cup (IF t.deps \subseteq {ids[i] : i \in DOMAIN ids} THEN {} ELSE {"unsatisfied_dependency"})
    /\ state' = (state \ Deletes(t)) \cup Produces(t)
    /\ produced' = [s \in DOMAIN produced \cup Produces(t) |-> IF s \in Produces(t) THEN id ELSE produced[s]]
    /\ causal_world' = (causal_world \ Named(t.del)) \cup Named(t.add) \cup t.writes
    /\ runs' = /\ runs
               /\ Named(Requires(t)) \subseteq causal_world /\ Named(t.nopre) \cap causal_world = {}
               /\ t.deps \subseteq {ids[i] : i \in DOMAIN ids}
    /\ UNCHANGED <<causal_phase, unwanted>>

\* _dfs_cycle: some tasks all depend on one another (of two tasks with one
\* number, the later gives its dependencies)
Cyclic ==
    \E S \in SUBSET {ids[i] : i \in DOMAIN ids} :
        S # {} /\ \A n \in S : tasks[Max({i \in DOMAIN ids : ids[i] = n})].deps \cap S # {}

\* what is checked on the whole plan: numbering, cycles, file extensions,
\* the targets and the minimum of the runtime closure
ConcludeTasks(targets, absent) ==
    /\ causal_phase = "simulate" /\ tasks # <<>> /\ causal_phase' = "done"
    /\ flaws' = flaws
         \cup (IF ids = [i \in DOMAIN ids |-> i] THEN {} ELSE {"non_contiguous_sequence"})
         \cup (IF Cyclic THEN {"cyclic_dependency"} ELSE {})
         \cup (IF \E i, j \in DOMAIN tasks : \E f \in tasks[i].reads, g \in tasks[j].writes :
                     f # g /\ Stem[f] = Stem[g] THEN {"type_mismatch"} ELSE {})
         \cup (IF targets \subseteq state THEN {} ELSE {"unreachable_goal"})
         \cup (IF absent \cap state = {} THEN {} ELSE {"unreachable_goal"})
         \cup (IF Len(tasks) < MinTasks THEN {"resource_minimum_not_met"} ELSE {})
    /\ runs' = (runs /\ Named(targets) \subseteq causal_world /\ Named(absent) \cap causal_world = {})
    /\ unwanted' = absent
    /\ UNCHANGED <<tasks, ids, state, produced, causal_world>>

CausalNext ==
    \/ \E initial \in SUBSET PlanFacts : Start(initial)
    \/ \E id \in Ids, t \in TaskCatalog : Task(id, t)
    \/ \E n \in Strings(PlanFacts) : ConcludeTasks({n}, {}) \/ ConcludeTasks({}, {n})

CausalSpec == CausalInit /\ [][CausalNext]_causalVars

-----------------------------------------------------------------------------
CausalFlaws == {"unsatisfied_precondition", "clobber_threat", "unsatisfied_dependency",
                "unreachable_goal", "cyclic_dependency"}

\* files that tasks delete, or add, by their bare path
DeletedByPath == {f \in Files : \E i \in DOMAIN tasks : Path(f) \in tasks[i].del}
AddedByPath == {f \in Files : \E i \in DOMAIN tasks : Path(f) \in tasks[i].add}

(* The verdict is right in both directions: a well numbered plan has none   *)
(* of the causal flaws exactly when, run in order from its initial state,   *)
(* every task finds what it requires, nothing it forbids and every task it  *)
(* depends on done, and the goal holds at the end.  Threats, links and      *)
(* cycles are diagnoses of the same failures, never of a plan that works.   *)
(* Files that tasks add or delete by their bare path are excepted, for the  *)
(* other name, "exists(f)", does not follow.  With one deleted so it stays  *)
(* in the state and the verdict says nothing; with one added so it is       *)
(* missing, and a plan that works may be called flawed, but the converse    *)
(* only when the goal denies "exists(f)" of that very file.                 *)
CausalVerdict ==
    causal_phase = "done" /\ "non_contiguous_sequence" \notin flaws /\ DeletedByPath = {} =>
        /\ flaws \cap CausalFlaws = {} => runs \/ \E f \in AddedByPath : Key(f) \in unwanted
        /\ runs => flaws \cap CausalFlaws = {} \/ AddedByPath # {}
=============================================================================
