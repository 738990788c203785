----------------------------- MODULE TraceGate ------------------------------
(***************************************************************************)
(* The execution-evidence check of release: execution_trace.py and         *)
(* _execution_contract_impl.py, with the layers that followup_hardening,   *)
(* runtime_closure_validation and runtime_closure_trace put around them.   *)
(*                                                                         *)
(* release reads the identity of the workspace, then verify_execution_trace *)
(* compares the executor's evidence with the plan, copies the workspace to *)
(* a snapshot, observes the contract there, and signs its result.  Other   *)
(* processes may write to the workspace, or replace it, at any time.       *)
(*                                                                         *)
(* An item is an output a task declares, or a symbol it declares in one.   *)
(***************************************************************************)
EXTENDS Naturals, Sequences, FiniteSets, SequencesExt

CONSTANTS
    Outputs,     \* [task -> the items it declares]
    Audited,     \* the items with an artifact budget or a symbol contract
    Commands,    \* verification_commands, in order
    Criteria,    \* exit_criteria, in order: [task, want], want an exit code
    Evidence,    \* what an executor may hand in: [entries, verifier, green,
                 \* fields], entries a sequence of [id, status, items, exit]
    Budget,      \* the total command budget of one stage
    Timeout,     \* the time one command may take
    MaxReplaced, \* bound: how often the workspace is replaced
    None

\* the contract lists its commands and its criteria
ASSUME ContractAssumption ==
    Commands \in Seq(Range(Commands)) /\ Criteria \in Seq(Range(Criteria))

Tasks == DOMAIN Outputs
Items == UNION {Outputs[t] : t \in Tasks}

VARIABLES
    pc,         \* where the check stands
    evidence,   \* the evidence under examination
    ws,         \* the items in the workspace
    ident,      \* the identity of the directory it is in
    expected,   \* expected_workspace_identity, read by release
    todo,       \* the items copytree has listed and not copied
    copy,       \* the items in the snapshot
    queue,      \* the commands still to run in this stage
    spent,      \* the time this stage has taken
    errors,     \* whether an error was collected
    gate,       \* the precheck of release
    seen,       \* history: items copied, each with the identity it was copied from
    made,       \* history: items the contract's own commands made in the snapshot
    passed      \* history: how many commands exited with 0

vars == <<pc, evidence, ws, ident, expected, todo, copy, queue, spent, errors, gate, seen, made, passed>>

TypeOK ==
    /\ pc \in {"idle", "list", "copy", "verify", "exit", "outputs", "attest"}
    /\ ws \subseteq Items /\ ident \in 0..MaxReplaced /\ expected \in 0..MaxReplaced
    /\ todo \subseteq Items /\ copy \subseteq Items /\ made \subseteq Items
    /\ spent \in 0..Budget /\ errors \in BOOLEAN
    /\ gate \in {"none", "passed", "failed"}

Init ==
    /\ pc = "idle" /\ evidence = None /\ ws = {} /\ ident = 0 /\ expected = 0
    /\ todo = {} /\ copy = {} /\ queue = <<>> /\ spent = 0 /\ errors = FALSE
    /\ gate = "none" /\ seen = {} /\ made = {} /\ passed = 0

-----------------------------------------------------------------------------
(* The evidence against the plan *)

\* the places of a task's entries
EntriesOf(ev, t) == {i \in DOMAIN ev.entries : ev.entries[i].id = t}

\* align_task_evidence: the last entry of a task, for tasks with outputs
Aligned(ev) ==
    \A t \in Tasks : Outputs[t] # {} =>
        \E i \in EntriesOf(ev, t) :
            /\ \A j \in EntriesOf(ev, t) : j <= i
            /\ ev.entries[i].status \in {"done", None}
            /\ Outputs[t] \subseteq ev.entries[i].items

\* safe_trace_exit_errors: the first entry of a task
ExitsRecorded(ev) ==
    \A c \in DOMAIN Criteria :
        \E i \in EntriesOf(ev, Criteria[c].task) :
            /\ \A j \in EntriesOf(ev, Criteria[c].task) : i <= j
            /\ ev.entries[i].exit = Criteria[c].want

Independent(ev) == ev.verifier \notin {None, "executor"}

NotContradicted(ev) ==
    ev.green => \A i \in DOMAIN ev.entries : ev.entries[i].exit \in {None, 0}

\* Mutant of WellFormed: a task may have two entries
WellFormedTwice(ev) ==
    \A i \in DOMAIN ev.entries : ev.entries[i].id > 0 /\ ev.entries[i].status # None

\* what the wrapper of runtime_closure_validation adds
WellFormed(ev) ==
    /\ \A i \in DOMAIN ev.entries : ev.entries[i].id > 0 /\ ev.entries[i].status # None
    /\ \A i, j \in DOMAIN ev.entries : i # j => ev.entries[i].id # ev.entries[j].id

\* plan_hash, session_id, certificate_id and workspace_identity: a field
\* that is supplied must be the expected one
Bound(ev) == \A k \in DOMAIN ev.fields : ev.fields[k] \in {None, "own"}

EvidenceOK(ev) ==
    Aligned(ev) /\ ExitsRecorded(ev) /\ Independent(ev) /\ NotContradicted(ev)
    /\ WellFormed(ev) /\ Bound(ev)

-----------------------------------------------------------------------------
(* The workspace, which others go on writing to *)

\* (once the check is over nothing here depends on it)
Others ==
    gate = "none" /\ UNCHANGED <<pc, evidence, expected, todo, copy, queue, spent, errors, gate, seen, made, passed>>

Write(x) == x \notin ws /\ ws' = ws \cup {x} /\ UNCHANGED ident /\ Others
Unlink(x) == x \in ws /\ ws' = ws \ {x} /\ UNCHANGED ident /\ Others

\* another directory takes its path
Replace(xs) == ident < MaxReplaced /\ ident' = ident + 1 /\ ws' = xs /\ Others

-----------------------------------------------------------------------------
(* The check *)

Env == UNCHANGED <<evidence, ws, ident, expected>>
Fail == errors' = TRUE
\* OSError or ValueError: a failed result without a signature
Raise == gate' = "failed" /\ pc' = "idle"

\* release reads the identity and calls verify_execution_trace
Call(ev) ==
    /\ pc = "idle" /\ gate = "none"
    /\ evidence' = ev /\ expected' = ident /\ errors' = ~EvidenceOK(ev)
    /\ pc' = "list"
    /\ UNCHANGED <<ws, ident, todo, copy, queue, spent, gate, seen, made, passed>>

\* _snapshot_size and the listing of copytree; the tree may be too large
List(fits) ==
    /\ pc = "list" /\ todo' = ws
    /\ IF fits THEN pc' = "copy" /\ UNCHANGED gate ELSE Raise
    /\ Env /\ UNCHANGED <<copy, queue, spent, errors, seen, made, passed>>

\* one file; it may be gone by now
CopyItem(x) ==
    /\ pc = "copy" /\ x \in todo
    /\ todo' = todo \ {x}
    /\ IF x \in ws
       THEN copy' = copy \cup {x} /\ seen' = seen \cup {<<x, ident>>} /\ UNCHANGED <<pc, gate>>
       ELSE Raise /\ UNCHANGED <<copy, seen>>
    /\ Env /\ UNCHANGED <<queue, spent, errors, made, passed>>

\* artifact_audit and symbol_audit, on the snapshot
Audit ==
    /\ pc = "copy" /\ todo = {} /\ pc' = "verify"
    /\ errors' = (errors \/ ~ (Audited \subseteq copy))
    /\ queue' = Commands /\ spent' = 0
    /\ Env /\ UNCHANGED <<todo, copy, gate, seen, made, passed>>

\* Mutant of RunCommand: every command is given its whole timeout
RunCommandWholeTimeout(t, code, xs) ==
    /\ pc \in {"verify", "exit"} /\ queue # <<>> /\ spent < Budget
    /\ queue' = Tail(queue)
    /\ t \in 0..Timeout /\ (code = None \/ t < Timeout)
    /\ spent' = spent + t
    /\ copy' = copy \cup xs /\ made' = made \cup (xs \ copy)
    /\ errors' = (errors \/ code # 0)
    /\ passed' = IF code = 0 THEN passed + 1 ELSE passed
    /\ Env /\ UNCHANGED <<pc, todo, gate, seen>>

\* the next command of the stage, through run_command: it is given the time
\* that is left, may write to the snapshot, and exits with a code, is
\* stopped at its timeout, or is refused by the sandbox
RunCommand(t, code, xs) ==
    /\ pc \in {"verify", "exit"} /\ queue # <<>> /\ spent < Budget
    /\ queue' = Tail(queue)
    /\ LET limit == IF Timeout < Budget - spent THEN Timeout ELSE Budget - spent
       IN t \in 0..limit /\ (code = None \/ t < limit)
    /\ spent' = spent + t
    /\ copy' = copy \cup xs /\ made' = made \cup (xs \ copy)
    /\ errors' = (errors \/ code # 0)
    /\ passed' = IF code = 0 THEN passed + 1 ELSE passed
    /\ Env /\ UNCHANGED <<pc, todo, gate, seen>>

\* the budget is used up before the stage is done
BudgetExhausted ==
    /\ pc \in {"verify", "exit"} /\ queue # <<>> /\ spent = Budget
    /\ queue' = <<>> /\ Fail
    /\ Env /\ UNCHANGED <<pc, todo, copy, spent, gate, seen, made, passed>>

StageDone ==
    /\ pc \in {"verify", "exit"} /\ queue = <<>>
    /\ IF pc = "verify" THEN pc' = "exit" /\ queue' = Criteria ELSE pc' = "outputs" /\ UNCHANGED queue
    /\ spent' = 0
    /\ Env /\ UNCHANGED <<todo, copy, errors, gate, seen, made, passed>>

\* the declared outputs, looked for in the snapshot after the commands
CheckOutputs ==
    /\ pc = "outputs" /\ pc' = "attest"
    /\ errors' = (errors \/ ~ (Items \subseteq copy))
    /\ Env /\ UNCHANGED <<todo, copy, queue, spent, gate, seen, made, passed>>

\* Mutant of Attest: the workspace is not looked at again
AttestAnywhere ==
    /\ pc = "attest" /\ pc' = "idle"
    /\ gate' = IF errors THEN "failed" ELSE "passed"
    /\ Env /\ UNCHANGED <<todo, copy, queue, spent, errors, seen, made, passed>>

\* the identity of the workspace as it is now; a result without errors is
\* signed for the boundary release gave, and release verifies the signature
Attest ==
    /\ pc = "attest" /\ pc' = "idle"
    /\ gate' = IF errors \/ ident # expected THEN "failed" ELSE "passed"
    /\ Env /\ UNCHANGED <<todo, copy, queue, spent, errors, seen, made, passed>>

Next ==
    \/ \E x \in Items : Write(x) \/ Unlink(x) \/ CopyItem(x)
    \/ \E xs \in SUBSET Items : Replace(xs)
    \/ \E ev \in Evidence : Call(ev)
    \/ \E fits \in BOOLEAN : List(fits)
    \/ Audit \/ BudgetExhausted \/ StageDone \/ CheckOutputs \/ Attest
    \/ \E t \in 0..Timeout, code \in {None, 0, 1} : \E xs \in SUBSET Items : RunCommand(t, code, xs)

Spec == Init /\ [][Next]_vars

-----------------------------------------------------------------------------
(* The check passes only on what it saw itself.  Whatever the evidence      *)
(* claims and whatever happens to the workspace meanwhile, every declared   *)
(* item was copied from the one directory release had read the identity of, *)
(* or is an item without a budget that the contract's commands made in the  *)
(* copy; and every command ran to exit code 0 within its budget.            *)
PassedOnSight ==
    gate = "passed" =>
        /\ Items \subseteq {s[1] : s \in seen} \cup (made \ Audited)
        /\ \A s \in seen : s[2] = expected
        /\ passed = Len(Commands) + Len(Criteria)

(* And only on one story: each task with outputs has a single entry, which  *)
(* both claims the outputs and records the exit code -- the two readers of  *)
(* the evidence look at different entries of a task -- the entry agrees     *)
(* with the commands run here, and nobody verified himself or evidence      *)
(* bound to something else.                                                 *)
PassedOnOneStory ==
    gate = "passed" =>
        /\ \A c \in DOMAIN Criteria : \A e \in ToSet(evidence.entries) :
              e.id = Criteria[c].task =>
                  /\ e.exit = Criteria[c].want
                  /\ e.id \in Tasks => Outputs[e.id] \subseteq e.items
        /\ evidence.verifier # "executor" /\ evidence.verifier # None
        /\ \A k \in DOMAIN evidence.fields :
              evidence.fields[k] # None => evidence.fields[k] = "own"
=============================================================================
