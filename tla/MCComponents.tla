---------------------------- MODULE MCComponents ----------------------------
(***************************************************************************)
(* Instances of the components that share no state with each other: the    *)
(* effects and services of cordis.py, the two plan validators, the trace   *)
(* gate of release, the isolation log, the edit journal, the stand-alone   *)
(* saga recovery, the plan search and the choice among candidates.         *)
(*                                                                         *)
(* They are checked side by side: in one behaviour one of them, part,      *)
(* moves, and the others stay in their initial state.                      *)
(***************************************************************************)
EXTENDS Cordis, Services, Epistemic, CausalPlan, TraceGate, Isolation, Journal, Recovery,
    SearchTree, SelfVerification, TLC

CONSTANTS t1, t2, s1, e1, e2, plan, F, G, H, p1, p2

-----------------------------------------------------------------------------
\* Cordis: t2 depends on t1 and is listed after it or before it; e1 makes two
\* mutations on t1, e2 one on t2 or on a context derived from t1
TaskDeps == (t1 :> {}) @@ (t2 :> {t1})
Orders == {<<t1, t2>>, <<t2, t1>>}
SubContexts == (s1 :> t1)
EffectsOn == (e1 :> {t1}) @@ (e2 :> {t2, s1})
EffectSteps == (e1 :> 2) @@ (e2 :> 1)

\* Services: what a fiber needs the root or another fiber gives; F lives in an
\* isolated realm of "a"
FiberNeeds == (F :> {"b"}) @@ (G :> {"b", "c"}) @@ (H :> {"a", "b"})
FiberGives == (F :> <<"c", "a">>) @@ (G :> <<"a", "b">>) @@ (H :> <<"c">>)
Shared == [k \in {"a", "b", "c"} |-> k]
Isolated == [Shared EXCEPT !["a"] = "a2"]
Realm == ("root" :> Shared) @@ (F :> Isolated) @@ (G :> Shared) @@ (H :> Shared)
Provided == (p1 :> [by |-> "root", key |-> "a"]) @@ (p2 :> [by |-> "root", key |-> "b"])
ServiceFibers == <<F, G, H>>

\* Epistemic: a database and an application that needs it, with actions that
\* break their capability's contract, outlast an observation or need none
P == <<"db", <<>>>>
Q == <<"app", <<"x">>>>
Is(f, t) == [fact |-> f, want |-> t]
Probe == {[predicate |-> "app", mapping |-> <<"name">>], [predicate |-> "db", mapping |-> <<>>]}
Contract(pre, pos, neg) == [pre |-> pre, pos |-> pos, neg |-> neg, verifiers |-> Probe]
Act(n, pre, pos, neg, arg, d, cap) ==
    [name |-> n, pre |-> pre, pos |-> pos, neg |-> neg, params |-> [k \in {"name"} |-> arg], takes |-> d, cap |-> cap]
Actions == {
    Act("start", {Is(P, "TRUE")}, {Q}, {}, "x", 1, Contract({Is(P, "TRUE")}, {Q}, {})),
    Act("other", {}, {Q}, {}, "y", 0, Contract({}, {Q}, {})),
    Act("stop", {Is(Q, "TRUE")}, {}, {P, Q}, "x", 0, Contract({}, {}, {P, Q})),
    Act("boot", {Is(P, "FALSE")}, {P}, {}, "x", 2, Contract({}, {P}, {})),
    Act("wait", {}, {}, {}, "x", 2, Contract({}, {}, {})),
    Act("rogue", {}, {P}, {}, "x", 0, Contract({Is(Q, "TRUE")}, {P}, {})),
    Act("adhoc", {}, {P}, {}, "x", 0, Absent)}

\* P is to hold until the application stops, and the application is to run
KeptUp == {[fact |-> P, want |-> "TRUE", until |-> "stop"]}
Wanted == {Is(Q, "TRUE")}
BothFacts == {P, Q}
Lasting == {0, 2, Forever}

\* CausalPlan: tasks that set up or tear down a service, and that write, delete or
\* need files, by either name
TaskOf(pre, nopre, add, del, deps, reads, writes) ==
    [pre |-> pre, nopre |-> nopre, add |-> add, del |-> del, deps |-> deps, reads |-> reads, writes |-> writes]
Stems == ("out.txt" :> "out") @@ ("out.md" :> "out")
Up == Key("up")
CausalTasks == {
    TaskOf({Up}, {}, {}, {Up}, {}, {"out.txt"}, {}),
    TaskOf({Up}, {}, {}, {}, {1}, {}, {"out.txt"}),
    TaskOf({}, {Up}, {Up}, {Key("out.txt")}, {}, {}, {}),
    TaskOf({}, {}, {Path("out.txt")}, {}, {}, {}, {}),
    TaskOf({Path("out.txt")}, {}, {}, {Path("out.txt")}, {}, {}, {}),
    TaskOf({}, {}, {Up}, {Up}, {2}, {"out.md"}, {})}

\* TraceGate: a sound report of two tasks, and what may be wrong with one
EntryOf(id, status, items, exit) == [id |-> id, status |-> status, items |-> items, exit |-> exit]
Report(entries, verifier, green, owner) ==
    [entries |-> entries, verifier |-> verifier, green |-> green, fields |-> [session |-> owner, certificate |-> None]]
Good == EntryOf(1, "done", {"f", "g"}, 0)
Submitted == {
    Report(<<Good>>, "verifier", TRUE, "own"),
    Report(<<Good, EntryOf(2, "done", {}, 1)>>, "verifier", TRUE, None),
    Report(<<Good, EntryOf(1, "done", {"f", "g"}, 1)>>, "verifier", FALSE, None),
    Report(<<EntryOf(1, "failed", {}, 0), Good>>, "verifier", FALSE, None),
    Report(<<EntryOf(1, None, {"f", "g"}, 0)>>, "verifier", FALSE, None),
    Report(<<Good>>, "executor", FALSE, None),
    Report(<<Good>>, "verifier", FALSE, "other")}
\* two outputs, one of them audited
GateOutputs == <<{"f", "g"}, {}>>
GateAudited == {"f"}
GateCommands == <<"c", "d">>
GateCriteria == <<[task |-> 1, want |-> 0]>>

\* Isolation: one path in two workspaces
IsolationPlaces == {<<"f", "main">>, <<"f", "w2">>}

\* SelfVerification: three candidates; all three undecided are over the budget
StatusAt == <<<<"PASS", "FAIL", "PASS">>, <<"UNKNOWN", "PASS", "UNKNOWN">>, <<"UNKNOWN", "UNKNOWN", "FAIL">>>>

\* SearchTree: the root is in the middle
TextValue == ("R" :> 2) @@ ("A" :> 3) @@ ("B" :> 1)
TextPenalty == ("R" :> 0) @@ ("A" :> 0) @@ ("B" :> 1)

-----------------------------------------------------------------------------
VARIABLE part   \* the component of this behaviour

allvars == <<part, cordisVars, servicesVars, epistemicVars, causalVars, vars,
            isolationVars, journalVars, recoveryVars, searchVars, choiceVars>>

InitAll ==
    /\ part \in {"cordis", "services", "epistemic", "causal", "trace", "isolation",
        "journal", "recovery", "search", "choice"}
    /\ CordisInit /\ ServicesInit /\ EpistemicInit /\ CausalInit /\ Init
    /\ IsolationInit /\ JournalInit /\ RecoveryInit /\ SearchInit /\ ChoiceInit

NextAll ==
    /\ UNCHANGED part
    /\ IF part = "cordis" THEN CordisNext ELSE UNCHANGED cordisVars
    /\ IF part = "services" THEN ServicesNext ELSE UNCHANGED servicesVars
    /\ IF part = "epistemic" THEN EpistemicNext ELSE UNCHANGED epistemicVars
    /\ IF part = "causal" THEN CausalNext ELSE UNCHANGED causalVars
    /\ IF part = "trace" THEN Next ELSE UNCHANGED vars
    /\ IF part = "isolation" THEN IsolationNext ELSE UNCHANGED isolationVars
    /\ IF part = "journal" THEN JournalNext ELSE UNCHANGED journalVars
    /\ IF part = "recovery" THEN RecoveryNext ELSE UNCHANGED recoveryVars
    /\ IF part = "search" THEN SearchNext ELSE UNCHANGED searchVars
    /\ IF part = "choice" THEN ChoiceNext ELSE UNCHANGED choiceVars

\* see Cordis: the event loop runs what is ready
SpecAll == InitAll /\ [][NextAll]_allvars /\ CordisFairness

-----------------------------------------------------------------------------
\* Every variable of every component has its type.
Types ==
    /\ part = "cordis" => CordisTypeOK
    /\ part = "services" => ServicesTypeOK
    /\ part = "epistemic" => EpistemicTypeOK
    /\ part = "causal" => CausalTypeOK
    /\ part = "trace" => TypeOK
    /\ part = "isolation" => IsolationTypeOK
    /\ part = "journal" => JournalTypeOK
    /\ part = "recovery" => RecoveryTypeOK
    /\ part = "search" => SearchTypeOK
    /\ part = "choice" => ChoiceTypeOK
=============================================================================
