----------------------------- MODULE Epistemic ------------------------------
(***************************************************************************)
(* The epistemic validator (epistemic_validator.py): the forward           *)
(* simulation that decides whether a compiled plan is feasible from a      *)
(* trusted snapshot of the world.                                          *)
(*                                                                         *)
(* A fact has an empirical truth and a projected truth.  Trusted           *)
(* observations give the first, with a time to live; the effects of        *)
(* simulated actions give the second, and only when the capability has a   *)
(* verifier that could witness them.  What the planner claims about the    *)
(* initial state gives neither.                                            *)
(*                                                                         *)
(* Beside the validator runs a possible world, at the end of the last      *)
(* action: it agrees with each trusted observation while that lasts, is    *)
(* arbitrary elsewhere, and takes an effect for certain only when a        *)
(* verifier can witness it.  Nothing in the code looks at the lifetimes    *)
(* between the start of an action and the start of the next.               *)
(***************************************************************************)
EXTENDS Naturals, Sequences, FiniteSets, FiniteSetsExt

CONSTANTS
    Facts,        \* <<predicate, arguments>>: a fact's canonical identity
    ActionCatalog, \* the actions a plan may use: [name, pre, pos, neg, params,
                  \* takes, cap], cap the capability's registered contract
                  \* [pre, pos, neg, verifiers], or Absent
    Constraints,  \* hard constraints: [fact, want, until]
    SuccessCriteria, \* mandatory success criteria: [fact, want]
    MaxActions,   \* bound: the length of a plan
    Lifetimes,    \* bound: the times to live of an observation
    Forever,      \* the lifetime of a fact without one
    Absent        \* no entry, no capability

Truth == {"TRUE", "FALSE", "UNKNOWN", "CONFLICT"}
Literals == {"TRUE", "FALSE"}
Conditions == [fact : Facts, want : Literals]

\* durations count, and conditions want a literal of a fact
ASSUME EpistemicAssumption ==
    /\ Forever \notin Nat /\ Lifetimes \subseteq Nat \cup {Forever}
    /\ Absent \notin [truth : Truth, proj : Truth, until : Nat \cup {Forever}]
    /\ \A a \in ActionCatalog :
          a.takes \in Nat /\ a.pre \subseteq Conditions /\ a.pos \cup a.neg \subseteq Facts
    /\ \A h \in Constraints : h.fact \in Facts /\ h.want \in Literals
    /\ SuccessCriteria \subseteq Conditions

VARIABLES
    epi_phase,    \* "observe", "claim", "simulate", "done"
    facts,        \* [Facts -> Absent or [truth, proj, until]]: current_state
    sim_steps,    \* the actions simulated so far
    clock,        \* current_sim_time
    registry,     \* whether a capability registry was given
    unknown,      \* whether unknown_facts is non-empty
    verdict,
    epi_world,    \* history: the real value of each fact
    vouch,        \* history: how long the world owes the fact its value
    borrowed,     \* history: a fact outlived the observation it came from
    broke         \* history: in that world, a precondition or an active hard
                  \* constraint was false when the plan reached it, other than
                  \* where an observation had just run out

epistemicVars == <<epi_phase, facts, sim_steps, clock, registry, unknown, verdict, epi_world, vouch, borrowed, broke>>

Opposite(t) == IF t = "TRUE" THEN "FALSE" ELSE "TRUE"

EpistemicTypeOK ==
    /\ epi_phase \in {"observe", "claim", "simulate", "done"}
    /\ facts \in [Facts -> [truth : Truth, proj : Truth, until : Nat \cup {Forever}] \cup {Absent}]
    /\ Len(sim_steps) <= MaxActions /\ clock \in Nat
    /\ registry \in BOOLEAN /\ unknown \in BOOLEAN /\ borrowed \in BOOLEAN /\ broke \in BOOLEAN
    /\ verdict \in {"none", "PASS", "FAIL", "UNKNOWN"}
    /\ epi_world \in [Facts -> Literals] /\ vouch \in [Facts -> Nat \cup {Forever}]

EpistemicInit ==
    /\ epi_phase = "observe" /\ facts = [f \in Facts |-> Absent]
    /\ sim_steps = <<>> /\ clock = 1 /\ registry = TRUE /\ unknown = FALSE /\ verdict = "none"
    /\ epi_world = [f \in Facts |-> "TRUE"] /\ vouch = [f \in Facts |-> 0] /\ borrowed = FALSE /\ broke = FALSE

-----------------------------------------------------------------------------
merge_fact_truth(a, b) ==
    IF a = b THEN a
    ELSE IF a = "UNKNOWN" THEN b ELSE IF b = "UNKNOWN" THEN a ELSE "CONFLICT"

\* is_fresh: what has no lifetime never ends
Sooner(u, v) == u # Forever /\ (v = Forever \/ u < v)

RunsOut(u, from, to) == ~Sooner(u, from) /\ Sooner(u, to)

\* the time at the end of the last action
EndTime == IF sim_steps = <<>> THEN clock ELSE clock + sim_steps[Len(sim_steps)].takes

\* an observation: decayed to UNKNOWN when it is not fresh
Normalized(truth, until) == IF Sooner(until, clock) THEN "UNKNOWN" ELSE truth

Emp(fs, f) == IF fs[f] = Absent THEN "UNKNOWN" ELSE fs[f].truth
Proj(fs, f) == IF fs[f] = Absent THEN "UNKNOWN" ELSE fs[f].proj
Supports(fs, f, want) == Proj(fs, f) = want \/ Emp(fs, f) = want
Contradicts(fs, f, want) ==
    Supports(fs, f, Opposite(want)) \/ Supports(fs, f, "CONFLICT")
Conflicting(fs) == \E f \in Facts : Supports(fs, f, "CONFLICT")

\* _matches_verifier: a verifier of the capability observes exactly this
\* fact, its mapping resolved through the action's parameters
Witnessable(a, f) ==
    a.cap # Absent /\ \E v \in a.cap.verifiers :
        /\ v.predicate = f[1]
        /\ f[2] # <<>> => v.mapping # <<>>
        /\ [i \in DOMAIN v.mapping |-> IF v.mapping[i] \in DOMAIN a.params THEN a.params[v.mapping[i]]
                                       ELSE v.mapping[i]] = f[2]

\* validate_action of the registry: an action may add preconditions to the
\* capability's contract, and must have its effects
Conforms(a) == a.cap.pre \subseteq a.pre /\ a.cap.pos = a.pos /\ a.cap.neg = a.neg

\* _check_invariants: the constraints still in force when n actions are done
InForce(n, ss) ==
    {h \in Constraints : ~ \E i \in DOMAIN ss : ss[i].name = h.until /\ i <= n}
Violated(fs, hs) == \E h \in hs : Contradicts(fs, h.fact, h.want)
Undecided(fs, hs) == \E h \in hs : ~Supports(fs, h.fact, h.want) /\ ~Contradicts(fs, h.fact, h.want)

\* Mutant of Decayed: what was projected outlives the observation.
DecayedInPart(fs, t) ==
    [f \in Facts |-> IF fs[f] # Absent /\ Sooner(fs[f].until, t) THEN [fs[f] EXCEPT !.truth = "UNKNOWN"] ELSE fs[f]]

\* the point-of-use recheck: what has outlived its lifetime is unknown again
Decayed(fs, t) ==
    [f \in Facts |-> IF fs[f] # Absent /\ Sooner(fs[f].until, t) /\ fs[f].truth # "UNKNOWN"
                     THEN [fs[f] EXCEPT !.truth = "UNKNOWN", !.proj = "UNKNOWN"] ELSE fs[f]]

\* the next state of an action: negative effects, then positive ones; an
\* effect without a verifier, or of an uncertain action, is not supported
Projected(fs, a, certain) ==
    [f \in Facts |->
        IF f \notin a.pos \cup a.neg THEN fs[f]
        ELSE [truth |-> "UNKNOWN", until |-> Forever,
              proj |-> IF ~certain \/ ~Witnessable(a, f) THEN "UNKNOWN"
                       ELSE IF f \in a.pos THEN "TRUE" ELSE "FALSE"]]

-----------------------------------------------------------------------------
Verdict(v) == verdict' = v /\ epi_phase' = "done"

\* a trusted observation joins the snapshot; a second one of the same fact
\* is merged into the first, which keeps its lifetime
Observe(f, truth, until) ==
    LET t == Normalized(truth, until)
        merged == IF facts[f] = Absent THEN t ELSE merge_fact_truth(facts[f].truth, t)
    IN /\ epi_phase = "observe"
       /\ facts' = [facts EXCEPT ![f] = [truth |-> merged, proj |-> merged,
                                         until |-> IF facts[f] = Absent THEN until ELSE facts[f].until]]
       /\ vouch' = [vouch EXCEPT ![f] = IF t = "UNKNOWN" \/ Sooner(until, @) THEN @ ELSE until]
       /\ UNCHANGED <<epi_phase, sim_steps, clock, registry, unknown, verdict, epi_world, borrowed, broke>>

\* normalize_trusted_snapshot keeps the lifetime of the first observation
\* of a fact and the truth merged from all of them: one first seen as
\* unknown keeps the truth of a later one longer than that one lasts
Borrowed == \E f \in Facts : facts[f] # Absent /\ facts[f].truth \in Literals /\ Sooner(vouch[f], facts[f].until)

\* the snapshot is complete; the world is one that agrees with it
Snapshot(w, reg) ==
    /\ epi_phase = "observe"
    /\ \A f \in Facts : Emp(facts, f) \in Literals => w[f] = Emp(facts, f)
    /\ epi_world' = w /\ registry' = reg /\ borrowed' = Borrowed
    /\ IF Conflicting(facts) THEN Verdict("FAIL") ELSE epi_phase' = "claim" /\ UNCHANGED verdict
    /\ UNCHANGED <<facts, sim_steps, clock, unknown, vouch, broke>>

\* the planner's initial state: a claim against an observation is a
\* conflict, any other changes nothing; then the constraints on W_0
Claim(claims) ==
    /\ epi_phase = "claim"
    /\ LET hs == InForce(0, sim_steps)
       IN IF \/ \E f \in DOMAIN claims : merge_fact_truth(Emp(facts, f), claims[f]) = "CONFLICT"
             \/ Violated(facts, hs)
          THEN Verdict("FAIL") /\ UNCHANGED <<unknown, broke>>
          ELSE /\ epi_phase' = "simulate" /\ unknown' = Undecided(facts, hs)
               /\ broke' = (\E h \in hs : epi_world[h.fact] # h.want)
               /\ UNCHANGED verdict
    /\ UNCHANGED <<facts, sim_steps, clock, registry, epi_world, vouch, borrowed>>

\* one action of the plan, from the end of the one before it to its own end
Simulate(a, after) ==
    LET time == EndTime
        end == time + a.takes
        fs == Decayed(facts, time)
        uncertain == \/ registry /\ a.cap = Absent
                     \/ ~registry /\ a.pos \cup a.neg # {}
                     \/ \E p \in a.pre : ~Supports(fs, p.fact, p.want)
        next == Projected(fs, a, ~uncertain)
        ss == Append(sim_steps, a)
        hs == InForce(Len(ss), ss)
        sure == {f \in a.pos \cup a.neg : ~uncertain /\ Witnessable(a, f)}
        owed == [f \in Facts |-> IF f \in sure THEN Forever
                               ELSE IF f \in a.pos \cup a.neg THEN 0 ELSE vouch[f]]
    IN /\ epi_phase = "simulate" /\ Len(sim_steps) < MaxActions
       /\ \A f \in Facts : Sooner(owed[f], end) \/
             after[f] = IF f \in sure \cap a.pos THEN "TRUE" ELSE IF f \in sure THEN "FALSE" ELSE epi_world[f]
       /\ clock' = time /\ sim_steps' = ss /\ epi_world' = after /\ vouch' = owed
       /\ broke' = \/ broke
                   \/ \E p \in a.pre : epi_world[p.fact] # p.want
                   \/ \E h \in hs : after[h.fact] # h.want /\ ~RunsOut(owed[h.fact], time, end)
       /\ IF \/ registry /\ a.cap # Absent /\ ~Conforms(a)
             \/ \E p \in a.pre : ~Supports(fs, p.fact, p.want) /\ Contradicts(fs, p.fact, p.want)
          THEN Verdict("FAIL") /\ facts' = fs /\ UNCHANGED unknown
          ELSE /\ facts' = next
               /\ unknown' =
                              \/ unknown
                              \/ uncertain /\ (a.pre # {} \/ a.pos \cup a.neg # {})
                              \/ \E f \in a.pos \cup a.neg : ~Witnessable(a, f)
                              \/ Undecided(next, hs)
               /\ IF Violated(next, hs) THEN Verdict("FAIL") ELSE UNCHANGED <<epi_phase, verdict>>
       /\ UNCHANGED <<registry, borrowed>>

\* the success criteria on the final state, and the verdict
ConcludePlan ==
    /\ epi_phase = "simulate"
    /\ LET unmet == {c \in SuccessCriteria : ~Supports(facts, c.fact, c.want)}
           refuted == {c \in unmet : Contradicts(facts, c.fact, c.want)}
       IN /\ Verdict(IF refuted # {} THEN "FAIL"
                     ELSE IF unknown \/ unmet # {} THEN "UNKNOWN" ELSE "PASS")
          /\ unknown' = (unknown \/ unmet # refuted)
    /\ UNCHANGED <<facts, sim_steps, clock, registry, epi_world, vouch, borrowed, broke>>

EpistemicNext ==
    \/ \E f \in Facts, t \in Truth \ {"CONFLICT"}, u \in Lifetimes : Observe(f, t, u)
    \/ \E w \in [Facts -> Literals], reg \in BOOLEAN : Snapshot(w, reg)
    \/ \E fs \in SUBSET Facts : \E claims \in [fs -> Literals] : Claim(claims)
    \/ \E a \in ActionCatalog : \E after \in [Facts -> Literals] : Simulate(a, after)
    \/ ConcludePlan

EpistemicSpec == EpistemicInit /\ [][EpistemicNext]_epistemicVars

-----------------------------------------------------------------------------
(* A plan that validates with PASS works: in every world that agrees with   *)
(* the trusted observations while they last -- whatever the planner         *)
(* claimed, whatever unobserved, expired or unwitnessable facts really are  *)
(* -- each precondition held when its action started, each hard constraint  *)
(* held after each action it was in force for, and the success criteria     *)
(* hold at the end.  What the code does not see is excepted: a constraint   *)
(* or a criterion on a fact whose observation ran out during the very       *)
(* action after which it is judged.                                         *)
PassHolds ==
    verdict = "PASS" =>
      borrowed \/ (~broke /\ \A c \in SuccessCriteria :
                     epi_world[c.fact] = c.want \/ RunsOut(vouch[c.fact], clock, EndTime))
=============================================================================
