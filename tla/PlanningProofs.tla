-------------------------- MODULE PlanningProofs ---------------------------
(***************************************************************************)
(* Proofs about planning.  The two plan validators: for every set of       *)
(* facts, actions, constraints and criteria, every lifetime of an          *)
(* observation, and for every set of propositions, files and tasks,        *)
(* whatever the plan's length.  The plan search: for every set of texts,   *)
(* all values and penalties, and any width, depth and budget.              *)
(***************************************************************************)
EXTENDS Epistemic, CausalPlan, SearchTree, AscendingProofs, SequenceTheorems, TLAPS

(***************************************************************************)
(* The epistemic validator.                                                *)
(***************************************************************************)

FactEntry == [truth : Truth, proj : Truth, until : Nat \cup {Forever}]
Times == Nat \cup {Forever}

Believed(fs, f) == fs[f] # Absent /\ (fs[f].truth \in Literals \/ fs[f].proj \in Literals)

\* What is believed of f is so in the world w.
Agrees(fs, w, f) ==
  /\ fs[f].truth \in Literals => w[f] = fs[f].truth
  /\ fs[f].proj \in Literals => w[f] = fs[f].proj

\* What is believed of f is owed for as long as it is believed, and is so unless
\* it ran out between the times c and n.
Founded(fs, w, v, c, n, f) ==
  Believed(fs, f) => ~Sooner(v[f], fs[f].until) /\ (Agrees(fs, w, f) \/ RunsOut(v[f], c, n))

\* An entry is an observation, or a projection without an end.
Shaped(e) == e # Absent => e.truth = e.proj \/ (e.truth = "UNKNOWN" /\ e.until = Forever)

\* The values of the variables; entries are shaped as the code leaves them.
ValueInv ==
  /\ epi_phase \in {"observe", "claim", "simulate", "done"}
  /\ facts \in [Facts -> FactEntry \cup {Absent}] /\ \A f \in Facts : Shaped(facts[f])
  /\ sim_steps \in Seq(ActionCatalog) /\ clock \in Nat
  /\ registry \in BOOLEAN /\ unknown \in BOOLEAN /\ borrowed \in BOOLEAN /\ broke \in BOOLEAN
  /\ epi_world \in [Facts -> Literals] /\ vouch \in [Facts -> Times]

\* Until the verdict, a plan that may still pass has kept its promise.
PromiseInv ==
  /\ epi_phase # "done" => verdict = "none"
  /\ epi_phase \in {"observe", "claim"} => ~unknown /\ ~broke
  /\ epi_phase = "observe" => \A f \in Facts : facts[f] # Absent => facts[f].truth = facts[f].proj
  /\ epi_phase \in {"claim", "simulate"} /\ ~borrowed =>
       \A f \in Facts : Founded(facts, epi_world, vouch, clock, EndTime, f)
  /\ epi_phase \in {"observe", "claim"} => sim_steps = <<>>
  /\ epi_phase = "simulate" /\ ~borrowed /\ ~unknown => ~broke

\* What makes PassHolds inductive.
EpistemicInv == ValueInv /\ PromiseInv /\ PassHolds

\* What the simulation supports is so, or has just run out.
LEMMA SupportedHolds ==
  ASSUME NEW fs, NEW w, NEW v, NEW c, NEW n, NEW f, NEW want \in Literals,
         Founded(fs, w, v, c, n, f), Supports(fs, f, want)
  PROVE  w[f] = want \/ RunsOut(v[f], c, n)
BY DEF Founded, Believed, Agrees, Supports, Emp, Proj, Literals

\* Constraints that are neither violated nor undecided hold, or have just run out.
LEMMA DecidedHold ==
  ASSUME NEW fs, NEW w, NEW v, NEW c, NEW n, \A f \in Facts : Founded(fs, w, v, c, n, f),
         NEW hs \in SUBSET Constraints, ~Violated(fs, hs), ~Undecided(fs, hs)
  PROVE  \A h \in hs : w[h.fact] = h.want \/ RunsOut(v[h.fact], c, n)
<1> TAKE h \in hs
<1>1. h.fact \in Facts /\ h.want \in Literals
  BY EpistemicAssumption DEF EpistemicAssumption
<1>2. Supports(fs, h.fact, h.want)
  BY DEF Violated, Undecided
<1> QED
  BY <1>1, <1>2, SupportedHolds

\* What is still believed at t is owed at t, and so.
LEMMA DecayedOwed ==
  ASSUME NEW fs \in [Facts -> FactEntry \cup {Absent}], NEW w, NEW v \in [Facts -> Times],
         NEW c, NEW t \in Nat,
         NEW f \in Facts, Shaped(fs[f]), Founded(fs, w, v, c, t, f), Believed(Decayed(fs, t), f)
  PROVE  /\ ~Sooner(v[f], t) /\ ~Sooner(v[f], Decayed(fs, t)[f].until)
         /\ Agrees(Decayed(fs, t), w, f)
<1> DEFINE e == fs[f]
<1>1. e # Absent /\ e \in FactEntry
  BY DEF Believed, Decayed, Literals
<1>2. ~(Sooner(e.until, t) /\ e.truth # "UNKNOWN")
  BY <1>1 DEF Believed, Decayed, Literals, FactEntry
<1>3. Decayed(fs, t)[f] = e
  BY <1>2 DEF Decayed
<1>4. e.truth \in Literals \/ e.proj \in Literals
  BY <1>1, <1>3 DEF Believed
<1>5. ~Sooner(v[f], e.until) /\ (Agrees(fs, w, f) \/ RunsOut(v[f], c, t))
  BY <1>1, <1>4 DEF Founded, Believed
<1>6. ~Sooner(e.until, t)
  BY <1>1, <1>2, <1>4 DEF Shaped, Literals, Sooner
<1>7. e.until \in Times /\ v[f] \in Times
  BY <1>1 DEF FactEntry, Times
<1>8. ~Sooner(v[f], t)
  BY <1>5, <1>6, <1>7, EpistemicAssumption DEF Sooner, Times, EpistemicAssumption
<1>9. Agrees(fs, w, f)
  BY <1>5, <1>8 DEF RunsOut
<1> QED
  BY <1>3, <1>5, <1>8, <1>9 DEF Agrees

\* Decay keeps the shape of the entries.
LEMMA DecayedShape ==
  ASSUME NEW fs \in [Facts -> FactEntry \cup {Absent}], \A f \in Facts : Shaped(fs[f]), NEW t \in Nat
  PROVE  /\ Decayed(fs, t) \in [Facts -> FactEntry \cup {Absent}]
         /\ \A f \in Facts : Shaped(Decayed(fs, t)[f])
<1> SUFFICES ASSUME NEW f \in Facts
             PROVE  Decayed(fs, t)[f] \in FactEntry \cup {Absent} /\ Shaped(Decayed(fs, t)[f])
  BY DEF Decayed
<1> DEFINE Ends == fs[f] # Absent /\ Sooner(fs[f].until, t) /\ fs[f].truth # "UNKNOWN"
           Ended == [fs[f] EXCEPT !.truth = "UNKNOWN", !.proj = "UNKNOWN"]
<1>0. Decayed(fs, t)[f] = IF Ends THEN Ended ELSE fs[f]
  BY DEF Decayed
<1> HIDE DEF Ended
<1>1. Decayed(fs, t)[f] = fs[f] \/ (Decayed(fs, t)[f] = Ended /\ fs[f] # Absent)
  BY <1>0
<1> USE DEF Ended
<1>2. CASE Decayed(fs, t)[f] = fs[f]
  BY <1>2
<1>3. CASE Decayed(fs, t)[f] = Ended /\ fs[f] # Absent
  <2>1. fs[f] \in FactEntry
    BY <1>3
  <2>2. Decayed(fs, t)[f] = [truth |-> "UNKNOWN", proj |-> "UNKNOWN", until |-> fs[f].until]
    BY <1>3, <2>1 DEF FactEntry
  <2> QED
    BY <2>1, <2>2 DEF FactEntry, Truth, Shaped
<1> QED
  BY <1>1, <1>2, <1>3

\* So does the projection of an action.
LEMMA ProjectedShape ==
  ASSUME NEW fs \in [Facts -> FactEntry \cup {Absent}], \A f \in Facts : Shaped(fs[f]),
         NEW a, NEW certain
  PROVE  /\ Projected(fs, a, certain) \in [Facts -> FactEntry \cup {Absent}]
         /\ \A f \in Facts : Shaped(Projected(fs, a, certain)[f])
<1> SUFFICES ASSUME NEW f \in Facts
             PROVE  Projected(fs, a, certain)[f] \in FactEntry \cup {Absent} /\ Shaped(Projected(fs, a, certain)[f])
  BY DEF Projected
<1>1. CASE f \notin a.pos \cup a.neg
  BY <1>1 DEF Projected
<1>2. CASE f \in a.pos \cup a.neg
  <2>1. PICK p \in Truth : Projected(fs, a, certain)[f] = [truth |-> "UNKNOWN", until |-> Forever, proj |-> p]
    BY <1>2 DEF Projected, Truth
  <2> QED
    BY <2>1 DEF FactEntry, Truth, Shaped
<1> QED
  BY <1>1, <1>2

\* From t to the end of an action: its effects are so when it is certain and are
\* not believed otherwise; the rest is as it was, unless it has run out.
LEMMA ProjectedFounded ==
  ASSUME NEW fs, NEW w, NEW x, NEW v, NEW t, NEW n, NEW a, NEW certain, NEW f \in Facts,
         Believed(fs, f) => ~Sooner(v[f], t) /\ ~Sooner(v[f], fs[f].until) /\ Agrees(fs, w, f),
         NEW owed, owed[f] = IF f \in a.pos \cup a.neg /\ certain /\ Witnessable(a, f) THEN Forever
                             ELSE IF f \in a.pos \cup a.neg THEN 0 ELSE v[f],
         Sooner(owed[f], n) \/
           x[f] = IF f \in a.pos \cup a.neg /\ certain /\ Witnessable(a, f)
                  THEN IF f \in a.pos THEN "TRUE" ELSE "FALSE"
                  ELSE w[f]
  PROVE  Founded(Projected(fs, a, certain), x, owed, t, n, f)
<1> DEFINE next == Projected(fs, a, certain)
<1>1. CASE f \notin a.pos \cup a.neg
  <2>1. next[f] = fs[f] /\ owed[f] = v[f] /\ (Sooner(v[f], n) \/ x[f] = w[f])
    BY <1>1 DEF Projected
  <2>2. ASSUME Believed(fs, f) PROVE ~Sooner(owed[f], fs[f].until) /\ (Agrees(fs, x, f) \/ RunsOut(owed[f], t, n))
    BY <2>1, <2>2 DEF RunsOut, Agrees
  <2> QED
    BY <2>1, <2>2 DEF Founded, Believed, Agrees
<1>2. CASE f \in a.pos \cup a.neg
  <2>1. /\ next[f].truth = "UNKNOWN" /\ next[f].until = Forever
        /\ next[f].proj =
             IF ~certain \/ ~Witnessable(a, f) THEN "UNKNOWN" ELSE IF f \in a.pos THEN "TRUE" ELSE "FALSE"
    BY <1>2 DEF Projected
  <2>2. ASSUME Believed(next, f)
        PROVE  ~Sooner(owed[f], next[f].until) /\ Agrees(next, x, f)
    <3>1. certain /\ Witnessable(a, f)
      BY <2>1, <2>2 DEF Believed, Literals
    <3>2. owed[f] = Forever /\ ~Sooner(owed[f], n) /\ ~Sooner(owed[f], next[f].until)
      BY <1>2, <3>1 DEF Sooner
    <3>3. x[f] = next[f].proj
      BY <1>2, <2>1, <3>1, <3>2
    <3> QED
      BY <2>1, <3>2, <3>3 DEF Agrees, Literals
  <2> QED
    BY <2>2 DEF Founded
<1> QED
  BY <1>1, <1>2

\* One action: the whole step, seen from the facts.
LEMMA SimulateKept ==
  ASSUME EpistemicInv, NEW a \in ActionCatalog, NEW after \in [Facts -> Literals], Simulate(a, after)
  PROVE  EpistemicInv'
<1> DEFINE time == EndTime
           end == time + a.takes
           fs == Decayed(facts, time)
           certain == ~ \/ registry /\ a.cap = Absent
                        \/ ~registry /\ a.pos \cup a.neg # {}
                        \/ \E p \in a.pre : ~Supports(fs, p.fact, p.want)
           next == Projected(fs, a, certain)
           hs == InForce(Len(Append(sim_steps, a)), Append(sim_steps, a))
           sure == {f \in a.pos \cup a.neg : certain /\ Witnessable(a, f)}
           owed == [f \in Facts |-> IF f \in sure THEN Forever
                                  ELSE IF f \in a.pos \cup a.neg THEN 0 ELSE vouch[f]]
           refused == \/ registry /\ a.cap # Absent /\ ~Conforms(a)
                      \/ \E p \in a.pre : ~Supports(fs, p.fact, p.want) /\ Contradicts(fs, p.fact, p.want)
<1>1. time \in Nat
  <2>1. CASE sim_steps = <<>>
    BY <2>1 DEF EpistemicInv, ValueInv, EndTime
  <2>2. CASE sim_steps # <<>>
    <3>1. sim_steps[Len(sim_steps)] \in ActionCatalog
      BY <2>2 DEF EpistemicInv, ValueInv
    <3> QED
      BY <2>2, <3>1, EpistemicAssumption DEF EpistemicInv, ValueInv, EpistemicAssumption, EndTime
  <2> QED
    BY <2>1, <2>2
<1>2. /\ epi_phase = "simulate" /\ clock' = time /\ sim_steps' = Append(sim_steps, a)
      /\ epi_world' = after /\ registry' = registry /\ borrowed' = borrowed /\ vouch' = owed
      /\ broke' = \/ broke \/ \E p \in a.pre : epi_world[p.fact] # p.want
                  \/ \E h \in hs : after[h.fact] # h.want /\ ~RunsOut(owed[h.fact], time, end)
      /\ IF refused THEN verdict' = "FAIL" /\ epi_phase' = "done" /\ facts' = fs /\ unknown' = unknown
         ELSE /\ facts' = next
              /\ unknown' = \/ unknown
                            \/ ~certain /\ (a.pre # {} \/ a.pos \cup a.neg # {})
                            \/ \E f \in a.pos \cup a.neg : ~Witnessable(a, f)
                            \/ Undecided(next, hs)
              /\ IF Violated(next, hs) THEN verdict' = "FAIL" /\ epi_phase' = "done"
                 ELSE epi_phase' = epi_phase /\ verdict' = verdict
  BY DEF Simulate, Verdict
<1>3. \A f \in Facts : Sooner(owed[f], end) \/
        after[f] = IF f \in sure \cap a.pos THEN "TRUE" ELSE IF f \in sure THEN "FALSE" ELSE epi_world[f]
  BY DEF Simulate
<1>4. \A f \in Facts : f \in sure <=> f \in a.pos \cup a.neg /\ certain /\ Witnessable(a, f)
  OBVIOUS
<1>5. end = EndTime'
  <2>1. Append(sim_steps, a) # <<>> /\ Append(sim_steps, a)[Len(Append(sim_steps, a))] = a
    BY DEF EpistemicInv, ValueInv
  <2> QED
    BY <1>2, <2>1 DEF EndTime
<1>6. \A f \in Facts : owed[f] = IF f \in sure THEN Forever ELSE IF f \in a.pos \cup a.neg THEN 0 ELSE vouch[f]
  OBVIOUS
<1>7. owed \in [Facts -> Times]
  BY DEF EpistemicInv, ValueInv, Times
<1> HIDE DEF time, end, certain, hs, refused, sure, owed
<1>8. fs \in [Facts -> FactEntry \cup {Absent}] /\ \A f \in Facts : Shaped(fs[f])
  BY <1>1, DecayedShape DEF EpistemicInv, ValueInv
<1> HIDE DEF fs
<1>9. next \in [Facts -> FactEntry \cup {Absent}] /\ \A f \in Facts : Shaped(next[f])
  BY <1>8, ProjectedShape
<1>10. ValueInv'
  <2>1. broke' \in BOOLEAN /\ unknown' \in BOOLEAN
    BY <1>2 DEF EpistemicInv, ValueInv
  <2>2. sim_steps' \in Seq(ActionCatalog)
    BY <1>2 DEF EpistemicInv, ValueInv
  <2>3. facts' \in [Facts -> FactEntry \cup {Absent}] /\ \A f \in Facts : Shaped(facts'[f])
    BY <1>2, <1>8, <1>9
  <2>4. epi_phase' \in {"observe", "claim", "simulate", "done"}
    BY <1>2
  <2> QED
    BY <1>1, <1>2, <1>7, <2>1, <2>2, <2>3, <2>4 DEF EpistemicInv, ValueInv, Shaped
<1>11. CASE epi_phase' = "done"
  <2>1. verdict' = "FAIL"
    BY <1>2, <1>11
  <2> QED
    BY <1>10, <1>11, <2>1 DEF EpistemicInv, PromiseInv, PassHolds
<1>12. CASE epi_phase' # "done"
  <2>1. /\ ~refused /\ facts' = next /\ ~Violated(next, hs) /\ epi_phase' = "simulate"
        /\ verdict' = "none"
    BY <1>2, <1>12 DEF EpistemicInv, PromiseInv
  <2>2. ASSUME ~borrowed, NEW f \in Facts, Believed(fs, f)
        PROVE  /\ ~Sooner(vouch[f], time) /\ ~Sooner(vouch[f], fs[f].until)
               /\ Agrees(fs, epi_world, f)
    <3>1. Founded(facts, epi_world, vouch, clock, time, f) /\ Shaped(facts[f])
      BY <1>2, <2>2 DEF EpistemicInv, ValueInv, PromiseInv, time
    <3> QED
      BY <1>1, <2>2, <3>1, DecayedOwed DEF EpistemicInv, ValueInv, fs
  <2>3. ASSUME ~borrowed PROVE \A f \in Facts : Founded(next, after, owed, time, end, f)
    <3> TAKE f \in Facts
    <3>1. owed[f] = IF f \in a.pos \cup a.neg /\ certain /\ Witnessable(a, f) THEN Forever
                    ELSE IF f \in a.pos \cup a.neg THEN 0 ELSE vouch[f]
      BY <1>4, <1>6
    <3>2. Sooner(owed[f], end) \/
             after[f] = IF f \in a.pos \cup a.neg /\ certain /\ Witnessable(a, f)
                        THEN IF f \in a.pos THEN "TRUE" ELSE "FALSE"
                        ELSE epi_world[f]
      BY <1>3, <1>4
    <3> QED
      BY <2>2, <2>3, <3>1, <3>2, ProjectedFounded
  <2>4. ASSUME ~borrowed, ~unknown' PROVE ~broke'
    <3>1. ~unknown /\ ~broke /\ ~Undecided(next, hs) /\ (certain \/ a.pre = {})
      BY <1>2, <2>1, <2>4 DEF EpistemicInv, PromiseInv
    <3>2. ASSUME NEW p \in a.pre PROVE epi_world[p.fact] = p.want
      <4>1. Supports(fs, p.fact, p.want)
        BY <3>1, <3>2 DEF certain
      <4>2. p.fact \in Facts /\ p.want \in Literals
        BY <3>2, EpistemicAssumption DEF EpistemicAssumption, Conditions
      <4>3. Believed(fs, p.fact)
        BY <4>1, <4>2 DEF Supports, Believed, Emp, Proj, Literals
      <4>4. Agrees(fs, epi_world, p.fact)
        BY <2>2, <2>4, <4>2, <4>3
      <4> QED
        BY <4>1, <4>2, <4>3, <4>4 DEF Agrees, Supports, Believed, Emp, Proj
    <3>3. \A h \in hs : after[h.fact] = h.want \/ RunsOut(owed[h.fact], time, end)
      <4>1. hs \in SUBSET Constraints
        BY DEF hs, InForce
      <4> QED
        BY <2>1, <2>3, <2>4, <3>1, <4>1, DecidedHold
    <3> QED
      BY <1>2, <3>1, <3>2, <3>3
  <2>5. PromiseInv' /\ PassHolds'
    <3>1. ~borrowed => \A f \in Facts : Founded(facts, epi_world, vouch, clock, EndTime, f)'
      <4>1. ASSUME NEW f \in Facts
            PROVE  Founded(facts, epi_world, vouch, clock, EndTime, f)' <=>
                   Founded(next, after, owed, time, end, f)
        BY <1>2, <1>5, <2>1 DEF Founded, Believed, Agrees, RunsOut, Sooner
      <4> QED
        BY <2>3, <4>1
    <3> QED
      BY <1>2, <2>1, <2>4, <3>1 DEF PromiseInv, PassHolds
  <2> QED
    BY <1>10, <2>5 DEF EpistemicInv
<1> QED
  BY <1>11, <1>12

\* An observation is merged into the snapshot.
LEMMA ObserveKept ==
  ASSUME EpistemicInv, NEW f \in Facts, NEW truth \in Truth, NEW until \in Lifetimes, Observe(f, truth, until)
  PROVE  EpistemicInv'
<1> DEFINE t == Normalized(truth, until)
           merged == IF facts[f] = Absent THEN t ELSE merge_fact_truth(facts[f].truth, t)
           end == IF facts[f] = Absent THEN until ELSE facts[f].until
<1>1. t \in Truth /\ until \in Times
  BY EpistemicAssumption DEF Normalized, Truth, Times, EpistemicAssumption
<1>2. merged \in Truth /\ end \in Times
  BY <1>1 DEF merge_fact_truth, EpistemicInv, ValueInv, FactEntry, Truth, Times
<1>3. /\ epi_phase = "observe" /\ facts' = [facts EXCEPT ![f] = [truth |-> merged, proj |-> merged, until |-> end]]
      /\ vouch' = [vouch EXCEPT ![f] = IF t = "UNKNOWN" \/ Sooner(until, @) THEN @ ELSE until]
      /\ UNCHANGED <<epi_phase, sim_steps, clock, registry, unknown, verdict, epi_world, borrowed, broke>>
  BY DEF Observe
<1>4. facts' \in [Facts -> FactEntry \cup {Absent}] /\ vouch' \in [Facts -> Times]
  BY <1>1, <1>2, <1>3 DEF EpistemicInv, ValueInv, FactEntry, Times
<1>5. \A g \in Facts : facts'[g] # Absent => facts'[g].truth = facts'[g].proj
  BY <1>2, <1>3 DEF EpistemicInv, ValueInv, PromiseInv
<1> QED
  BY <1>3, <1>4, <1>5 DEF EpistemicInv, ValueInv, PromiseInv, PassHolds, Shaped

\* Whoever starts from a snapshot starts from what is so.
LEMMA SnapshotKept ==
  ASSUME EpistemicInv, NEW w \in [Facts -> Literals], NEW reg \in BOOLEAN, Snapshot(w, reg)
  PROVE  EpistemicInv'
<1>1. /\ epi_phase = "observe" /\ epi_world' = w /\ registry' = reg /\ borrowed' = Borrowed
      /\ UNCHANGED <<facts, sim_steps, clock, unknown, vouch, broke>>
      /\ \/ verdict' = "FAIL" /\ epi_phase' = "done"
         \/ epi_phase' = "claim" /\ verdict' = verdict
  BY DEF Snapshot, Verdict
<1>2. ASSUME ~borrowed', NEW f \in Facts PROVE Founded(facts, w, vouch, clock, EndTime, f)
  <2>1. Emp(facts, f) \in Literals => w[f] = Emp(facts, f)
    BY DEF Snapshot
  <2>2. facts[f] # Absent => facts[f].truth = facts[f].proj
    BY <1>1 DEF EpistemicInv, PromiseInv
  <2>3. facts[f] # Absent /\ facts[f].truth \in Literals => ~Sooner(vouch[f], facts[f].until)
    BY <1>1, <1>2 DEF Borrowed
  <2> QED
    BY <2>1, <2>2, <2>3 DEF Founded, Believed, Agrees, Emp
<1>3. ValueInv'
  BY <1>1 DEF EpistemicInv, ValueInv, Borrowed, Shaped
<1>4. PromiseInv' /\ PassHolds'
  BY <1>1, <1>2 DEF EpistemicInv, PromiseInv, PassHolds, Founded, Believed, Agrees, EndTime
<1> QED
  BY <1>3, <1>4 DEF EpistemicInv

\* The claims of the planner are not believed.
LEMMA ClaimKept == ASSUME EpistemicInv, NEW claims, Claim(claims) PROVE EpistemicInv'
<1> DEFINE hs == InForce(0, sim_steps)
<1>1. /\ epi_phase = "claim" /\ UNCHANGED <<facts, sim_steps, clock, registry, epi_world, vouch, borrowed>>
      /\ \/ verdict' = "FAIL" /\ epi_phase' = "done" /\ UNCHANGED <<unknown, broke>>
         \/ /\ ~Violated(facts, hs) /\ epi_phase' = "simulate" /\ unknown' = Undecided(facts, hs)
            /\ broke' = (\E h \in hs : epi_world[h.fact] # h.want) /\ verdict' = verdict
  BY DEF Claim, Verdict
<1>2. ASSUME epi_phase' = "simulate", ~borrowed, ~unknown' PROVE ~broke'
  <2>1. ~Violated(facts, hs) /\ ~Undecided(facts, hs)
    BY <1>1, <1>2
  <2>2. hs \in SUBSET Constraints
    BY DEF InForce
  <2>3. \A f \in Facts : Founded(facts, epi_world, vouch, clock, clock, f)
    BY <1>1, <1>2 DEF EpistemicInv, PromiseInv, EndTime
  <2>4. \A h \in hs : epi_world[h.fact] = h.want
    BY <2>1, <2>2, <2>3, DecidedHold DEF RunsOut
  <2> QED
    BY <1>1, <1>2, <2>4
<1>3. ValueInv'
  BY <1>1 DEF EpistemicInv, ValueInv, Shaped, Undecided
<1>4. PromiseInv' /\ PassHolds'
  BY <1>1, <1>2 DEF EpistemicInv, PromiseInv, PassHolds, Founded, Believed, Agrees, EndTime
<1> QED
  BY <1>3, <1>4 DEF EpistemicInv

\* The verdict rests on what is supported at the end.
LEMMA ConcludePlanKept == ASSUME EpistemicInv, ConcludePlan PROVE EpistemicInv'
<1> DEFINE unmet == {c \in SuccessCriteria : ~Supports(facts, c.fact, c.want)}
           refuted == {c \in unmet : Contradicts(facts, c.fact, c.want)}
<1>1. /\ epi_phase = "simulate" /\ epi_phase' = "done" /\ unknown' = (unknown \/ unmet # refuted)
      /\ verdict' = IF refuted # {} THEN "FAIL" ELSE IF unknown \/ unmet # {} THEN "UNKNOWN" ELSE "PASS"
      /\ UNCHANGED <<facts, sim_steps, clock, registry, epi_world, vouch, borrowed, broke>>
  BY DEF ConcludePlan, Verdict
<1>2. ASSUME verdict' = "PASS", ~borrowed
      PROVE  ~broke /\ \A c \in SuccessCriteria :
                epi_world[c.fact] = c.want \/ RunsOut(vouch[c.fact], clock, EndTime)
  <2>1. ~unknown /\ unmet = {}
    BY <1>1, <1>2
  <2>2. ASSUME NEW c \in SuccessCriteria
        PROVE  epi_world[c.fact] = c.want \/ RunsOut(vouch[c.fact], clock, EndTime)
    <3>1. Supports(facts, c.fact, c.want)
      BY <2>1
    <3>2. c.fact \in Facts /\ c.want \in Literals
      BY EpistemicAssumption DEF EpistemicAssumption, Conditions
    <3> QED
      BY <1>1, <1>2, <3>1, <3>2, SupportedHolds DEF EpistemicInv, PromiseInv
  <2> QED
    BY <1>1, <1>2, <2>1, <2>2 DEF EpistemicInv, PromiseInv
<1>3. ValueInv'
  BY <1>1 DEF EpistemicInv, ValueInv, Shaped
<1>4. PromiseInv' /\ PassHolds'
  BY <1>1, <1>2 DEF PromiseInv, PassHolds, EndTime
<1> QED
  BY <1>3, <1>4 DEF EpistemicInv

\* PASS means that the plan works: in every world that agrees with the trusted
\* observations for as long as they last, each precondition holds when its action
\* starts, each active constraint after each action and the criteria at the end,
\* except for what an observation that ran out during that very action said
\* (validate_plan).
THEOREM PassMeansFeasible == EpistemicSpec => []PassHolds
<1>1. EpistemicInit => EpistemicInv
  <2> SUFFICES ASSUME EpistemicInit PROVE EpistemicInv
    OBVIOUS
  <2>1. facts \in [Facts -> FactEntry \cup {Absent}] /\ \A f \in Facts : Shaped(facts[f])
    BY DEF EpistemicInit, Shaped
  <2>2. epi_world \in [Facts -> Literals] /\ vouch \in [Facts -> Times]
    BY DEF EpistemicInit, Literals, Times
  <2>3. sim_steps \in Seq(ActionCatalog)
    BY DEF EpistemicInit
  <2>4. ValueInv
    BY <2>1, <2>2, <2>3 DEF EpistemicInit, ValueInv
  <2> QED
    BY <2>4 DEF EpistemicInit, EpistemicInv, PromiseInv, PassHolds
<1>2. EpistemicInv /\ [EpistemicNext]_epistemicVars => EpistemicInv'
  <2> SUFFICES ASSUME EpistemicInv, [EpistemicNext]_epistemicVars PROVE EpistemicInv'
    OBVIOUS
  <2>1. CASE UNCHANGED epistemicVars
    BY <2>1 DEF epistemicVars, EpistemicInv, ValueInv, PromiseInv, PassHolds, Shaped, Founded, Believed, Agrees, EndTime
  <2>2. ASSUME NEW f \in Facts, NEW t \in Truth \ {"CONFLICT"}, NEW u \in Lifetimes, Observe(f, t, u)
        PROVE  EpistemicInv'
    BY <2>2, ObserveKept
  <2>3. ASSUME NEW w \in [Facts -> Literals], NEW reg \in BOOLEAN, Snapshot(w, reg) PROVE EpistemicInv'
    BY <2>3, SnapshotKept
  <2>4. ASSUME NEW claims, Claim(claims) PROVE EpistemicInv'
    BY <2>4, ClaimKept
  <2>5. ASSUME NEW a \in ActionCatalog, NEW after \in [Facts -> Literals], Simulate(a, after)
        PROVE  EpistemicInv'
    BY <2>5, SimulateKept
  <2>6. CASE ConcludePlan
    BY <2>6, ConcludePlanKept
  <2> QED
    BY <2>1, <2>2, <2>3, <2>4, <2>5, <2>6 DEF EpistemicNext
<1>3. EpistemicInv => PassHolds
  BY DEF EpistemicInv
<1> QED
  BY <1>1, <1>2, <1>3, PTL DEF EpistemicSpec

(***************************************************************************)
(* The validator of textual plans.                                         *)
(***************************************************************************)

\* The tasks' numbers so far, ascending; each runs after those it depends on.
OrderInv ==
  /\ tasks \in Seq(TaskCatalog) /\ ids \in Seq(Nat) /\ Len(tasks) = Len(ids)
  /\ \A i, j \in DOMAIN ids : i < j => ids[i] <= ids[j]
  /\ runs => \A i \in DOMAIN ids : tasks[i].deps \subseteq {ids[j] : j \in 1 .. (i - 1)}

\* Every string is a fact that holds, and no fact is without a string; and when no
\* file was added by its bare path, what a task deleted after its last producer is gone.
StringsInv ==
  /\ DeletedByPath = {} =>
       /\ \A x : Key(x) \in state => x \in causal_world
       /\ \A x : Path(x) \in state => x \in causal_world /\ x \in Files
       /\ \A f \in Files : f \in causal_world => Path(f) \in state
       /\ \A x \in causal_world : Key(x) \in state \/ x \in AddedByPath
  /\ AddedByPath = {} =>
       /\ \A x : Path(x) \in DOMAIN produced => Key(x) \in DOMAIN produced
       /\ \A x, i : /\ Key(x) \in DOMAIN produced /\ i \in DOMAIN tasks
                    /\ produced[Key(x)] < ids[i] /\ Key(x) \in tasks[i].del
                    => x \notin causal_world

\* What makes CausalVerdict inductive.
CausalInv ==
  /\ OrderInv /\ StringsInv
  /\ causal_phase = "start" => tasks = <<>> /\ produced = <<>>
  /\ runs \in BOOLEAN
  /\ causal_phase # "done" => /\ "non_contiguous_sequence" \notin flaws
                              /\ DeletedByPath = {} =>
                                   /\ flaws \cap CausalFlaws = {} => runs
                                   /\ runs => flaws \cap CausalFlaws = {} \/ AddedByPath # {}
  /\ CausalVerdict

\* Names are told apart by what they name and how.
LEMMA NamesDiffer ==
  /\ \A x, y : Key(x) # Path(y) /\ (Key(x) = Key(y) => x = y) /\ (Path(x) = Path(y) => x = y)
  /\ \A x : Key(x)[2] = x /\ Path(x)[2] = x
BY DEF Key, Path

\* A fact has its key, and a file its path too.
LEMMA StringsOf ==
  /\ \A xs, x : Key(x) \in Strings(xs) <=> x \in xs
  /\ \A xs, x : Path(x) \in Strings(xs) <=> x \in xs /\ x \in Files
  /\ \A xs : \A s \in Strings(xs) : \E x \in xs : s = Key(x) \/ (x \in Files /\ s = Path(x))
<1>1. \A xs, s : s \in Strings(xs) <=> (\E x \in xs : s = Key(x)) \/ \E f \in xs \cap Files : s = Path(f)
  BY DEF Strings
<1> QED
  BY <1>1, NamesDiffer

\* "exists(f)" goes for both names of a file, its path for itself.
LEMMA NamesOf ==
  /\ \A ns, x : Key(x) \in Names(ns) <=> Key(x) \in ns
  /\ \A ns, x : Path(x) \in Names(ns) <=> Path(x) \in ns \/ (x \in Files /\ Key(x) \in ns)
  /\ \A n, s : s \in Names({n}) => s = n \/ \E f \in Files : n = Key(f) /\ s = Path(f)
<1>1. \A ns, s : s \in Names(ns) <=> s \in ns \/ \E f \in Files : Key(f) \in ns /\ s = Path(f)
  BY DEF Names
<1> QED
  BY <1>1, NamesDiffer

\* What names speak of.
LEMMA NamedOf ==
  ASSUME NEW ns, ns \subseteq Strings(PlanFacts)
  PROVE  \A x : x \in Named(ns) <=> Key(x) \in ns \/ (x \in Files /\ Path(x) \in ns)
<1>1. \A x : x \in Named(ns) <=> \E n \in ns : x = n[2]
  BY DEF Named
<1>2. \A n \in ns : \E x : n = Key(x) \/ (x \in Files /\ n = Path(x))
  BY StringsOf
<1> QED
  BY <1>1, <1>2, NamesDiffer

\* A name is found in the state exactly when what it speaks of holds.
LEMMA FoundHolds ==
  ASSUME StringsInv, DeletedByPath = {}, NEW n \in Strings(PlanFacts)
  PROVE  state \cap Names({n}) # {} <=> n[2] \in causal_world
<1>1. PICK x : n = Key(x) \/ (x \in Files /\ n = Path(x))
  BY StringsOf
<1>2. n[2] = x
  BY <1>1, NamesDiffer
<1>3. AddedByPath \subseteq Files
  BY DEF AddedByPath
<1>4. CASE n = Key(x)
  <2>1. \A s \in Names({n}) : s = Key(x) \/ s = Path(x)
    BY <1>4, NamesOf, NamesDiffer
  <2>2. Key(x) \in Names({n}) /\ (x \in Files => Path(x) \in Names({n}))
    BY <1>4, NamesOf
  <2> QED
    BY <1>2, <1>3, <2>1, <2>2 DEF StringsInv
<1>5. CASE x \in Files /\ n = Path(x)
  <2>1. \A s \in Names({n}) : s = Path(x)
    BY <1>5, NamesOf, NamesDiffer
  <2>2. Path(x) \in Names({n})
    BY <1>5, NamesOf
  <2> QED
    BY <1>2, <1>5, <2>1, <2>2 DEF StringsInv
<1> QED
  BY <1>1, <1>4, <1>5

\* A threatened precondition is gone.
LEMMA ThreatIsReal ==
  ASSUME StringsInv, DeletedByPath = {}, AddedByPath = {}, NEW id, NEW n \in Strings(PlanFacts), Clobbered(n, id)
  PROVE  n[2] \notin causal_world
<1>1. PICK i \in DOMAIN tasks : Producer(n) < ids[i] /\ n \in tasks[i].del
  BY DEF Clobbered
<1>2. PICK x : n = Key(x) \/ (x \in Files /\ n = Path(x))
  BY StringsOf
<1>3. n = Key(x) /\ n[2] = x
  BY <1>1, <1>2, NamesDiffer DEF DeletedByPath
<1>4. Key(x) \in DOMAIN produced
  <2>1. PICK s \in DOMAIN produced : s \in Names({n})
    BY DEF Clobbered
  <2>2. s = Key(x) \/ s = Path(x)
    BY <1>3, <2>1, NamesOf, NamesDiffer
  <2> QED
    BY <2>1, <2>2 DEF StringsInv
<1>5. produced[Key(x)] < ids[i]
  BY <1>1, <1>3, <1>4 DEF Producer
<1> QED
  BY <1>1, <1>3, <1>4, <1>5 DEF StringsInv

\* What is required and not flawed holds, and what holds is not flawed.
LEMMA FlawsAreReal ==
  ASSUME StringsInv, DeletedByPath = {}, NEW id, NEW t \in TaskCatalog
  PROVE  LET met == Named(Requires(t)) \subseteq causal_world /\ Named(t.nopre) \cap causal_world = {}
         IN  /\ PreconditionFlaws(t, id) \cap CausalFlaws = {} => met
             /\ met /\ AddedByPath = {} => PreconditionFlaws(t, id) = {}
<1>1. t.nopre \subseteq Strings(PlanFacts) /\ Requires(t) \subseteq Strings(PlanFacts)
  BY TasksAssumption, StringsOf DEF TasksAssumption, Requires, PlanFacts
<1>2. /\ Named(Requires(t)) \subseteq causal_world <=> \A n \in Requires(t) : n[2] \in causal_world
      /\ Named(t.nopre) \cap causal_world = {} <=> \A n \in t.nopre : n[2] \notin causal_world
  BY DEF Named
<1>3. Unsatisfied(t, id) <=> \/ \E n \in t.nopre : n[2] \in causal_world
                          \/ \E n \in Requires(t) : ~Clobbered(n, id) /\ n[2] \notin causal_world
  BY <1>1, FoundHolds DEF Unsatisfied
<1>4. PreconditionFlaws(t, id) \subseteq CausalFlaws
  BY DEF PreconditionFlaws, CausalFlaws
<1>5. PreconditionFlaws(t, id) = {} <=> ~Unsatisfied(t, id) /\ \A n \in Requires(t) : ~Clobbered(n, id)
  BY DEF PreconditionFlaws
<1>6. AddedByPath = {} => \A n \in Requires(t) : Clobbered(n, id) => n[2] \notin causal_world
  BY <1>1, ThreatIsReal
<1> QED
  BY <1>2, <1>3, <1>4, <1>5, <1>6

\* One task, in the validator and in the world.
LEMMA TaskKept == ASSUME CausalInv, NEW id \in Ids, NEW t \in TaskCatalog, Task(id, t) PROVE CausalInv'
<1> DEFINE Known == {ids[i] : i \in DOMAIN ids}
           met == Named(Requires(t)) \subseteq causal_world /\ Named(t.nopre) \cap causal_world = {}
<1>0. id \in Nat /\ DOMAIN ids = 1 .. Len(ids) /\ DOMAIN tasks = 1 .. Len(ids) /\ Len(ids) \in Nat
  BY TasksAssumption DEF TasksAssumption, CausalInv, OrderInv
<1>1. /\ causal_phase = "simulate" /\ causal_phase' = "simulate"
      /\ ids # <<>> => ids[Len(ids)] <= id
      /\ tasks' = Append(tasks, t) /\ ids' = Append(ids, id)
      /\ flaws' = flaws \cup PreconditionFlaws(t, id)
                    \cup (IF t.deps \subseteq Known THEN {} ELSE {"unsatisfied_dependency"})
      /\ state' = (state \ Deletes(t)) \cup Produces(t)
      /\ produced' = [s \in DOMAIN produced \cup Produces(t) |-> IF s \in Produces(t) THEN id ELSE produced[s]]
      /\ causal_world' = (causal_world \ Named(t.del)) \cup Named(t.add) \cup t.writes
      /\ runs' = (runs /\ met /\ t.deps \subseteq Known)
  BY DEF Task
<1>2. /\ DOMAIN ids' = 1 .. (Len(ids) + 1) /\ DOMAIN tasks' = DOMAIN ids' /\ DOMAIN ids \subseteq DOMAIN ids'
      /\ \A i \in DOMAIN ids : ids'[i] = ids[i] /\ tasks'[i] = tasks[i]
      /\ ids'[Len(ids) + 1] = id /\ tasks'[Len(ids) + 1] = t
      /\ \A i \in DOMAIN ids' : i \in DOMAIN ids \/ i = Len(ids) + 1
  BY <1>0, <1>1 DEF CausalInv, OrderInv
<1>3. \A i \in DOMAIN ids' : ids'[i] <= id
  <2>1. \A i \in DOMAIN ids : ids[i] <= ids[Len(ids)] /\ ids[i] \in Nat
    BY <1>0 DEF CausalInv, OrderInv
  <2>2. \A i \in DOMAIN ids : ids[i] <= id
    BY <1>0, <1>1, <2>1
  <2> QED
    BY <1>0, <1>2, <2>2
<1>4. OrderInv'
  <2>1. tasks' \in Seq(TaskCatalog) /\ ids' \in Seq(Nat) /\ Len(tasks') = Len(ids')
    BY <1>0, <1>1 DEF CausalInv, OrderInv
  <2>2. \A i, j \in DOMAIN ids' : i < j => ids'[i] <= ids'[j]
    BY <1>0, <1>2, <1>3 DEF CausalInv, OrderInv
  <2>3. ASSUME runs', NEW i \in DOMAIN ids' PROVE tasks'[i].deps \subseteq {ids'[j] : j \in 1 .. (i - 1)}
    <3>1. CASE i \in DOMAIN ids
      <4>1. tasks'[i].deps \subseteq {ids[j] : j \in 1 .. (i - 1)}
        BY <1>1, <1>2, <2>3, <3>1 DEF CausalInv, OrderInv
      <4>2. \A j \in 1 .. (i - 1) : ids'[j] = ids[j]
        BY <1>0, <1>2, <3>1
      <4> QED
        BY <4>1, <4>2
    <3>2. CASE i = Len(ids) + 1
      <4>1. t.deps \subseteq Known /\ tasks'[i] = t
        BY <1>1, <1>2, <2>3, <3>2
      <4>2. \A j \in 1 .. (i - 1) : ids'[j] = ids[j]
        BY <1>0, <1>2, <3>2
      <4>3. 1 .. (i - 1) = DOMAIN ids
        BY <1>0, <3>2
      <4> QED
        BY <4>1, <4>2, <4>3
    <3> QED
      BY <1>2, <3>1, <3>2
  <2> QED
    BY <2>1, <2>2, <2>3 DEF OrderInv
<1>5. /\ DeletedByPath' = {} => DeletedByPath = {} /\ \A f \in Files : Path(f) \notin t.del
      /\ AddedByPath \subseteq AddedByPath' /\ \A f \in Files : Path(f) \in t.add => f \in AddedByPath'
  BY <1>0, <1>2 DEF DeletedByPath, AddedByPath
<1>6. /\ \A x : x \in Named(t.add) <=> Key(x) \in t.add \/ (x \in Files /\ Path(x) \in t.add)
      /\ \A x : x \in Named(t.del) <=> Key(x) \in t.del \/ (x \in Files /\ Path(x) \in t.del)
      /\ t.add \subseteq Strings(PlanFacts) /\ t.del \subseteq Strings(PlanFacts) /\ t.writes \subseteq Files
  <2>1. t.add \subseteq Strings(PlanFacts) /\ t.del \subseteq Strings(PlanFacts) /\ t.writes \subseteq Files
    BY TasksAssumption DEF TasksAssumption
  <2> QED
    BY <2>1, NamedOf
<1>7. /\ \A x : Key(x) \in Produces(t) <=> Key(x) \in t.add \/ x \in t.writes
      /\ \A x : Path(x) \in Produces(t) <=>
                Path(x) \in t.add \/ (x \in Files /\ (Key(x) \in t.add \/ x \in t.writes))
      /\ \A x : Key(x) \in Deletes(t) <=> Key(x) \in t.del
      /\ \A x : Path(x) \in Deletes(t) <=> Path(x) \in t.del \/ (x \in Files /\ Key(x) \in t.del)
  BY NamesOf, StringsOf DEF Produces, Deletes
<1>8. \A x : Path(x) \in t.add => x \in Files
  BY <1>6, StringsOf
<1>9. ASSUME DeletedByPath' = {}
      PROVE  /\ \A x : Key(x) \in state' => x \in causal_world'
             /\ \A x : Path(x) \in state' => x \in causal_world' /\ x \in Files
             /\ \A f \in Files : f \in causal_world' => Path(f) \in state'
             /\ \A x \in causal_world' : Key(x) \in state' \/ x \in AddedByPath'
  <2>1. /\ \A x : Key(x) \in state => x \in causal_world
        /\ \A x : Path(x) \in state => x \in causal_world /\ x \in Files
        /\ \A f \in Files : f \in causal_world => Path(f) \in state
        /\ \A x \in causal_world : Key(x) \in state \/ x \in AddedByPath
        /\ \A x : x \in Named(t.del) <=> Key(x) \in t.del
    BY <1>5, <1>6, <1>9 DEF CausalInv, StringsInv
  <2>2. /\ \A s : s \in state' <=> (s \in state /\ s \notin Deletes(t)) \/ s \in Produces(t)
        /\ \A x : x \in causal_world' <=> \/ x \in causal_world /\ x \notin Named(t.del)
                                         \/ x \in Named(t.add) \/ x \in t.writes
    BY <1>1
  <2>3. ASSUME NEW x, Key(x) \in state' PROVE x \in causal_world'
    BY <1>6, <1>7, <2>1, <2>2, <2>3
  <2>4. ASSUME NEW x, Path(x) \in state' PROVE x \in causal_world' /\ x \in Files
    BY <1>6, <1>7, <1>8, <2>1, <2>2, <2>4
  <2>5. ASSUME NEW f \in Files, f \in causal_world' PROVE Path(f) \in state'
    BY <1>5, <1>6, <1>7, <1>9, <2>1, <2>2, <2>5
  <2>6. ASSUME NEW x \in causal_world' PROVE Key(x) \in state' \/ x \in AddedByPath'
    BY <1>5, <1>6, <1>7, <2>1, <2>2
  <2> QED
    BY <2>3, <2>4, <2>5, <2>6
<1>10. ASSUME AddedByPath' = {}
       PROVE  /\ \A x : Path(x) \in DOMAIN produced' => Key(x) \in DOMAIN produced'
              /\ \A x, i : /\ Key(x) \in DOMAIN produced' /\ i \in DOMAIN tasks'
                           /\ produced'[Key(x)] < ids'[i] /\ Key(x) \in tasks'[i].del
                           => x \notin causal_world'
  <2>1. AddedByPath = {} /\ \A x : Path(x) \notin t.add
    BY <1>5, <1>8, <1>10
  <2>2. /\ DOMAIN produced' = DOMAIN produced \cup Produces(t)
        /\ \A s \in DOMAIN produced' : produced'[s] = IF s \in Produces(t) THEN id ELSE produced[s]
    BY <1>1
  <2>3. ASSUME NEW x, Path(x) \in DOMAIN produced' PROVE Key(x) \in DOMAIN produced'
    BY <1>7, <2>1, <2>2, <2>3 DEF CausalInv, StringsInv
  <2>4. ASSUME NEW x, NEW i \in DOMAIN tasks', Key(x) \in DOMAIN produced',
               produced'[Key(x)] < ids'[i], Key(x) \in tasks'[i].del
        PROVE  x \notin causal_world'
    <3>1. ids'[i] \in Nat /\ ids'[i] <= id
      BY <1>2, <1>3, <1>4, <2>4 DEF OrderInv
    <3>2. Key(x) \notin Produces(t)
      BY <1>0, <2>2, <2>4, <3>1
    <3>3. Key(x) \in DOMAIN produced /\ produced'[Key(x)] = produced[Key(x)]
      BY <2>2, <2>4, <3>2
    <3>4. x \notin Named(t.add) /\ x \notin t.writes
      BY <1>6, <1>7, <2>1, <3>2
    <3>5. CASE i \in DOMAIN ids
      <4>1. ids'[i] = ids[i] /\ tasks'[i] = tasks[i] /\ i \in DOMAIN tasks
        BY <1>0, <1>2, <3>5
      <4>2. x \notin causal_world
        BY <2>1, <2>4, <3>3, <4>1 DEF CausalInv, StringsInv
      <4> QED
        BY <1>1, <3>4, <4>2
    <3>6. CASE i = Len(ids) + 1
      BY <1>1, <1>2, <1>6, <2>4, <3>4, <3>6
    <3> QED
      BY <1>2, <3>5, <3>6
  <2> QED
    BY <2>3, <2>4
<1>11. StringsInv'
  BY <1>9, <1>10 DEF StringsInv
<1>12. ASSUME DeletedByPath' = {}
       PROVE  /\ flaws' \cap CausalFlaws = {} => runs'
              /\ runs' => flaws' \cap CausalFlaws = {} \/ AddedByPath' # {}
  <2>1. /\ PreconditionFlaws(t, id) \cap CausalFlaws = {} => met
        /\ met /\ AddedByPath = {} => PreconditionFlaws(t, id) = {}
    BY <1>5, <1>12, FlawsAreReal DEF CausalInv
  <2>2. /\ flaws \cap CausalFlaws = {} => runs
        /\ runs => flaws \cap CausalFlaws = {} \/ AddedByPath # {}
    BY <1>1, <1>5, <1>12 DEF CausalInv
  <2>3. flaws' \cap CausalFlaws = {}
          <=> /\ flaws \cap CausalFlaws = {} /\ PreconditionFlaws(t, id) \cap CausalFlaws = {}
              /\ t.deps \subseteq Known
    BY <1>1 DEF CausalFlaws
  <2>4. AddedByPath' = {} => AddedByPath = {}
    BY <1>5
  <2> HIDE DEF met
  <2> QED
    BY <1>1, <2>1, <2>2, <2>3, <2>4 DEF met
<1>13. "non_contiguous_sequence" \notin flaws'
  BY <1>1 DEF CausalInv, PreconditionFlaws
<1>14. runs' \in BOOLEAN
  BY <1>1 DEF CausalInv
<1> QED
  BY <1>1, <1>4, <1>11, <1>12, <1>13, <1>14 DEF CausalInv, CausalVerdict

\* Of the tasks that wait for one another the first to run would have to wait.
LEMMA NoCycle ==
  ASSUME OrderInv, runs, ids = [i \in DOMAIN ids |-> i] PROVE ~Cyclic
<1> SUFFICES ASSUME NEW S \in SUBSET {ids[i] : i \in DOMAIN ids}, S # {},
                    \A n \in S : tasks[Max({i \in DOMAIN ids : ids[i] = n})].deps \cap S # {}
             PROVE  FALSE
  BY DEF Cyclic
<1>1. DOMAIN ids = 1 .. Len(ids) /\ Len(ids) \in Nat /\ \A i \in DOMAIN ids : ids[i] = i
  BY DEF OrderInv
<1>2. S \subseteq DOMAIN ids /\ S \subseteq Nat
  BY <1>1
<1>3. PICK m \in S : \A n \in S : m <= n
  BY <1>2, LeastNat
<1>4. {i \in DOMAIN ids : ids[i] = m} = {m}
  BY <1>1, <1>2
<1>5. Max({m}) = m
  BY <1>2 DEF Max
<1>6. PICK d \in S : d \in tasks[m].deps
  BY <1>4, <1>5
<1>7. PICK j \in 1 .. (m - 1) : d = ids[j]
  BY <1>2, <1>6, SMTT(30) DEF OrderInv
<1>8. d = j /\ j < m
  BY <1>1, <1>2, <1>7
<1> QED
  BY <1>2, <1>3, <1>8

\* The goal and the order of the tasks decide the rest.
LEMMA ConcludeTasksKept ==
  ASSUME CausalInv, NEW targets \in SUBSET Strings(PlanFacts), NEW absent \in SUBSET Strings(PlanFacts),
         ConcludeTasks(targets, absent)
  PROVE  CausalInv'
<1> DEFINE numbered == ids = [i \in DOMAIN ids |-> i]
           mixed == \E i, j \in DOMAIN tasks : \E f \in tasks[i].reads, g \in tasks[j].writes :
                       f # g /\ Stem[f] = Stem[g]
           reached == targets \subseteq state /\ absent \cap state = {}
           holds == Named(targets) \subseteq causal_world /\ Named(absent) \cap causal_world = {}
<1>1. /\ causal_phase = "simulate" /\ causal_phase' = "done"
      /\ flaws' = flaws \cup (IF numbered THEN {} ELSE {"non_contiguous_sequence"})
                    \cup (IF Cyclic THEN {"cyclic_dependency"} ELSE {})
                    \cup (IF mixed THEN {"type_mismatch"} ELSE {})
                    \cup (IF targets \subseteq state THEN {} ELSE {"unreachable_goal"})
                    \cup (IF absent \cap state = {} THEN {} ELSE {"unreachable_goal"})
                    \cup (IF Len(tasks) < MinTasks THEN {"resource_minimum_not_met"} ELSE {})
      /\ runs' = (runs /\ holds) /\ unwanted' = absent
      /\ UNCHANGED <<tasks, ids, state, produced, causal_world>>
  BY DEF ConcludeTasks
<1> HIDE DEF numbered, mixed
<1>2. OrderInv
  BY DEF CausalInv
<1>3. OrderInv' /\ StringsInv' /\ DeletedByPath' = DeletedByPath /\ AddedByPath' = AddedByPath /\ runs' \in BOOLEAN
  <2>1. DeletedByPath' = DeletedByPath /\ AddedByPath' = AddedByPath /\ runs' \in BOOLEAN
    BY <1>1 DEF CausalInv, DeletedByPath, AddedByPath
  <2>2. StringsInv'
    BY <1>1, <2>1 DEF CausalInv, StringsInv
  <2>3. OrderInv'
    BY <1>1 DEF CausalInv, OrderInv
  <2> QED
    BY <2>1, <2>2, <2>3
<1>4. /\ \A x : x \in Named(targets) <=> Key(x) \in targets \/ (x \in Files /\ Path(x) \in targets)
      /\ \A x : x \in Named(absent) <=> Key(x) \in absent \/ (x \in Files /\ Path(x) \in absent)
  BY NamedOf
<1>5. ASSUME DeletedByPath = {}
      PROVE  /\ reached => holds \/ \E f \in AddedByPath : Key(f) \in absent
             /\ holds /\ AddedByPath = {} => reached
  <2>1. /\ \A x : Key(x) \in state => x \in causal_world
        /\ \A x : Path(x) \in state => x \in causal_world /\ x \in Files
        /\ \A f \in Files : f \in causal_world => Path(f) \in state
        /\ \A x \in causal_world : Key(x) \in state \/ x \in AddedByPath
    BY <1>5 DEF CausalInv, StringsInv
  <2>2. ASSUME reached PROVE holds \/ \E f \in AddedByPath : Key(f) \in absent
    <3>1. Named(targets) \subseteq causal_world
      BY <1>4, <2>1, <2>2
    <3>2. ASSUME NEW x \in Named(absent), x \in causal_world PROVE x \in AddedByPath /\ Key(x) \in absent
      BY <1>4, <2>1, <2>2, <3>2
    <3> QED
      BY <3>1, <3>2
  <2>3. ASSUME holds, AddedByPath = {} PROVE reached
    <3>1. \A n \in targets \cup absent : \E x : n = Key(x) \/ (x \in Files /\ n = Path(x))
      BY StringsOf
    <3>2. ASSUME NEW n \in targets PROVE n \in state
      BY <1>4, <2>1, <2>3, <3>1
    <3>3. ASSUME NEW n \in absent PROVE n \notin state
      BY <1>4, <2>1, <2>3, <3>1
    <3> QED
      BY <3>2, <3>3
  <2> QED
    BY <2>2, <2>3
<1>6. flaws' \cap CausalFlaws = {} <=> flaws \cap CausalFlaws = {} /\ ~Cyclic /\ reached
  BY <1>1 DEF CausalFlaws
<1> HIDE DEF reached, holds
<1>7. ASSUME "non_contiguous_sequence" \notin flaws', DeletedByPath = {}
      PROVE  /\ flaws' \cap CausalFlaws = {} => runs' \/ \E f \in AddedByPath : Key(f) \in absent
             /\ runs' => flaws' \cap CausalFlaws = {} \/ AddedByPath # {}
  <2>1. /\ numbered
        /\ flaws \cap CausalFlaws = {} => runs
        /\ runs => flaws \cap CausalFlaws = {} \/ AddedByPath # {}
    BY <1>1, <1>7 DEF CausalInv
  <2>2. runs => ~Cyclic
    BY <1>2, <2>1, NoCycle DEF numbered
  <2> QED
    BY <1>1, <1>5, <1>6, <1>7, <2>1, <2>2
<1> QED
  BY <1>1, <1>3, <1>7 DEF CausalInv, CausalVerdict

\* The verdict on a textual plan is right both ways: a well numbered plan without a
\* causal flaw runs, each task finding what it requires and the goal reached, unless
\* the goal denies "exists(f)" of a file added by its path; and a plan that runs has no
\* causal flaw, unless a task adds a file by its path (CausalValidator.validate).
THEOREM VerdictIsRight == CausalSpec => []CausalVerdict
<1>1. CausalInit => CausalInv
  <2> SUFFICES ASSUME CausalInit PROVE CausalInv
    OBVIOUS
  <2>1. OrderInv
    BY DEF CausalInit, OrderInv
  <2>2. StringsInv
    BY DEF CausalInit, StringsInv
  <2> QED
    BY <2>1, <2>2 DEF CausalInit, CausalInv, CausalVerdict
<1>2. CausalInv /\ [CausalNext]_causalVars => CausalInv'
  <2> SUFFICES ASSUME CausalInv, [CausalNext]_causalVars PROVE CausalInv'
    OBVIOUS
  <2>1. CASE UNCHANGED causalVars
    BY <2>1 DEF causalVars, CausalInv, OrderInv, StringsInv, CausalVerdict, DeletedByPath, AddedByPath
  <2>2. ASSUME NEW initial \in SUBSET PlanFacts, Start(initial) PROVE CausalInv'
    <3>1. /\ tasks = <<>> /\ UNCHANGED <<tasks, ids, flaws, runs>>
          /\ causal_phase = "start" /\ causal_phase' = "simulate"
          /\ state' = Strings(initial) /\ causal_world' = initial /\ DOMAIN produced' = Strings(initial)
      BY <2>2 DEF Start, CausalInv
    <3>2. DeletedByPath' = DeletedByPath /\ AddedByPath' = AddedByPath /\ DOMAIN tasks' = {}
      BY <3>1 DEF DeletedByPath, AddedByPath
    <3>3. /\ \A x : Key(x) \in state' <=> x \in causal_world'
          /\ \A x : Path(x) \in state' <=> x \in causal_world' /\ x \in Files
      BY <3>1, StringsOf
    <3>4. StringsInv'
      BY <3>1, <3>2, <3>3 DEF StringsInv
    <3>5. OrderInv'
      BY <3>1 DEF CausalInv, OrderInv
    <3> QED
      BY <3>1, <3>2, <3>4, <3>5 DEF CausalInv, CausalVerdict
  <2>3. ASSUME NEW id \in Ids, NEW t \in TaskCatalog, Task(id, t) PROVE CausalInv'
    BY <2>3, TaskKept
  <2>4. ASSUME NEW n \in Strings(PlanFacts), ConcludeTasks({n}, {}) \/ ConcludeTasks({}, {n})
        PROVE  CausalInv'
    <3>1. {n} \in SUBSET Strings(PlanFacts) /\ {} \in SUBSET Strings(PlanFacts)
      OBVIOUS
    <3> QED
      BY <2>4, <3>1, ConcludeTasksKept
  <2> QED
    BY <2>1, <2>2, <2>3, <2>4 DEF CausalNext
<1>3. CausalInv => CausalVerdict
  BY DEF CausalInv
<1> QED
  BY <1>1, <1>2, <1>3, PTL DEF CausalSpec

(***************************************************************************)
(* The plan search.                                                        *)
(***************************************************************************)

\* A mean value in lowest terms is a fraction again.
LEMMA FractionType ==
  ASSUME NEW a \in Nat, NEW b \in Nat \ {0}
  PROVE  Fraction(a, b) \in Nat \X (Nat \ {0})
<1> DEFINE T == {d \in 1 .. b : Divides(d, a) /\ Divides(d, b)}
<1>1. 1 \in T
  BY DEF Divides
<1>2. T \in SUBSET (0 .. b)
  OBVIOUS
<1>3. PICK g \in T : \A e \in T : e <= g
  <2> HIDE DEF T
  <2>1. QED
    BY <1>1, <1>2, GreatestNat
<1>4. Gcd(a, b) \in 1 .. b /\ Divides(Gcd(a, b), b)
  <2>1. \E d \in 1 .. b : /\ Divides(d, a) /\ Divides(d, b)
                          /\ \A e \in 1 .. b : Divides(e, a) /\ Divides(e, b) => e <= d
    BY <1>3
  <2>2. QED
    BY <2>1 DEF Gcd
<1>5. \A g2 \in 1 .. b : Divides(g2, b) => a \div g2 \in Nat /\ b \div g2 \in Nat \ {0}
  <2> TAKE g2 \in 1 .. b
  <2> HAVE Divides(g2, b)
  <2>1. g2 \in Nat /\ g2 > 0
    OBVIOUS
  <2>2. a \div g2 \in Nat
    BY <2>1, SMT
  <2>3. b \div g2 \in Nat
    BY <2>1, SMT
  <2>4. b \div g2 # 0
    BY <2>1, SMT DEF Divides
  <2>5. QED
    BY <2>2, <2>3, <2>4
<1>6. QED
  BY <1>4, <1>5 DEF Fraction

\* The order of mean values is transitive.
LEMMA LessTransitive ==
  ASSUME NEW x \in Nat \X (Nat \ {0}), NEW y \in Nat \X (Nat \ {0}), NEW z \in Nat \X (Nat \ {0}),
         Less(x, y), Less(y, z)
  PROVE  Less(x, z)
<1>1. \A a, c, e \in Nat, b, d, f \in Nat \ {0} : a * d < c * b /\ c * f < e * d => a * f < e * b
  <2> TAKE a, c, e \in Nat, b, d, f \in Nat \ {0}
  <2> HAVE a * d < c * b /\ c * f < e * d
  <2>1. (a * d) * f < (c * b) * f
    BY SMT
  <2>2. (c * f) * b < (e * d) * b
    BY SMT
  <2>3. (a * f) * d < (e * b) * d
    BY <2>1, <2>2, SMT
  <2>4. QED
    BY <2>3, SMT
<1>2. QED
  BY <1>1 DEF Less

LEMMA BetterOrder ==
  ASSUME NEW x \in SearchNode, NEW y \in SearchNode, NEW z \in SearchNode
  PROVE  /\ ~Better(x, x)
         /\ Better(x, y) /\ Better(y, z) => Better(x, z)
<1>1. /\ x.q \in Nat \X (Nat \ {0}) /\ y.q \in Nat \X (Nat \ {0}) /\ z.q \in Nat \X (Nat \ {0})
      /\ x.value \in Int /\ y.value \in Int /\ z.value \in Int
  BY SearchAssumption DEF SearchNode
<1>2. ~Less(x.q, x.q)
  BY <1>1 DEF Less
<1>3. Less(z.q, y.q) /\ Less(y.q, x.q) => Less(z.q, x.q)
  BY <1>1, LessTransitive
<1>4. QED
  BY <1>1, <1>2, <1>3 DEF Better

\* A tree has a best node: the relation is an order, and the nodes are finite.
LEMMA BestIsThere ==
  ASSUME NEW ns, NEW s \in Nat, DOMAIN ns \subseteq 1 .. s, DOMAIN ns # {},
         \A n \in DOMAIN ns : ns[n] \in SearchNode
  PROVE  BestOf(ns) \in DOMAIN ns
<1> DEFINE D == DOMAIN ns
           B(n) == {k \in D : Better(ns[k], ns[n])}
           T == {Cardinality(B(n)) : n \in D}
<1>1. \A n : IsFiniteSet(B(n)) /\ Cardinality(B(n)) \in Nat
  <2> TAKE n
  <2>1. B(n) \in SUBSET (1 .. s)
    OBVIOUS
  <2> HIDE DEF B
  <2>2. QED
    BY <2>1, PlacesFinite
<1>2. \A n \in D : \A k \in B(n) : Cardinality(B(k)) < Cardinality(B(n))
  <2> TAKE n \in D
  <2> TAKE k \in B(n)
  <2>1. k \in D /\ Better(ns[k], ns[n])
    OBVIOUS
  <2>2. \A j \in B(k) : j \in B(n)
    <3> TAKE j \in B(k)
    <3>1. j \in D /\ Better(ns[j], ns[k])
      OBVIOUS
    <3>2. Better(ns[j], ns[n])
      BY <2>1, <3>1, BetterOrder
    <3>3. QED
      BY <3>1, <3>2
  <2>3. k \notin B(k)
    BY <2>1, BetterOrder
  <2>4. B(k) \subseteq B(n) /\ B(k) # B(n)
    BY <2>2, <2>3
  <2> HIDE DEF B
  <2>5. QED
    BY <1>1, <2>4, FS_Subset
<1>3. T \in SUBSET Nat /\ T # {}
  <2> HIDE DEF B
  <2>1. QED
    BY <1>1
<1>4. PICK c \in T : \A d \in T : c <= d
  <2> HIDE DEF T
  <2>1. QED
    BY <1>3, LeastNat
<1>5. PICK n \in D : c = Cardinality(B(n))
  OBVIOUS
<1>6. B(n) = {}
  <2> SUFFICES ASSUME NEW k \in B(n) PROVE FALSE
    OBVIOUS
  <2>1. k \in D /\ Cardinality(B(k)) < Cardinality(B(n))
    <3>1. k \in D
      OBVIOUS
    <3> HIDE DEF B
    <3>2. QED
      BY <1>2, <3>1
  <2>2. Cardinality(B(k)) \in T
    BY <2>1
  <2> HIDE DEF B
  <2>3. QED
    BY <1>1, <1>4, <1>5, <2>1, <2>2
<1>7. n \in Unbeaten(ns)
  BY <1>6 DEF Unbeaten
<1>8. Unbeaten(ns) \in SUBSET Nat /\ Unbeaten(ns) # {} /\ Unbeaten(ns) \subseteq D
  BY <1>7 DEF Unbeaten
<1>9. \E m \in Unbeaten(ns) : \A k \in Unbeaten(ns) : m <= k
  BY <1>8, LeastNat
<1>10. QED
  BY <1>8, <1>9 DEF BestOf

IsMap(f) == f = [x \in DOMAIN f |-> f[x]]

(* Reachability.                                                           *)
Inside(ns) == \A n \in DOMAIN ns : ns[n].children \subseteq DOMAIN ns

\* What is below S is the least closed set around S.
LEMMA BelowIsLeast ==
  ASSUME NEW ns, Inside(ns), NEW S \in SUBSET DOMAIN ns
  PROVE  /\ Below(ns, S) \subseteq DOMAIN ns /\ S \subseteq Below(ns, S) /\ Closed(ns, Below(ns, S))
         /\ \A C \in SUBSET DOMAIN ns : S \subseteq C /\ Closed(ns, C) => Below(ns, S) \subseteq C
<1>1. Closed(ns, Below(ns, S))
  <2> SUFFICES ASSUME NEW n \in Below(ns, S), NEW m \in ns[n].children PROVE m \in Below(ns, S)
    BY DEF Closed
  <2>1. n \in DOMAIN ns /\ m \in DOMAIN ns
    BY DEF Below, Inside
  <2>2. ASSUME NEW C \in SUBSET DOMAIN ns, S \subseteq C, Closed(ns, C) PROVE m \in C
    <3>1. n \in C
      BY <2>2 DEF Below
    <3>2. QED
      BY <2>2, <3>1 DEF Closed
  <2>3. QED
    BY <2>1, <2>2 DEF Below
<1>2. QED
  BY <1>1 DEF Below

\* A set that is closed, holds n's children and not n, shows there is no way back to n.
LEMMA NoWayBack ==
  ASSUME NEW ns, NEW n, NEW C \in SUBSET DOMAIN ns, ns[n].children \subseteq C, Closed(ns, C), n \notin C
  PROVE  n \notin Below(ns, ns[n].children)
BY DEF Below

\* A link that closes no circle keeps the graph without circles.
LEMMA LinkKeepsAcyclic ==
  ASSUME NEW ns, Inside(ns), Acyclic(ns), NEW p \in DOMAIN ns, NEW n \in DOMAIN ns,
         p \notin Below(ns, {n}), \A m \in DOMAIN ns : ns[m] \in SearchNode,
         IsMap(ns)
  PROVE  Acyclic(Linked(ns, p, n)) /\ Inside(Linked(ns, p, n)) /\ DOMAIN Linked(ns, p, n) = DOMAIN ns
<1> DEFINE ms == Linked(ns, p, n)
           G == Below(ns, {n})
<1>1. /\ DOMAIN ms = DOMAIN ns
      /\ ms[p].children = ns[p].children \cup {n}
      /\ \A m \in DOMAIN ns \ {p} : ms[m].children = ns[m].children
  BY DEF Linked, SearchNode
<1>2. G \subseteq DOMAIN ns /\ n \in G /\ Closed(ns, G) /\ p \notin G
  BY BelowIsLeast
<1> HIDE DEF ms, G
<1>3. ASSUME NEW m \in DOMAIN ms PROVE m \notin Below(ms, ms[m].children)
  <2> DEFINE E == Below(ns, ns[m].children)
  <2>1. /\ E \subseteq DOMAIN ns /\ ns[m].children \subseteq E /\ Closed(ns, E) /\ m \notin E
        /\ \A C \in SUBSET DOMAIN ns : ns[m].children \subseteq C /\ Closed(ns, C) => E \subseteq C
    BY <1>1, <1>3, BelowIsLeast DEF Acyclic, Inside
  <2> HIDE DEF E
  <2>2. CASE m # p /\ p \notin E
    <3>1. Closed(ms, E) /\ ms[m].children \subseteq E
      BY <1>1, <1>3, <2>1, <2>2 DEF Closed
    <3>2. QED
      BY <1>1, <2>1, <3>1, NoWayBack
  <2>3. CASE m # p /\ p \in E
    <3>1. m \notin G
      <4> SUFFICES ASSUME m \in G PROVE FALSE
        OBVIOUS
      <4>1. E \subseteq G
        BY <1>2, <2>1 DEF Closed
      <4>2. QED
        BY <4>1, <2>3, <1>2
    <3>2. Closed(ms, E \cup G)
      BY <1>1, <1>2, <2>1 DEF Closed
    <3>3. ms[m].children \subseteq E \cup G /\ E \cup G \in SUBSET DOMAIN ms /\ m \notin E \cup G
      BY <1>1, <1>2, <1>3, <2>1, <2>3, <3>1
    <3>4. QED
      BY <3>2, <3>3, NoWayBack
  <2>4. CASE m = p
    <3>1. Closed(ms, E \cup G)
      BY <1>1, <1>2, <2>1, <2>4 DEF Closed
    <3>2. ms[m].children \subseteq E \cup G /\ E \cup G \in SUBSET DOMAIN ms /\ m \notin E \cup G
      BY <1>1, <1>2, <1>3, <2>1, <2>4
    <3>3. QED
      BY <3>1, <3>2, NoWayBack
  <2>5. QED
    BY <2>2, <2>3, <2>4
<1>4. Inside(ms)
  BY <1>1 DEF Inside
<1>5. QED
  BY <1>1, <1>3, <1>4 DEF Acyclic, ms

\* Only the children count.
LEMMA SameLinks ==
  ASSUME NEW ns, NEW ms, DOMAIN ms = DOMAIN ns,
         \A n \in DOMAIN ns : ms[n].children = ns[n].children, Acyclic(ns), Inside(ns)
  PROVE  Acyclic(ms) /\ Inside(ms)
<1>1. \A C \in SUBSET DOMAIN ns : Closed(ms, C) <=> Closed(ns, C)
  BY DEF Closed
<1>2. \A S : Below(ms, S) = Below(ns, S)
  BY <1>1 DEF Below
<1>3. QED
  BY <1>2 DEF Acyclic, Inside

\* A new node without children.
LEMMA LeafKeepsAcyclic ==
  ASSUME NEW ns, Inside(ns), Acyclic(ns), NEW n, n \notin DOMAIN ns, NEW leaf, leaf.children = {}
  PROVE  /\ Acyclic(Extended(ns, n, leaf)) /\ Inside(Extended(ns, n, leaf))
         /\ \A p \in DOMAIN ns : p \notin Below(Extended(ns, n, leaf), {n})
<1> DEFINE ms == Extended(ns, n, leaf)
<1>1. /\ DOMAIN ms = DOMAIN ns \cup {n} /\ ms[n].children = {}
      /\ \A m \in DOMAIN ns : ms[m].children = ns[m].children
  BY DEF Extended
<1> HIDE DEF ms
<1>2. Inside(ms)
  BY <1>1 DEF Inside
<1>3. ASSUME NEW m \in DOMAIN ns PROVE m \notin Below(ms, ms[m].children)
  <2> DEFINE E == Below(ns, ns[m].children)
  <2>1. E \subseteq DOMAIN ns /\ ns[m].children \subseteq E /\ Closed(ns, E) /\ m \notin E
    BY <1>3, BelowIsLeast DEF Acyclic, Inside
  <2> HIDE DEF E
  <2>2. Closed(ms, E) /\ E \in SUBSET DOMAIN ms /\ ms[m].children \subseteq E
    BY <1>1, <1>3, <2>1 DEF Closed
  <2>3. QED
    BY <2>1, <2>2, NoWayBack
<1>4. n \notin Below(ms, ms[n].children)
  <2>1. Closed(ms, {})
    BY DEF Closed
  <2>2. QED
    BY <1>1, <2>1, NoWayBack
<1>5. ASSUME NEW p \in DOMAIN ns PROVE p \notin Below(ms, {n})
  <2>1. Closed(ms, {n}) /\ {n} \in SUBSET DOMAIN ms
    BY <1>1 DEF Closed
  <2>2. p \notin {n}
    OBVIOUS
  <2>3. QED
    BY <2>1, <2>2 DEF Below
<1>6. Acyclic(ms)
  BY <1>1, <1>3, <1>4 DEF Acyclic
<1>7. QED
  BY <1>2, <1>5, <1>6 DEF ms

(* Trees.                                                                  *)
TreeOf(nodes, trans, root, best, bestValue, seq, seeded) ==
  [nodes |-> nodes, trans |-> trans, root |-> root, best |-> best,
   bestValue |-> bestValue, seq |-> seq, seeded |-> seeded]

Fielded(t) == t = TreeOf(t.nodes, t.trans, t.root, t.best, t.bestValue, t.seq, t.seeded)

IsTree(t) ==
  /\ Fielded(t)
  /\ IsMap(t.nodes)
  /\ IsMap(t.trans)

\* What a tree is once a field of it is replaced, or two, or three.
LEMMA FieldReplaced ==
  ASSUME NEW t, Fielded(t), NEW a
  PROVE  /\ [t EXCEPT !.nodes = a] = TreeOf(a, t.trans, t.root, t.best, t.bestValue, t.seq, t.seeded)
         /\ [t EXCEPT !.best = a] = TreeOf(t.nodes, t.trans, t.root, a, t.bestValue, t.seq, t.seeded)
         /\ [t EXCEPT !.root = a] = TreeOf(t.nodes, t.trans, a, t.best, t.bestValue, t.seq, t.seeded)
         /\ [t EXCEPT !.seeded = a] = TreeOf(t.nodes, t.trans, t.root, t.best, t.bestValue, t.seq, a)
BY SMT DEF Fielded, TreeOf

LEMMA TwoFieldsReplaced ==
  ASSUME NEW t, Fielded(t), NEW a, NEW b
  PROVE  /\ [t EXCEPT !.best = a, !.bestValue = b] = TreeOf(t.nodes, t.trans, t.root, a, b, t.seq, t.seeded)
         /\ [t EXCEPT !.nodes = a, !.trans = b] =
                TreeOf(a, b, t.root, t.best, t.bestValue, t.seq, t.seeded)
<1> DEFINE u == [t EXCEPT !.nodes = a]
           x == [t EXCEPT !.best = a]
<1>1. /\ [t EXCEPT !.best = a, !.bestValue = b] = [x EXCEPT !.bestValue = b]
      /\ [t EXCEPT !.nodes = a, !.trans = b] = [u EXCEPT !.trans = b]
  BY SMT
<1>2. /\ u = TreeOf(a, t.trans, t.root, t.best, t.bestValue, t.seq, t.seeded)
      /\ x = TreeOf(t.nodes, t.trans, t.root, a, t.bestValue, t.seq, t.seeded)
  BY FieldReplaced
<1> HIDE DEF u, x
<1>3. QED
  BY <1>1, <1>2, SMT DEF TreeOf

WithMore(t, a, b, c) == [t EXCEPT !.nodes = a, !.trans = b, !.seq = c]
RootedAt(t, a, b, c) == [t EXCEPT !.root = a, !.best = b, !.bestValue = c]

LEMMA ThreeFieldsReplaced ==
  ASSUME NEW t, Fielded(t), NEW a, NEW b, NEW c
  PROVE  /\ WithMore(t, a, b, c) = TreeOf(a, b, t.root, t.best, t.bestValue, c, t.seeded)
         /\ RootedAt(t, a, b, c) = TreeOf(t.nodes, t.trans, a, b, c, t.seq, t.seeded)
<1> DEFINE u == [t EXCEPT !.nodes = a]
           w == [u EXCEPT !.trans = b]
           y == [t EXCEPT !.root = a]
           z == [y EXCEPT !.best = b]
<1>1. /\ WithMore(t, a, b, c) = [w EXCEPT !.seq = c]
      /\ RootedAt(t, a, b, c) = [z EXCEPT !.bestValue = c]
  BY SMT DEF WithMore, RootedAt
<1>2. /\ u = TreeOf(a, t.trans, t.root, t.best, t.bestValue, t.seq, t.seeded)
      /\ y = TreeOf(t.nodes, t.trans, a, t.best, t.bestValue, t.seq, t.seeded)
  BY FieldReplaced
<1> HIDE DEF u, y
<1>3. /\ w = TreeOf(a, b, t.root, t.best, t.bestValue, t.seq, t.seeded)
      /\ z = TreeOf(t.nodes, t.trans, a, b, t.bestValue, t.seq, t.seeded)
  BY <1>2, SMT DEF TreeOf
<1> HIDE DEF w, z
<1>4. QED
  BY <1>1, <1>3, SMT DEF TreeOf

LEMMA TreeOfFields ==
  ASSUME NEW nodes, NEW trans, NEW root, NEW best, NEW bestValue, NEW seq, NEW seeded, NEW t,
         t = TreeOf(nodes, trans, root, best, bestValue, seq, seeded)
  PROVE  /\ Fielded(t) /\ t.nodes = nodes /\ t.trans = trans /\ t.root = root /\ t.best = best
         /\ t.bestValue = bestValue /\ t.seq = seq /\ t.seeded = seeded
BY DEF TreeOf, Fielded

\* A tree that is sound but for its best node.
Grounded(t) ==
  /\ IsTree(t) /\ t.seq \in Nat /\ DOMAIN t.nodes \subseteq 1 .. t.seq
  /\ \A n \in DOMAIN t.nodes : t.nodes[n] \in SearchNode
  /\ t.root \in DOMAIN t.nodes /\ Tied(t) /\ Acyclic(t.nodes)
  /\ \A x \in DOMAIN t.trans : t.trans[x] \in DOMAIN t.nodes

TreeInv(t) == Grounded(t) /\ t.best \in DOMAIN t.nodes /\ t.bestValue \in 0 .. Scale

LEMMA GroundedInside == ASSUME NEW t, Grounded(t) PROVE Inside(t.nodes)
BY DEF Grounded, Tied, Inside

LEMMA WithBestKept ==
  ASSUME NEW t, Grounded(t)
  PROVE  TreeInv(WithBest(t)) /\ WithBest(t).nodes = t.nodes /\ WithBest(t).root = t.root
         /\ WithBest(t).seeded = t.seeded
<1>1. BestOf(t.nodes) \in DOMAIN t.nodes
  BY BestIsThere DEF Grounded
<1>2. t.nodes[BestOf(t.nodes)].value \in 0 .. Scale
  BY <1>1 DEF Grounded, SearchNode
<1> DEFINE u == WithBest(t)
<1>3. u = TreeOf(t.nodes, t.trans, t.root, BestOf(t.nodes), t.nodes[BestOf(t.nodes)].value, t.seq, t.seeded)
  <2> DEFINE b == BestOf(t.nodes)
             v == t.nodes[b].value
  <2>1. u = [t EXCEPT !.best = b, !.bestValue = v]
    BY Zenon DEF WithBest
  <2> HIDE DEF b, v, u
  <2>2. u = TreeOf(t.nodes, t.trans, t.root, b, v, t.seq, t.seeded)
    BY <2>1, TwoFieldsReplaced DEF Grounded, IsTree
  <2>3. QED
    BY <2>2 DEF b, v
<1>4. /\ Fielded(u) /\ u.nodes = t.nodes /\ u.trans = t.trans /\ u.root = t.root /\ u.seq = t.seq
      /\ u.best = BestOf(t.nodes) /\ u.bestValue = t.nodes[BestOf(t.nodes)].value /\ u.seeded = t.seeded
  BY <1>3, TreeOfFields
<1> HIDE DEF u
<1>5. Grounded(u)
  BY <1>4 DEF Grounded, IsTree, Tied
<1>6. QED
  BY <1>1, <1>2, <1>4, <1>5 DEF TreeInv, u

\* New values and visits, and more children, where that closes no circle.
LEMMA NodesReplaced ==
  ASSUME NEW t, Grounded(t), NEW ms, DOMAIN ms = DOMAIN t.nodes, IsMap(ms),
         Acyclic(ms), Inside(ms),
         \A n \in DOMAIN ms : /\ ms[n] \in SearchNode /\ ms[n].text = t.nodes[n].text
                              /\ ms[n].parent = t.nodes[n].parent
                              /\ t.nodes[n].children \subseteq ms[n].children
  PROVE  /\ Grounded([t EXCEPT !.nodes = ms]) /\ [t EXCEPT !.nodes = ms].nodes = ms
         /\ [t EXCEPT !.nodes = ms].root = t.root /\ [t EXCEPT !.nodes = ms].seeded = t.seeded
         /\ TreeInv(t) => TreeInv([t EXCEPT !.nodes = ms])
<1>1. [t EXCEPT !.nodes = ms] = TreeOf(ms, t.trans, t.root, t.best, t.bestValue, t.seq, t.seeded)
  BY FieldReplaced DEF Grounded, IsTree
<1> DEFINE u == [t EXCEPT !.nodes = ms]
<1>2. /\ u.nodes = ms /\ u.trans = t.trans /\ u.root = t.root /\ u.best = t.best
      /\ u.bestValue = t.bestValue /\ u.seq = t.seq /\ u.seeded = t.seeded /\ Fielded(u)
  BY <1>1, TreeOfFields
<1> HIDE DEF u
<1>3. IsTree(u)
  BY <1>2 DEF IsTree, Grounded
<1>4. Tied(u)
  BY <1>2 DEF Tied, Grounded, Inside
<1>5. Grounded(u)
  BY <1>2, <1>3, <1>4 DEF Grounded
<1>6. QED
  BY <1>2, <1>5 DEF TreeInv, u

LEMMA VisitedNodes ==
  ASSUME NEW t, Grounded(t), NEW text \in DOMAIN t.trans
  PROVE  LET ns == Visited(t, text)
         IN /\ DOMAIN ns = DOMAIN t.nodes /\ IsMap(ns)
            /\ Acyclic(ns) /\ Inside(ns)
            /\ \A n \in DOMAIN ns : /\ ns[n] \in SearchNode /\ ns[n].text = t.nodes[n].text
                                    /\ ns[n].parent = t.nodes[n].parent
                                    /\ ns[n].children = t.nodes[n].children
<1> DEFINE ns == Visited(t, text)
<1>1. Made(t, text) \in DOMAIN t.nodes
  BY DEF Grounded, Made
<1>2. ns = [m \in DOMAIN t.nodes |-> IF m = Made(t, text) THEN [t.nodes[m] EXCEPT !.visits = @ + 1]
                                     ELSE t.nodes[m]]
  BY <1>1 DEF Grounded, IsTree, Visited, IsMap
<1>3. \A n \in DOMAIN ns : /\ ns[n] \in SearchNode /\ ns[n].text = t.nodes[n].text
                           /\ ns[n].parent = t.nodes[n].parent
                           /\ ns[n].children = t.nodes[n].children
  BY <1>2, SMTT(30) DEF Grounded, SearchNode
<1>4. DOMAIN ns = DOMAIN t.nodes /\ IsMap(ns)
  BY <1>2 DEF IsMap
<1>5. Acyclic(ns) /\ Inside(ns)
  <2> HIDE DEF ns
  <2>1. Acyclic(t.nodes) /\ Inside(t.nodes)
    BY GroundedInside DEF Grounded
  <2>2. QED
    BY <1>3, <1>4, <2>1, SameLinks
<1>6. QED
  BY <1>2, <1>3, <1>4, <1>5

LEMMA LinkedNodes ==
  ASSUME NEW ns, IsMap(ns), NEW p \in DOMAIN ns, NEW k \in Nat,
         \A n \in DOMAIN ns : ns[n] \in SearchNode
  PROVE  LET ms == Linked(ns, p, k)
         IN /\ DOMAIN ms = DOMAIN ns /\ IsMap(ms)
            /\ \A n \in DOMAIN ms : /\ ms[n] \in SearchNode /\ ms[n].text = ns[n].text
                                    /\ ms[n].parent = ns[n].parent
                                    /\ n # p => ms[n].children = ns[n].children
            /\ ms[p].children = ns[p].children \cup {k}
<1> DEFINE ms == Linked(ns, p, k)
<1>1. ms = [m \in DOMAIN ns |-> IF m = p THEN [ns[m] EXCEPT !.children = @ \cup {k}] ELSE ns[m]]
  BY DEF Linked, IsMap
<1>2. QED
  BY <1>1 DEF SearchNode, IsMap

\* new_node of a text that is in the tree.
LEMMA MetKept ==
  ASSUME NEW t, Grounded(t), NEW text \in DOMAIN t.trans, NEW parent, NEW depth, NEW value
  PROVE  LET u == new_node(t, text, parent, depth, value)
         IN /\ Grounded(u) /\ DOMAIN u.nodes = DOMAIN t.nodes /\ Made(t, text) \in DOMAIN u.nodes
            /\ u.root = t.root /\ u.seeded = t.seeded
            /\ TreeInv(t) => TreeInv(u)
<1> DEFINE ns == Visited(t, text)
           n == Made(t, text)
           ms == Linked(ns, parent, n)
           u == new_node(t, text, parent, depth, value)
<1>1. /\ DOMAIN ns = DOMAIN t.nodes /\ IsMap(ns) /\ Acyclic(ns) /\ Inside(ns)
      /\ \A k \in DOMAIN ns : /\ ns[k] \in SearchNode /\ ns[k].text = t.nodes[k].text
                              /\ ns[k].parent = t.nodes[k].parent
                              /\ ns[k].children = t.nodes[k].children
  BY VisitedNodes
<1>2. n \in DOMAIN ns /\ n \in Nat
  BY <1>1 DEF Grounded, Made
<1> HIDE DEF ns, n
<1>3. CASE parent # n /\ parent \in DOMAIN ns \ Below(ns, {n})
  <2>1. u = [t EXCEPT !.nodes = ms]
    BY <1>3 DEF new_node, ns, n
  <2>2. /\ DOMAIN ms = DOMAIN ns /\ IsMap(ms)
        /\ \A k \in DOMAIN ms : /\ ms[k] \in SearchNode /\ ms[k].text = ns[k].text
                                /\ ms[k].parent = ns[k].parent
                                /\ ns[k].children \subseteq ms[k].children
    <3>1. /\ DOMAIN ms = DOMAIN ns /\ IsMap(ms)
          /\ \A k \in DOMAIN ms :
                /\ ms[k] \in SearchNode /\ ms[k].text = ns[k].text /\ ms[k].parent = ns[k].parent
                /\ k # parent => ms[k].children = ns[k].children
          /\ ms[parent].children = ns[parent].children \cup {n}
      BY <1>1, <1>2, <1>3, LinkedNodes
    <3> HIDE DEF ms
    <3>2. QED
      BY <3>1
  <2>3. Acyclic(ms) /\ Inside(ms)
    BY <1>1, <1>2, <1>3, LinkKeepsAcyclic
  <2> HIDE DEF ms, u
  <2>4. Grounded([t EXCEPT !.nodes = ms]) /\ [t EXCEPT !.nodes = ms].nodes = ms
        /\ [t EXCEPT !.nodes = ms].root = t.root /\ [t EXCEPT !.nodes = ms].seeded = t.seeded
        /\ (TreeInv(t) => TreeInv([t EXCEPT !.nodes = ms]))
    BY <1>1, <2>2, <2>3, NodesReplaced
  <2>5. QED
    BY <1>1, <1>2, <2>1, <2>2, <2>4 DEF u, n
<1>4. CASE ~(parent # n /\ parent \in DOMAIN ns \ Below(ns, {n}))
  <2>1. u = [t EXCEPT !.nodes = ns]
    BY <1>4 DEF new_node, ns, n
  <2> HIDE DEF ms, u
  <2>2. Grounded([t EXCEPT !.nodes = ns]) /\ [t EXCEPT !.nodes = ns].nodes = ns
        /\ [t EXCEPT !.nodes = ns].root = t.root /\ [t EXCEPT !.nodes = ns].seeded = t.seeded
        /\ (TreeInv(t) => TreeInv([t EXCEPT !.nodes = ns]))
    BY <1>1, NodesReplaced
  <2>3. QED
    BY <1>1, <1>2, <2>1, <2>2 DEF u, n
<1>5. QED
  BY <1>3, <1>4

\* new_node of a new text.
LEMMA GrownKept ==
  ASSUME NEW t, Grounded(t), NEW text \in Texts \ DOMAIN t.trans, NEW parent \in DOMAIN t.nodes,
         NEW depth \in Nat, NEW value \in 0 .. Scale
  PROVE  LET u == Grown(t, text, parent, depth, value)
         IN /\ Grounded(u) /\ DOMAIN u.nodes = DOMAIN t.nodes \cup {t.seq + 1}
            /\ u.root = t.root /\ u.seeded = t.seeded
            /\ TreeInv(t) => TreeInv(u)
<1> DEFINE n == t.seq + 1
           leaf == Leaf(text, parent, depth, value)
           ns == Extended(t.nodes, n, leaf)
           ms == Linked(ns, parent, n)
           u == Grown(t, text, parent, depth, value)
<1>1. n \in Nat /\ n \notin DOMAIN t.nodes /\ parent \in Nat /\ parent # Nil /\ parent # n
      /\ 1 .. t.seq \subseteq 1 .. n /\ n \in 1 .. n
  BY SearchAssumption DEF Grounded
<1>2. leaf \in SearchNode /\ leaf.children = {} /\ leaf.parent = parent /\ leaf.text = text
  <2>1. value \in Nat /\ <<value, 1>> \in Nat \X (Nat \ {0}) /\ {} \in SUBSET Nat
    BY SearchAssumption
  <2>2. QED
    BY <1>1, <2>1 DEF Leaf, SearchNode
<1>3. /\ DOMAIN ns = DOMAIN t.nodes \cup {n} /\ IsMap(ns)
      /\ ns[n] = leaf /\ \A k \in DOMAIN t.nodes : ns[k] = t.nodes[k]
  BY <1>1 DEF Extended, IsMap
<1>4. /\ Acyclic(ns) /\ Inside(ns) /\ parent \notin Below(ns, {n})
  <2>1. Acyclic(t.nodes) /\ Inside(t.nodes)
    BY GroundedInside DEF Grounded
  <2> HIDE DEF n, leaf
  <2>2. QED
    BY <1>1, <1>2, <2>1, LeafKeepsAcyclic
<1>5. u = TreeOf(ms, Extended(t.trans, text, n), t.root, t.best, t.bestValue, n, t.seeded)
  <2>1. u = WithMore(t, ms, Extended(t.trans, text, n), n)
    <3> HIDE DEF Leaf, Linked, Extended
    <3>1. QED
      BY <1>1, Zenon DEF Grown, WithMore
  <2> HIDE DEF ms, u, n
  <2>2. QED
    BY <2>1, ThreeFieldsReplaced DEF Grounded, IsTree
<1> HIDE DEF ns, leaf, u
<1>6. \A k \in DOMAIN ns : ns[k] \in SearchNode
  BY <1>2, <1>3 DEF Grounded
<1>7. /\ DOMAIN ms = DOMAIN ns /\ IsMap(ms)
      /\ \A k \in DOMAIN ms : /\ ms[k] \in SearchNode /\ ms[k].text = ns[k].text
                              /\ ms[k].parent = ns[k].parent
                              /\ k # parent => ms[k].children = ns[k].children
      /\ ms[parent].children = ns[parent].children \cup {n}
  <2>1. parent \in DOMAIN ns /\ n \in Nat /\ IsMap(ns)
    BY <1>1, <1>3
  <2> HIDE DEF n
  <2>2. QED
    BY <1>6, <2>1, LinkedNodes
<1>8. Acyclic(ms) /\ Inside(ms)
  <2> HIDE DEF n
  <2>1. QED
    BY <1>1, <1>3, <1>4, <1>6, LinkKeepsAcyclic
<1> HIDE DEF ms, n
<1>9. /\ u.nodes = ms /\ u.trans = Extended(t.trans, text, n) /\ u.root = t.root /\ u.best = t.best
      /\ u.bestValue = t.bestValue /\ u.seq = n /\ u.seeded = t.seeded /\ Fielded(u)
  BY <1>5, TreeOfFields
<1>10. /\ DOMAIN u.trans = DOMAIN t.trans \cup {text} /\ u.trans[text] = n
       /\ \A x \in DOMAIN t.trans : u.trans[x] = t.trans[x]
       /\ IsMap(u.trans)
  BY <1>9 DEF Extended, IsMap
<1>11. IsTree(u)
  BY <1>7, <1>9, <1>10 DEF IsTree
<1>12. Tied(u)
  <2>1. ASSUME NEW k \in DOMAIN t.nodes
        PROVE  /\ k # t.root => ms[k].parent \in DOMAIN ms /\ k \in ms[ms[k].parent].children
               /\ ms[k].text \in DOMAIN u.trans /\ u.trans[ms[k].text] = k
    <3>1. /\ k # t.root => /\ t.nodes[k].parent \in DOMAIN t.nodes
                            /\ k \in t.nodes[t.nodes[k].parent].children
          /\ t.nodes[k].text \in DOMAIN t.trans /\ t.trans[t.nodes[k].text] = k
      BY <2>1 DEF Grounded, Tied
    <3>2. ms[k].parent = t.nodes[k].parent /\ ms[k].text = t.nodes[k].text
      BY <1>3, <1>7, <2>1
    <3>3. \A j \in DOMAIN t.nodes : t.nodes[j].children \subseteq ms[j].children /\ j \in DOMAIN ms
      BY <1>3, <1>7
    <3>4. QED
      BY <1>10, <3>1, <3>2, <3>3
  <2>2. /\ ms[n].parent \in DOMAIN ms /\ n \in ms[ms[n].parent].children
        /\ ms[n].text \in DOMAIN u.trans /\ u.trans[ms[n].text] = n
    BY <1>1, <1>2, <1>3, <1>7, <1>10
  <2>3. QED
    BY <1>3, <1>7, <1>8, <1>9, <2>1, <2>2 DEF Tied, Inside
<1>13. Grounded(u)
  <2>1. DOMAIN u.nodes \subseteq 1 .. u.seq /\ u.seq \in Nat
    BY <1>1, <1>3, <1>7, <1>9 DEF Grounded
  <2>2. \A x \in DOMAIN u.trans : u.trans[x] \in DOMAIN u.nodes
    BY <1>3, <1>7, <1>9, <1>10 DEF Grounded
  <2>3. QED
    BY <1>3, <1>7, <1>8, <1>9, <1>11, <1>12, <2>1, <2>2 DEF Grounded
<1>14. QED
  BY <1>3, <1>7, <1>9, <1>13 DEF TreeInv, n, u

LEMMA NewNodeKept ==
  ASSUME NEW t, TreeInv(t), NEW text \in Texts, NEW parent \in DOMAIN t.nodes,
         NEW depth \in Nat, NEW value \in 0 .. Scale
  PROVE  LET u == new_node(t, text, parent, depth, value)
         IN /\ TreeInv(u) /\ DOMAIN t.nodes \subseteq DOMAIN u.nodes
            /\ Made(t, text) \in DOMAIN u.nodes /\ u.root = t.root /\ u.seeded = t.seeded
<1>1. CASE text \in DOMAIN t.trans
  <2>1. Grounded(t)
    BY DEF TreeInv
  <2>2. QED
    BY <1>1, <2>1, MetKept
<1>2. CASE text \notin DOMAIN t.trans
  <2>1. Grounded(t)
    BY DEF TreeInv
  <2>2. new_node(t, text, parent, depth, value) = Grown(t, text, parent, depth, value)
        /\ Made(t, text) = t.seq + 1
    BY <1>2 DEF new_node, Made
  <2>3. QED
    BY <1>2, <2>1, <2>2, GrownKept
<1>3. QED
  BY <1>1, <1>2

\* backprop
LEMMA BackpropKept ==
  ASSUME NEW t, TreeInv(t), NEW n, NEW value \in 0 .. Scale
  PROVE  LET u == backprop(t, n, value)
         IN TreeInv(u) /\ DOMAIN u.nodes = DOMAIN t.nodes /\ u.root = t.root /\ u.seeded = t.seeded
<1> DEFINE ms == Climbed(t.nodes, n, value)
<1>0. Grounded(t)
  BY DEF TreeInv
<1>1. DOMAIN ms = DOMAIN t.nodes /\ IsMap(ms)
  BY DEF Climbed, IsMap
<1>2. ASSUME NEW k \in DOMAIN t.nodes
      PROVE  /\ ms[k] \in SearchNode /\ ms[k].text = t.nodes[k].text
             /\ ms[k].parent = t.nodes[k].parent /\ ms[k].children = t.nodes[k].children
  <2> DEFINE node == t.nodes[k]
             q == Fraction(node.q[1] * node.visits + value * node.q[2], node.q[2] * (node.visits + 1))
  <2>1. node \in SearchNode
    BY <1>0 DEF Grounded
  <2>2. q \in Nat \X (Nat \ {0})
    <3>1. node.q[1] \in Nat /\ node.q[2] \in Nat \ {0} /\ node.visits \in Nat /\ value \in Nat
      BY <2>1, SearchAssumption DEF SearchNode
    <3>2. \A a, v, w \in Nat, b \in Nat \ {0} : a * v + w * b \in Nat /\ b * (v + 1) \in Nat \ {0}
      BY SMT
    <3>3. node.q[1] * node.visits + value * node.q[2] \in Nat /\ node.q[2] * (node.visits + 1) \in Nat \ {0}
      BY <3>1, <3>2
    <3>4. QED
      BY <3>3, FractionType
  <2>3. Averaged(node, value) = [node EXCEPT !.visits = @ + 1, !.q = q]
    BY <2>1 DEF Averaged, SearchNode
  <2> DEFINE met == [node EXCEPT !.visits = node.visits + 1]
  <2>7. met = [text |-> node.text, parent |-> node.parent, depth |-> node.depth, value |-> node.value,
               q |-> node.q, visits |-> node.visits + 1, children |-> node.children]
    BY <2>1 DEF SearchNode
  <2>8. Averaged(node, value) = [met EXCEPT !.q = q]
    BY <2>3
  <2> HIDE DEF q, met
  <2>9. [met EXCEPT !.q = q] =
          [text |-> node.text, parent |-> node.parent, depth |-> node.depth, value |-> node.value,
           q |-> q, visits |-> node.visits + 1, children |-> node.children]
    BY <2>7
  <2>4. /\ Averaged(node, value) \in SearchNode /\ Averaged(node, value).text = node.text
        /\ Averaged(node, value).parent = node.parent /\ Averaged(node, value).children = node.children
    BY <2>1, <2>2, <2>8, <2>9 DEF SearchNode
  <2>5. ms[k] = IF k \in Above(t.nodes, n) THEN Averaged(node, value) ELSE node
    BY <1>2 DEF Climbed
  <2>6. QED
    BY <2>1, <2>4, <2>5
<1>3. Acyclic(ms) /\ Inside(ms)
  <2>1. Acyclic(t.nodes) /\ Inside(t.nodes)
    BY <1>0, GroundedInside DEF Grounded
  <2> HIDE DEF ms
  <2>2. QED
    BY <1>1, <1>2, <2>1, SameLinks
<1> HIDE DEF ms
<1>4. Grounded([t EXCEPT !.nodes = ms]) /\ [t EXCEPT !.nodes = ms].nodes = ms
      /\ [t EXCEPT !.nodes = ms].root = t.root /\ [t EXCEPT !.nodes = ms].seeded = t.seeded
  BY <1>0, <1>1, <1>2, <1>3, NodesReplaced
<1>6. backprop(t, n, value) = WithBest([t EXCEPT !.nodes = ms])
  BY DEF backprop, ms
<1>7. QED
  BY <1>1, <1>4, <1>6, WithBestKept

\* prune: only leaves go, so nobody's parent does.
LEMMA PruneKept ==
  ASSUME NEW t, TreeInv(t)
  PROVE  LET u == prune(t)
         IN TreeInv(u) /\ u.root = t.root /\ u.seeded = t.seeded
<1> DEFINE gone == Prunable(t)
           u == Without(t, gone)
<1>0. Grounded(t)
  BY DEF TreeInv
<1>1. \A n \in gone : n # t.root /\ t.nodes[n].children = {}
  BY DEF Prunable
<1> HIDE DEF gone
<1> DEFINE left == [n \in DOMAIN t.nodes \ gone |-> Cut(t.nodes[n], gone)]
           known == [x \in {y \in DOMAIN t.trans : t.trans[y] \notin gone} |-> t.trans[x]]
<1>2. u = TreeOf(left, known, t.root, t.best, t.bestValue, t.seq, t.seeded)
  <2>1. u = [t EXCEPT !.nodes = left, !.trans = known]
    BY SMTT(30) DEF Without
  <2> HIDE DEF left, known, u
  <2>2. QED
    BY <1>0, <2>1, TwoFieldsReplaced DEF Grounded, IsTree
<1> HIDE DEF u
<1>3. /\ DOMAIN u.nodes = DOMAIN t.nodes \ gone
      /\ IsMap(u.nodes)
      /\ DOMAIN u.trans = {y \in DOMAIN t.trans : t.trans[y] \notin gone}
      /\ IsMap(u.trans)
      /\ u.root = t.root /\ u.best = t.best /\ u.bestValue = t.bestValue /\ u.seq = t.seq /\ u.seeded = t.seeded
      /\ u.nodes = left /\ u.trans = known /\ Fielded(u)
  <2> HIDE DEF left, known
  <2>1. /\ u.nodes = left /\ u.trans = known /\ u.root = t.root /\ u.best = t.best
        /\ u.bestValue = t.bestValue /\ u.seq = t.seq /\ u.seeded = t.seeded /\ Fielded(u)
    BY <1>2, TreeOfFields
  <2>2. QED
    BY <2>1 DEF left, known, IsMap
<1>4. \A n \in DOMAIN u.nodes : /\ u.nodes[n] \in SearchNode /\ u.nodes[n].text = t.nodes[n].text
                                /\ u.nodes[n].parent = t.nodes[n].parent
                                /\ u.nodes[n].children = t.nodes[n].children \ gone
  <2> TAKE n \in DOMAIN u.nodes
  <2> DEFINE old == t.nodes[n]
  <2>1. old \in SearchNode /\ u.nodes[n] = [old EXCEPT !.children = old.children \ gone]
    BY <1>0, <1>3 DEF Grounded, Cut
  <2> HIDE DEF old
  <2>2. [old EXCEPT !.children = old.children \ gone] =
          [text |-> old.text, parent |-> old.parent, depth |-> old.depth, value |-> old.value,
           q |-> old.q, visits |-> old.visits, children |-> old.children \ gone]
    BY <2>1 DEF SearchNode
  <2>3. QED
    BY <2>1, <2>2 DEF SearchNode, old
<1>5. \A x \in DOMAIN u.trans : u.trans[x] = t.trans[x]
  BY <1>3
<1> HIDE DEF left, known
<1>6. Inside(t.nodes) /\ Acyclic(t.nodes)
  BY <1>0, GroundedInside DEF Grounded
<1>7. Acyclic(u.nodes)
  <2> SUFFICES ASSUME NEW n \in DOMAIN u.nodes PROVE n \notin Below(u.nodes, u.nodes[n].children)
    BY DEF Acyclic
  <2> DEFINE E == Below(t.nodes, t.nodes[n].children)
  <2>1. E \subseteq DOMAIN t.nodes /\ t.nodes[n].children \subseteq E /\ Closed(t.nodes, E) /\ n \notin E
    BY <1>3, <1>6, BelowIsLeast DEF Acyclic, Inside
  <2> HIDE DEF E
  <2>2. Closed(u.nodes, E \ gone)
    BY <1>3, <1>4, <2>1 DEF Closed
  <2>3. E \ gone \in SUBSET DOMAIN u.nodes /\ u.nodes[n].children \subseteq E \ gone /\ n \notin E \ gone
    BY <1>3, <1>4, <2>1
  <2>4. QED
    BY <2>2, <2>3, NoWayBack
<1>8. Tied(u)
  <2> SUFFICES ASSUME NEW n \in DOMAIN u.nodes
               PROVE  /\ u.nodes[n].children \subseteq DOMAIN u.nodes
                      /\ n # u.root => /\ u.nodes[n].parent \in DOMAIN u.nodes
                                       /\ n \in u.nodes[u.nodes[n].parent].children
                      /\ u.nodes[n].text \in DOMAIN u.trans /\ u.trans[u.nodes[n].text] = n
    BY DEF Tied
  <2>1. /\ n \in DOMAIN t.nodes \ gone
        /\ t.nodes[n].children \subseteq DOMAIN t.nodes
        /\ n # t.root => /\ t.nodes[n].parent \in DOMAIN t.nodes
                         /\ n \in t.nodes[t.nodes[n].parent].children
        /\ t.nodes[n].text \in DOMAIN t.trans /\ t.trans[t.nodes[n].text] = n
    BY <1>0, <1>3 DEF Grounded, Tied
  <2>2. n # t.root => t.nodes[n].parent \notin gone
    BY <1>1, <2>1
  <2>3. QED
    BY <1>3, <1>4, <1>5, <2>1, <2>2
<1>9. IsTree(u)
  BY <1>3 DEF IsTree
<1>10. Grounded(u)
  BY <1>0, <1>1, <1>3, <1>4, <1>5, <1>7, <1>8, <1>9 DEF Grounded
<1>11. CASE t.best \in gone
  <2>1. prune(t) = WithBest(u)
    BY <1>11 DEF prune, gone, u
  <2>2. QED
    BY <1>3, <1>10, <2>1, WithBestKept
<1>12. CASE t.best \notin gone
  <2>1. prune(t) = u
    BY <1>12 DEF prune, gone, u
  <2>2. TreeInv(u)
    BY <1>3, <1>10, <1>12 DEF TreeInv
  <2>3. QED
    BY <1>3, <2>1, <2>2
<1>13. QED
  BY <1>11, <1>12

\* A tree of its root alone.
Planted(text) ==
  [new_node(fresh_tree, text, Nil, 0, Value[text]) EXCEPT !.root = 1, !.best = 1, !.bestValue = Value[text]]

LEMMA PlantedIsSound == ASSUME NEW text \in Texts PROVE TreeInv(Planted(text)) /\ Planted(text).root = 1
<1> DEFINE leaf == Leaf(text, Nil, 0, Value[text])
           ns == Extended(<<>>, 1, leaf)
           u == Planted(text)
<1>1. DOMAIN <<>> = {}
  OBVIOUS
<1>2. u = TreeOf(ns, Extended(<<>>, text, 1), 1, 1, Value[text], 1, FALSE)
  <2> DEFINE first == fresh_tree
             grown == Grown(first, text, Nil, 0, Value[text])
  <2>1. first = TreeOf(<<>>, <<>>, Nil, Nil, 0, 0, FALSE)
    BY DEF fresh_tree, TreeOf
  <2> HIDE DEF first
  <2>2. /\ Fielded(first) /\ first.nodes = <<>> /\ first.trans = <<>> /\ first.root = Nil /\ first.best = Nil
        /\ first.bestValue = 0 /\ first.seq = 0 /\ first.seeded = FALSE
    BY <2>1 DEF TreeOf, Fielded
  <2>3. grown = WithMore(first, ns, Extended(first.trans, text, 1), 1)
    <3>1. first.seq + 1 = 1
      BY <2>2
    <3> HIDE DEF Leaf, Extended
    <3>2. QED
      BY <2>2, <3>1, Zenon DEF Grown, WithMore
  <2> HIDE DEF grown, ns
  <2>4. grown = TreeOf(ns, Extended(<<>>, text, 1), Nil, Nil, 0, 1, FALSE)
    <3>1. grown = TreeOf(ns, Extended(first.trans, text, 1), first.root, first.best, first.bestValue, 1, first.seeded)
      BY <2>2, <2>3, ThreeFieldsReplaced
    <3>2. QED
      BY <2>2, <3>1, Zenon
  <2>5. Fielded(grown) /\ grown.nodes = ns /\ grown.trans = Extended(<<>>, text, 1) /\ grown.seq = 1
        /\ grown.seeded = FALSE
    BY <2>4 DEF TreeOf, Fielded
  <2>6. u = RootedAt(grown, 1, 1, Value[text])
    <3>1. new_node(first, text, Nil, 0, Value[text]) = grown
      BY <1>1, <2>2, Zenon DEF new_node, grown
    <3>2. QED
      BY <3>1, Zenon DEF Planted, RootedAt, first
  <2> HIDE DEF u
  <2>7. QED
    <3>1. u = TreeOf(grown.nodes, grown.trans, 1, 1, Value[text], grown.seq, grown.seeded)
      BY <2>5, <2>6, ThreeFieldsReplaced
    <3>2. QED
      BY <2>5, <3>1, Zenon
<1>3. leaf \in SearchNode /\ leaf.children = {} /\ leaf.text = text
  <2>1. Value[text] \in 0 .. Scale /\ Value[text] \in Nat /\ {} \in SUBSET Nat
    BY SearchAssumption
  <2>2. <<Value[text], 1>> \in Nat \X (Nat \ {0})
    BY <2>1
  <2>3. QED
    BY <2>1, <2>2 DEF Leaf, SearchNode
<1>4. DOMAIN ns = {1} /\ ns[1] = leaf /\ IsMap(ns)
  BY <1>1 DEF Extended, IsMap
<1>5. Acyclic(ns) /\ Inside(ns)
  <2>1. Inside(<<>>) /\ Acyclic(<<>>)
    BY <1>1 DEF Inside, Acyclic
  <2> HIDE DEF leaf
  <2>2. QED
    BY <1>1, <1>3, <2>1, LeafKeepsAcyclic
<1> HIDE DEF ns, leaf, u
<1>6. /\ u.nodes = ns /\ u.trans = Extended(<<>>, text, 1) /\ u.root = 1 /\ u.best = 1
      /\ u.bestValue = Value[text] /\ u.seq = 1 /\ u.seeded = FALSE /\ Fielded(u)
  BY <1>2 DEF TreeOf, Fielded
<1>7. DOMAIN u.trans = {text} /\ u.trans[text] = 1 /\ IsMap(u.trans)
  BY <1>1, <1>6 DEF Extended, IsMap
<1>8. IsTree(u)
  BY <1>4, <1>6, <1>7 DEF IsTree
<1>9. Tied(u)
  BY <1>3, <1>4, <1>6, <1>7 DEF Tied
<1>10. TreeInv(u)
  <2>1. Value[text] \in 0 .. Scale /\ 1 \in 1 .. 1
    BY SearchAssumption
  <2>2. QED
    BY <1>3, <1>4, <1>5, <1>6, <1>7, <1>8, <1>9, <2>1 DEF TreeInv, Grounded
<1>11. QED
  BY <1>6, <1>10 DEF u

\* Marking the tree, or choosing its best node, leaves it sound.
LEMMA MarkedSeeded ==
  ASSUME NEW t, TreeInv(t), NEW u, u = [t EXCEPT !.seeded = TRUE]
  PROVE  TreeInv(u) /\ u.nodes = t.nodes /\ u.root = t.root
<1>1. u = TreeOf(t.nodes, t.trans, t.root, t.best, t.bestValue, t.seq, TRUE)
  BY DEF TreeInv, Grounded, IsTree, Fielded, TreeOf
<1>2. /\ Fielded(u) /\ u.nodes = t.nodes /\ u.trans = t.trans /\ u.root = t.root /\ u.best = t.best
      /\ u.bestValue = t.bestValue /\ u.seq = t.seq
  BY <1>1 DEF TreeOf, Fielded
<1>3. QED
  BY <1>2 DEF TreeInv, Grounded, IsTree, Tied

LEMMA BestChosen ==
  ASSUME NEW t, TreeInv(t), NEW n \in DOMAIN t.nodes, NEW v \in 0 .. Scale,
         NEW u, u = [t EXCEPT !.best = n, !.bestValue = v] \/ u = t
  PROVE  TreeInv(u) /\ u.nodes = t.nodes /\ u.root = t.root
<1>1. CASE u = [t EXCEPT !.best = n, !.bestValue = v]
  <2>1. u = TreeOf(t.nodes, t.trans, t.root, n, v, t.seq, t.seeded)
    BY <1>1, TwoFieldsReplaced DEF TreeInv, Grounded, IsTree
  <2>2. /\ Fielded(u) /\ u.nodes = t.nodes /\ u.trans = t.trans /\ u.root = t.root /\ u.best = n
        /\ u.bestValue = v /\ u.seq = t.seq
    BY <2>1, TreeOfFields
  <2>3. QED
    BY <2>2 DEF TreeInv, Grounded, IsTree, Tied
<1>2. CASE u = t
  BY <1>2
<1>3. QED
  BY <1>1, <1>2

LEMMA VariantsAreTexts == \A xs \in Variants(Width + 1) : xs \in Seq(Texts)
<1> SUFFICES ASSUME NEW k \in 1 .. (Width + 1), NEW xs \in [1 .. k -> Texts] PROVE xs \in Seq(Texts)
  BY DEF Variants
<1>1. k \in Nat
  BY SearchAssumption
<1>2. QED
  BY <1>1

(***************************************************************************)
(* The inductive invariant: beside the tree, the nodes the search still    *)
(* holds on to -- the one being expanded, the frontiers of beam -- are in   *)
(* it.  mcts prunes, so its pruning must not meet a frontier in use.       *)
(***************************************************************************)
HeldNodes ==
  /\ search_pc # "idle" => tree.root # Nil
  /\ search_pc = "variant" /\ mode \in {"mcts", "beam"} => sel \in DOMAIN tree.nodes
  /\ mode = "beam" => /\ \A i \in DOMAIN frontier : frontier[i] \in DOMAIN tree.nodes
                      /\ \A i \in DOMAIN nextf : nextf[i] \in DOMAIN tree.nodes
  /\ search_pc \in {"variant", "pruning"} /\ mode = "mcts" => count < Iterations
  /\ search_pc = "pruning" => mode = "mcts"

SearchInv ==
  /\ SearchTypeOK /\ wide \in [width : Nat, plateau : Nat, prev : Nat]
  /\ IF tree.root = Nil THEN tree = fresh_tree ELSE TreeInv(tree)
  /\ HeldNodes

\* The bounds of the search are numbers.
LEMMA SearchBounds ==
  /\ Scale \in Nat /\ Width \in Nat /\ Depth \in Nat /\ Iterations \in Nat /\ MaxSeeds \in Nat
  /\ MaxSearches \in Nat /\ BeamWidth \in Nat
  /\ \A x \in Texts : Value[x] \in 0 .. Scale /\ Penalty[x] \in Nat
BY SearchAssumption

\* A sound tree has the type of one.
LEMMA SoundTyped ==
  ASSUME NEW t, TreeInv(t)
  PROVE  /\ t.seq \in Nat /\ DOMAIN t.nodes \subseteq 1 .. t.seq
         /\ \A n \in DOMAIN t.nodes : t.nodes[n] \in SearchNode
         /\ t.root \in DOMAIN t.nodes /\ t.root # Nil /\ t.best \in DOMAIN t.nodes
         /\ DOMAIN t.nodes \subseteq Nat /\ t.bestValue \in Nat /\ t.nodes[t.best].value \in 0 .. Scale
BY SearchAssumption DEF TreeInv, Grounded, SearchNode

\* A step that leaves the tree sound, and what was held in it.
LEMMA SoundStep ==
  ASSUME TreeInv(tree'),
         search_pc' \in {"idle", "seed", "loop", "variant", "pruning", "end"},
         mode' \in Modes \cup {Nil}, feedback' \in BOOLEAN,
         count' \in 0 .. (Iterations + Depth + MaxSeeds),
         wide' \in [width : Nat, plateau : Nat, prev : Nat],
         wide'.width \in Width .. (Width + 2), wide'.plateau \in 0 .. 2,
         variants' \in Seq(Texts), frontier' \in Seq(Nat), nextf' \in Seq(Nat),
         searches' \in 0 .. MaxSearches, HeldNodes'
  PROVE  SearchInv'
BY SoundTyped DEF SearchInv, SearchTypeOK

\* A search that runs has a sound tree.
LEMMA RunningSound == SearchInv /\ search_pc # "idle" => TreeInv(tree)
BY DEF SearchInv, HeldNodes

LEMMA RolloutType ==
  ASSUME SearchInv, NEW text \in Texts PROVE Rollout(text) \in 0 .. Scale
BY SearchBounds DEF Rollout

\* a typed tree keeps its nodes: what new_node leaves to the search
LEMMA BeginKept ==
  ASSUME SearchInv, NEW m \in Modes, NEW text \in Roots, NEW fb \in BOOLEAN, NEW converged \in BOOLEAN,
         Begin(m, text, fb, converged)
  PROVE  SearchInv'
<1>1. text \in Texts
  BY SearchAssumption
<1>2. TreeInv(tree')
  <2>1. CASE tree.root # Nil /\ tree.nodes[tree.root].text = text
    BY <2>1 DEF Begin, SearchInv
  <2>2. CASE ~(tree.root # Nil /\ tree.nodes[tree.root].text = text)
    <3>1. tree' = Planted(text)
      BY <2>2 DEF Begin, Planted
    <3>2. QED
      BY <1>1, <3>1, PlantedIsSound
  <2>3. QED
    BY <2>1, <2>2
<1>3. /\ mode' = m /\ feedback' = fb /\ searches' = searches + 1 /\ count' = 0
      /\ wide' = [width |-> Width, plateau |-> 0, prev |-> tree'.bestValue]
      /\ variants' = <<>> /\ frontier' = <<tree'.root>> /\ nextf' = <<>>
      /\ search_pc' \in {"idle", "loop", "seed"} /\ searches < MaxSearches
  BY DEF Begin
<1>4. tree'.root \in DOMAIN tree'.nodes /\ tree'.root \in Nat /\ tree'.root # Nil /\ tree'.bestValue \in Nat
  BY <1>2, SoundTyped
<1>5. HeldNodes'
  BY <1>3, <1>4 DEF HeldNodes
<1>6. /\ wide' \in [width : Nat, plateau : Nat, prev : Nat]
      /\ wide'.width \in Width .. (Width + 2) /\ wide'.plateau \in 0 .. 2
  BY <1>3, <1>4, SearchBounds
<1>7. searches' \in 0 .. MaxSearches /\ count' \in 0 .. (Iterations + Depth + MaxSeeds)
  BY <1>3, SearchBounds DEF SearchInv, SearchTypeOK
<1>8. variants' \in Seq(Texts) /\ frontier' \in Seq(Nat) /\ nextf' \in Seq(Nat)
  BY <1>3, <1>4
<1>9. QED
  BY <1>2, <1>3, <1>5, <1>6, <1>7, <1>8, SoundStep

LEMMA SeedKept ==
  ASSUME SearchInv, NEW text \in Texts, Seed(text) PROVE SearchInv'
<1> DEFINE u == new_node(tree, text, tree.root, 1, Value[text])
<1>1. TreeInv(tree) /\ tree.root \in DOMAIN tree.nodes
  BY RunningSound, SoundTyped DEF Seed
<1>2. TreeInv(u) /\ DOMAIN tree.nodes \subseteq DOMAIN u.nodes /\ u.root = tree.root
  BY <1>1, NewNodeKept, SearchBounds
<1>3. tree' = [u EXCEPT !.seeded = TRUE] /\ search_pc = "seed" /\ count < MaxSeeds /\ count' = count + 1
      /\ UNCHANGED <<mode, feedback, searches, search_pc, wide, sel, variants, frontier, nextf>>
  BY DEF Seed, SameSearch
<1> HIDE DEF u
<1>4. TreeInv(tree') /\ tree'.nodes = u.nodes /\ tree'.root = u.root
  BY <1>2, <1>3, MarkedSeeded
<1>5. HeldNodes'
  BY <1>2, <1>3, <1>4 DEF HeldNodes, SearchInv
<1>6. count' \in 0 .. (Iterations + Depth + MaxSeeds)
  <2>1. count \in Nat /\ Iterations \in Nat /\ Depth \in Nat /\ MaxSeeds \in Nat
    BY SearchBounds DEF SearchInv, SearchTypeOK
  <2>2. QED
    BY <1>3, <2>1
<1>7. QED
  BY <1>3, <1>4, <1>5, <1>6, SoundStep DEF SearchInv, SearchTypeOK

LEMMA SeededKept ==
  ASSUME SearchInv, Seeded PROVE SearchInv'
<1>1. TreeInv(tree)
  BY RunningSound DEF Seeded
<1>2. tree' = [tree EXCEPT !.seeded = TRUE] /\ search_pc' = "loop" /\ count' = 0
      /\ UNCHANGED <<mode, feedback, searches, wide, sel, variants, frontier, nextf>>
  BY DEF Seeded, SameSearch
<1>3. TreeInv(tree') /\ tree'.nodes = tree.nodes /\ tree'.root = tree.root
  BY <1>1, <1>2, MarkedSeeded
<1>4. HeldNodes'
  BY <1>1, <1>2, <1>3, SoundTyped DEF HeldNodes, SearchInv
<1>5. count' \in 0 .. (Iterations + Depth + MaxSeeds)
  BY <1>2, SearchBounds
<1>6. QED
  BY <1>2, <1>3, <1>4, <1>5, SoundStep DEF SearchInv, SearchTypeOK

LEMMA ExpiredKept ==
  ASSUME SearchInv, Expired PROVE SearchInv'
<1>1. TreeInv(tree)
  BY RunningSound DEF Expired
<1>2. /\ search_pc \in {"seed", "loop", "variant"} /\ variants' = <<>>
      /\ search_pc' = IF search_pc = "variant" /\ mode = "mcts" THEN "pruning" ELSE "end"
      /\ UNCHANGED <<mode, feedback, searches, tree, count, wide, sel, frontier, nextf>>
  BY DEF Expired, SameSearch, End
<1>3. HeldNodes'
  BY <1>2 DEF HeldNodes, SearchInv
<1>4. variants' \in Seq(Texts)
  BY <1>2
<1>5. QED
  BY <1>1, <1>2, <1>3, <1>4, SoundStep DEF SearchInv, SearchTypeOK

LEMMA SelectLeafKept ==
  ASSUME SearchInv, NEW xs \in Variants(Width + 1), NEW n \in DOMAIN tree.nodes, SelectLeaf(n, xs)
  PROVE  SearchInv'
<1>1. TreeInv(tree)
  BY RunningSound DEF SelectLeaf
<1>2. /\ search_pc = "loop" /\ mode = "mcts" /\ count < Iterations
      /\ sel' = n /\ variants' = xs /\ search_pc' = "variant"
      /\ UNCHANGED <<mode, feedback, searches, tree, count, wide, frontier, nextf>>
  BY DEF SelectLeaf, SameSearch
<1>3. HeldNodes'
  BY <1>2 DEF HeldNodes, SearchInv
<1>4. variants' \in Seq(Texts)
  BY <1>2, VariantsAreTexts
<1>5. QED
  BY <1>1, <1>2, <1>3, <1>4, SoundStep DEF SearchInv, SearchTypeOK

LEMMA MctsVariantKept ==
  ASSUME SearchInv, NEW bonus \in Nat, MctsVariant(bonus) PROVE SearchInv'
<1> DEFINE text == Head(variants)
           v == Rollout(text)
           t == new_node(tree, text, sel, tree.nodes[sel].depth + 1, v)
           judged == IF v + bonus > Scale THEN Scale ELSE v + bonus
           again == /\ judged >= tree.nodes[sel].value + 1 /\ tree.nodes[sel].depth + 2 <= Depth + 1
                    /\ Value[text] >= judged
           up == IF again THEN Value[text] ELSE judged
<1>1. /\ search_pc = "variant" /\ mode = "mcts" /\ variants # <<>>
      /\ tree' = backprop(t, Made(tree, text), up) /\ variants' = Tail(variants)
      /\ UNCHANGED <<mode, feedback, searches, search_pc, count, wide, sel, frontier, nextf>>
  BY DEF MctsVariant, SameSearch
<1>2. TreeInv(tree) /\ sel \in DOMAIN tree.nodes
  BY <1>1, RunningSound DEF SearchInv, HeldNodes
<1>3. text \in Texts /\ variants' \in Seq(Texts)
  BY <1>1, HeadTailProperties DEF SearchInv, SearchTypeOK
<1>4. v \in 0 .. Scale /\ Value[text] \in 0 .. Scale
  BY <1>3, RolloutType, SearchBounds
<1>5. up \in 0 .. Scale
  <2>1. judged \in 0 .. Scale
    <3> HIDE DEF v
    <3>1. QED
      BY <1>4, SearchBounds
  <2> HIDE DEF judged
  <2>2. QED
    BY <1>4, <2>1
<1>6. tree.nodes[sel].depth + 1 \in Nat
  BY <1>2, SoundTyped DEF SearchNode
<1> HIDE DEF text, v, up
<1>7. TreeInv(t) /\ DOMAIN tree.nodes \subseteq DOMAIN t.nodes /\ t.root = tree.root
  BY <1>2, <1>3, <1>4, <1>6, NewNodeKept
<1> HIDE DEF t
<1>8. TreeInv(tree') /\ DOMAIN tree.nodes \subseteq DOMAIN tree'.nodes /\ tree'.root = tree.root
  BY <1>1, <1>5, <1>7, BackpropKept
<1>9. HeldNodes'
  BY <1>1, <1>2, <1>8 DEF HeldNodes, SearchInv
<1>10. QED
  BY <1>1, <1>3, <1>8, <1>9, SoundStep DEF SearchInv, SearchTypeOK

LEMMA EndIterationKept ==
  ASSUME SearchInv, NEW below \in BOOLEAN, EndIteration(below) PROVE SearchInv'
<1>1. /\ mode = "mcts" /\ search_pc \in {"variant", "pruning"} /\ tree' = prune(tree)
      /\ count' = count + 1 /\ search_pc' = (IF search_pc = "pruning" THEN "end" ELSE "loop")
      /\ UNCHANGED <<mode, feedback, searches, variants, frontier, nextf>>
  BY DEF EndIteration, SameSearch, End
<1>2. TreeInv(tree) /\ count < Iterations
  BY <1>1, RunningSound DEF SearchInv, HeldNodes
<1>3. TreeInv(tree') /\ tree'.root = tree.root
  BY <1>1, <1>2, PruneKept
<1>4. tree'.bestValue \in Nat /\ tree'.root # Nil
  BY <1>3, SoundTyped
<1>5. /\ wide' \in [width : Nat, plateau : Nat, prev : Nat]
      /\ wide'.width \in Width .. (Width + 2) /\ wide'.plateau \in 0 .. 2
  <2>1. /\ wide \in [width : Nat, plateau : Nat, prev : Nat]
        /\ wide.width \in Width .. (Width + 2) /\ wide.plateau \in 0 .. 2
    BY DEF SearchInv, SearchTypeOK
  <2>2. CASE below
    <3> DEFINE still == tree'.bestValue = wide.prev
               widen == still /\ wide.plateau > 0 /\ wide.width < Width + 2
               w == IF widen THEN wide.width + 1 ELSE wide.width
               p == IF ~still \/ widen THEN 0 ELSE IF wide.plateau < 2 THEN wide.plateau + 1 ELSE 2
    <3>1. wide' = [width |-> w, plateau |-> p, prev |-> tree'.bestValue]
      BY <2>2 DEF EndIteration
    <3>2. w \in Width .. (Width + 2) /\ w \in Nat /\ p \in 0 .. 2 /\ p \in Nat
      BY <2>1, SearchBounds
    <3> HIDE DEF w, p
    <3>3. QED
      BY <1>4, <3>1, <3>2
  <2>3. CASE ~below
    <3>1. wide' = [wide EXCEPT !.prev = tree'.bestValue]
      BY <2>3 DEF EndIteration
    <3>2. QED
      BY <1>4, <2>1, <3>1
  <2>4. QED
    BY <2>2, <2>3
<1>6. HeldNodes'
  BY <1>1, <1>4 DEF HeldNodes, SearchInv
<1>7. count' \in 0 .. (Iterations + Depth + MaxSeeds)
  BY <1>1, <1>2, SearchBounds DEF SearchInv, SearchTypeOK
<1>8. QED
  BY <1>1, <1>3, <1>5, <1>6, <1>7, SoundStep DEF SearchInv, SearchTypeOK

LEMMA ExpandFrontierKept ==
  ASSUME SearchInv, NEW xs \in Variants(Width + 1), ExpandFrontier(xs) PROVE SearchInv'
<1>1. TreeInv(tree)
  BY RunningSound DEF ExpandFrontier
<1>2. /\ search_pc = "loop" /\ mode = "beam" /\ frontier # <<>>
      /\ sel' = Head(frontier) /\ frontier' = Tail(frontier) /\ variants' = xs /\ search_pc' = "variant"
      /\ UNCHANGED <<mode, feedback, searches, tree, count, wide, nextf>>
  BY DEF ExpandFrontier, SameSearch
<1>3. /\ frontier \in Seq(Nat) /\ \A i \in DOMAIN frontier : frontier[i] \in DOMAIN tree.nodes
      /\ \A i \in DOMAIN nextf : nextf[i] \in DOMAIN tree.nodes
  BY <1>2 DEF SearchInv, SearchTypeOK, HeldNodes
<1>4. /\ Head(frontier) \in DOMAIN tree.nodes /\ Tail(frontier) \in Seq(Nat)
      /\ \A i \in DOMAIN Tail(frontier) : Tail(frontier)[i] \in DOMAIN tree.nodes
  <2>1. frontier \in Seq(DOMAIN tree.nodes)
    BY <1>3
  <2>2. Head(frontier) \in DOMAIN tree.nodes /\ Tail(frontier) \in Seq(DOMAIN tree.nodes)
    BY <1>2, <2>1, HeadTailProperties
  <2>3. Tail(frontier) \in Seq(Nat)
    BY <1>2, <1>3, HeadTailProperties
  <2>4. QED
    BY <2>2, <2>3
<1>5. HeldNodes'
  BY <1>1, <1>2, <1>3, <1>4, SoundTyped DEF HeldNodes
<1>6. variants' \in Seq(Texts)
  BY <1>2, VariantsAreTexts
<1>7. QED
  BY <1>1, <1>2, <1>4, <1>5, <1>6, SoundStep DEF SearchInv, SearchTypeOK

LEMMA BeamVariantKept ==
  ASSUME SearchInv, BeamVariant PROVE SearchInv'
<1>1. /\ search_pc = "variant" /\ mode = "beam"
      /\ UNCHANGED <<mode, feedback, searches, count, wide, sel, frontier>>
  BY DEF BeamVariant, SameSearch
<1>2. TreeInv(tree) /\ sel \in DOMAIN tree.nodes
  BY <1>1, RunningSound DEF SearchInv, HeldNodes
<1>3. CASE variants = <<>>
  <2>1. search_pc' = "loop" /\ UNCHANGED <<tree, variants, nextf>>
    BY <1>3 DEF BeamVariant
  <2>2. HeldNodes'
    BY <1>1, <2>1 DEF HeldNodes, SearchInv
  <2>3. QED
    BY <1>1, <1>2, <2>1, <2>2, SoundStep DEF SearchInv, SearchTypeOK
<1>4. CASE variants # <<>>
  <2> DEFINE text == Head(variants)
             v == Rollout(text)
             n == Made(tree, text)
             t == new_node(tree, text, sel, count + 1, v)
  <2>1. tree' = t /\ nextf' = Append(nextf, n) /\ variants' = Tail(variants) /\ search_pc' = search_pc
    BY <1>4 DEF BeamVariant
  <2>2. text \in Texts /\ variants' \in Seq(Texts)
    BY <1>4, <2>1, HeadTailProperties DEF SearchInv, SearchTypeOK
  <2>3. v \in 0 .. Scale /\ count + 1 \in Nat
    BY <2>2, RolloutType, SMTT(30) DEF SearchInv, SearchTypeOK
  <2> HIDE DEF text, v
  <2>4. TreeInv(t) /\ DOMAIN tree.nodes \subseteq DOMAIN t.nodes /\ t.root = tree.root /\ n \in DOMAIN t.nodes
    BY <1>2, <2>2, <2>3, NewNodeKept
  <2> HIDE DEF t, n
  <2>5. n \in Nat /\ tree'.root # Nil
    BY <2>1, <2>4, SoundTyped
  <2>6. nextf \in Seq(Nat) /\ \A i \in DOMAIN nextf : nextf[i] \in DOMAIN tree'.nodes
    BY <1>1, <2>1, <2>4 DEF SearchInv, SearchTypeOK, HeldNodes
  <2>7. nextf' \in Seq(Nat) /\ \A i \in DOMAIN nextf' : nextf'[i] \in DOMAIN tree'.nodes
    BY <2>1, <2>4, <2>5, <2>6
  <2>8. \A i \in DOMAIN frontier' : frontier'[i] \in DOMAIN tree'.nodes
    BY <1>1, <2>1, <2>4 DEF SearchInv, HeldNodes
  <2>9. HeldNodes'
    BY <1>1, <1>2, <2>1, <2>4, <2>5, <2>7, <2>8 DEF HeldNodes
  <2>10. QED
    BY <1>1, <2>1, <2>2, <2>4, <2>7, <2>9, SoundStep DEF SearchInv, SearchTypeOK
<1>5. QED
  BY <1>3, <1>4

LEMMA NextLevelKept ==
  ASSUME SearchInv, NextLevel PROVE SearchInv'
<1>1. /\ search_pc = "loop" /\ mode = "beam" /\ count < Depth /\ nextf' = <<>> /\ count' = count + 1
      /\ search_pc' \in {"loop", "end"}
      /\ UNCHANGED <<mode, feedback, searches, tree, wide, sel, variants>>
  BY DEF NextLevel, SameSearch, End
<1>2. TreeInv(tree)
  BY <1>1, RunningSound
<1> DEFINE k == IF Len(nextf) < BeamWidth THEN Len(nextf) ELSE BeamWidth
<1>3. PICK best \in [1 .. k -> 1 .. Len(nextf)] : frontier' = [i \in DOMAIN best |-> nextf[best[i]]]
  BY DEF NextLevel
<1>4. nextf \in Seq(Nat) /\ k \in Nat /\ \A i \in DOMAIN nextf : nextf[i] \in DOMAIN tree.nodes
  BY <1>1, SearchBounds DEF SearchInv, SearchTypeOK, HeldNodes
<1> HIDE DEF k
<1>5. frontier' = [i \in 1 .. k |-> nextf[best[i]]] /\ \A i \in 1 .. k : best[i] \in DOMAIN nextf
  BY <1>3, <1>4
<1>6. frontier' \in Seq(Nat) /\ \A i \in DOMAIN frontier' : frontier'[i] \in DOMAIN tree.nodes
  <2>1. \A i \in 1 .. k : nextf[best[i]] \in Nat /\ nextf[best[i]] \in DOMAIN tree.nodes
    BY <1>4, <1>5
  <2>2. QED
    BY <1>4, <1>5, <2>1
<1>7. HeldNodes'
  BY <1>1, <1>2, <1>6, SoundTyped DEF HeldNodes
<1>8. nextf' \in Seq(Nat) /\ count' \in 0 .. (Iterations + Depth + MaxSeeds)
  BY <1>1, SearchBounds, SMTT(30) DEF SearchInv, SearchTypeOK
<1>9. QED
  BY <1>1, <1>2, <1>6, <1>7, <1>8, SoundStep DEF SearchInv, SearchTypeOK

LEMMA EvolveKept ==
  ASSUME SearchInv, NEW xs \in Variants(Width + 1), Evolve(xs) PROVE SearchInv'
<1>1. TreeInv(tree)
  BY RunningSound DEF Evolve
<1>2. /\ search_pc = "loop" /\ mode = "ast" /\ count < Iterations
      /\ variants' = xs /\ search_pc' = "variant" /\ count' = count + 1
      /\ UNCHANGED <<mode, feedback, searches, tree, wide, sel, frontier, nextf>>
  BY DEF Evolve, SameSearch
<1>3. HeldNodes'
  BY <1>1, <1>2, SoundTyped DEF HeldNodes
<1>4. variants' \in Seq(Texts)
  BY <1>2, VariantsAreTexts
<1>5. count' \in 0 .. (Iterations + Depth + MaxSeeds)
  BY <1>2, SearchBounds DEF SearchInv, SearchTypeOK
<1>6. QED
  BY <1>1, <1>2, <1>3, <1>4, <1>5, SoundStep DEF SearchInv, SearchTypeOK

LEMMA AstMemberKept ==
  ASSUME SearchInv, AstMember PROVE SearchInv'
<1>1. /\ search_pc = "variant" /\ mode = "ast"
      /\ UNCHANGED <<mode, feedback, searches, count, wide, sel, frontier, nextf>>
  BY DEF AstMember, SameSearch
<1>2. TreeInv(tree) /\ tree.root \in DOMAIN tree.nodes
  BY <1>1, RunningSound, SoundTyped
<1>3. CASE variants = <<>> \/ Full
  <2>1. search_pc' = "loop" /\ variants' = <<>> /\ UNCHANGED tree
    BY <1>3 DEF AstMember
  <2>2. HeldNodes' /\ variants' \in Seq(Texts)
    BY <1>1, <2>1 DEF HeldNodes, SearchInv
  <2>3. QED
    BY <1>1, <1>2, <2>1, <2>2, SoundStep DEF SearchInv, SearchTypeOK
<1>4. CASE ~(variants = <<>> \/ Full)
  <2> DEFINE text == Head(variants)
             n == Made(tree, text)
             t == new_node(tree, text, tree.root, 1, Value[text])
  <2>1. /\ tree' = (IF Value[text] > tree.bestValue THEN [t EXCEPT !.best = n, !.bestValue = Value[text]] ELSE t)
        /\ variants' = Tail(variants) /\ search_pc' = search_pc
    BY <1>4 DEF AstMember
  <2>2. text \in Texts /\ variants' \in Seq(Texts)
    BY <1>4, <2>1, HeadTailProperties DEF SearchInv, SearchTypeOK
  <2>3. Value[text] \in 0 .. Scale
    BY <2>2, SearchBounds
  <2> HIDE DEF text
  <2>4. TreeInv(t) /\ DOMAIN tree.nodes \subseteq DOMAIN t.nodes /\ t.root = tree.root /\ n \in DOMAIN t.nodes
    BY <1>2, <2>2, <2>3, NewNodeKept, ZenonT(60)
  <2> HIDE DEF t, n
  <2>5. TreeInv(tree') /\ tree'.nodes = t.nodes /\ tree'.root = t.root
    <3>1. tree' = [t EXCEPT !.best = n, !.bestValue = Value[text]] \/ tree' = t
      BY <2>1
    <3>2. QED
      BY <2>3, <2>4, <3>1, BestChosen
  <2>6. HeldNodes'
    BY <1>1, <1>2, <2>1, <2>4, <2>5, SoundTyped DEF HeldNodes
  <2>7. QED
    BY <1>1, <2>1, <2>2, <2>5, <2>6, SoundStep DEF SearchInv, SearchTypeOK
<1>5. QED
  BY <1>3, <1>4

LEMMA LoopEndsKept ==
  ASSUME SearchInv, LoopEnds PROVE SearchInv'
<1>1. TreeInv(tree)
  BY RunningSound DEF LoopEnds
<1>2. /\ search_pc = "loop" /\ search_pc' = "end"
      /\ UNCHANGED <<mode, feedback, searches, tree, count, wide, sel, variants, frontier, nextf>>
  BY DEF LoopEnds, SameSearch, End
<1>3. HeldNodes'
  BY <1>2 DEF HeldNodes, SearchInv
<1>4. QED
  BY <1>1, <1>2, <1>3, SoundStep DEF SearchInv, SearchTypeOK

LEMMA ReturnBestKept ==
  ASSUME SearchInv, ReturnBest PROVE SearchInv'
<1>1. TreeInv(tree)
  BY RunningSound DEF ReturnBest
<1>2. /\ search_pc' = "idle" /\ mode' = Nil /\ feedback' = FALSE /\ count' = 0
      /\ wide' = [width |-> Width, plateau |-> 0, prev |-> 0]
      /\ frontier' = <<>> /\ nextf' = <<>> /\ UNCHANGED <<variants, searches>>
      /\ tree' = IF mode = "beam" THEN WithBest(tree) ELSE tree
  BY DEF ReturnBest
<1>3. TreeInv(tree')
  BY <1>1, <1>2, WithBestKept DEF TreeInv
<1>4. HeldNodes'
  BY <1>2 DEF HeldNodes
<1>5. /\ wide' \in [width : Nat, plateau : Nat, prev : Nat] /\ count' \in 0 .. (Iterations + Depth + MaxSeeds)
      /\ wide'.width \in Width .. (Width + 2) /\ wide'.plateau \in 0 .. 2
  BY <1>2, SearchBounds
<1>6. frontier' \in Seq(Nat) /\ nextf' \in Seq(Nat)
  BY <1>2
<1>7. QED
  BY <1>2, <1>3, <1>4, <1>5, <1>6, SoundStep DEF SearchInv, SearchTypeOK

LEMMA SearchInvInit == SearchInit => SearchInv
<1> SUFFICES ASSUME SearchInit PROVE SearchInv
  OBVIOUS
<1>1. tree = fresh_tree /\ tree.root = Nil /\ tree.nodes = <<>> /\ tree.seq = 0
  BY DEF SearchInit, fresh_tree
<1>2. SearchTypeOK
  <2>1. DOMAIN tree.nodes = {} /\ tree.seq \in Nat
    BY <1>1
  <2>2. wide = [width |-> Width, plateau |-> 0, prev |-> 0]
    BY DEF SearchInit
  <2>3. wide.width \in Width .. (Width + 2) /\ wide.plateau \in 0 .. 2
    BY <2>2, SearchBounds
  <2>4. /\ count \in 0 .. (Iterations + Depth + MaxSeeds) /\ searches \in 0 .. MaxSearches
        /\ variants \in Seq(Texts) /\ frontier \in Seq(Nat) /\ nextf \in Seq(Nat)
    BY SearchBounds DEF SearchInit
  <2>5. QED
    BY <2>1, <2>3, <2>4 DEF SearchInit, SearchTypeOK
<1>3. wide \in [width : Nat, plateau : Nat, prev : Nat]
  BY SearchBounds DEF SearchInit
<1>4. QED
  BY <1>1, <1>2, <1>3 DEF SearchInit, SearchInv, HeldNodes

LEMMA SearchInvNext == SearchInv /\ [SearchNext]_searchVars => SearchInv'
<1> SUFFICES ASSUME SearchInv, [SearchNext]_searchVars PROVE SearchInv'
  OBVIOUS
<1>1. ASSUME UNCHANGED searchVars PROVE SearchInv'
  BY <1>1 DEF searchVars, SearchInv, SearchTypeOK, HeldNodes
<1>2. ASSUME NEW m \in Modes, NEW r \in Roots, NEW fb \in BOOLEAN, NEW converged \in BOOLEAN,
             Begin(m, r, fb, converged)
      PROVE  SearchInv'
  BY <1>2, BeginKept
<1>3. ASSUME NEW x \in Texts, Seed(x) PROVE SearchInv'
  BY <1>3, SeedKept
<1>4. ASSUME NEW xs \in Variants(Width + 1), Evolve(xs) \/ ExpandFrontier(xs) PROVE SearchInv'
  BY <1>4, EvolveKept, ExpandFrontierKept
<1>5. ASSUME NEW xs \in Variants(Width + 1), NEW n \in DOMAIN tree.nodes, SelectLeaf(n, xs) PROVE SearchInv'
  BY <1>5, SelectLeafKept
<1>6. ASSUME NEW below \in BOOLEAN, EndIteration(below) PROVE SearchInv'
  BY <1>6, EndIterationKept
<1>7. ASSUME NEW bonus \in IF JudgeEvals THEN {0, Scale \div 20} ELSE {0}, MctsVariant(bonus) PROVE SearchInv'
  <2>1. bonus \in Nat
    BY SearchBounds
  <2>2. QED
    BY <1>7, <2>1, MctsVariantKept
<1>8. CASE Seeded \/ Expired \/ BeamVariant \/ NextLevel \/ AstMember \/ LoopEnds \/ ReturnBest
  BY <1>8, SeededKept, ExpiredKept, BeamVariantKept, NextLevelKept, AstMemberKept, LoopEndsKept, ReturnBestKept
<1>9. QED
  BY <1>1, <1>2, <1>3, <1>4, <1>5, <1>6, <1>7, <1>8 DEF SearchNext

\* The search tree stays a tree -- every link leads to a node that is there,
\* a parent lists its child, no path comes back, the best node exists --
\* whatever texts met again, prunings, timeouts and changes of the algorithm
\* came before (search and the tree operations, search_engine.py).
THEOREM TreesAreSound == SearchSpec => []TreeSound
<1>1. SearchInit => SearchInv
  BY SearchInvInit
<1>2. SearchInv /\ [SearchNext]_searchVars => SearchInv'
  BY SearchInvNext
<1>3. SearchInv => TreeSound
  BY DEF SearchInv, TreeInv, Grounded, TreeSound
<1>4. QED
  BY <1>1, <1>2, <1>3, PTL DEF SearchSpec

\* The type of the search's state.
THEOREM SearchTypesHold == SearchSpec => []SearchTypeOK
<1>1. SearchInv => SearchTypeOK
  BY DEF SearchInv
<1>2. QED
  BY <1>1, SearchInvInit, SearchInvNext, PTL DEF SearchSpec

=============================================================================
