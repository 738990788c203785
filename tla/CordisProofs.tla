----------------------------- MODULE CordisProofs -----------------------------
(***************************************************************************)
(* Undoing on one event loop, for any plan, contexts and effects: however  *)
(* the handlers, their background coroutines, the dispose functions and    *)
(* the disposals of nested contexts interleave, an inverse runs at most    *)
(* once, a disposal goes backwards, and a recovered plan has left nothing  *)
(* it had registered.                                                      *)
(*                                                                         *)
(* Three groups of facts are kept.  EffectInv follows one effect: what of  *)
(* its inverses ran and what is left account for all of them.  LogInv ties *)
(* the stages to the log of registrations.  ListInv follows one context:   *)
(* its list, and what its disposal still has to undo, are in the order of  *)
(* the log and miss no armed effect registered under the context.          *)
(*                                                                         *)
(* The second half is about services, for any fibers, needs and realms:    *)
(* whatever an operation sets off, and however deep its calls nest, when   *)
(* it returns the store, the provider stacks and the fibers agree.         *)
(***************************************************************************)
EXTENDS Cordis, Services, AscendingProofs, SequenceTheorems, FiniteSetTheorems, TLAPS

\* its inverses are all still to come: not registered, or armed
Fresh(e) == armed[e] \/ stage[e] \in {"idle", "iterating", "cancelled"}

EffectInv(e) ==
    /\ stage[e] \in {"idle", "iterating", "undoing", "registered", "raised", "cancelled"}
    /\ undoer[e] \in Ctx \cup {Nobody, "iterator"}
    /\ collected[e] \in Seq(Nat) /\ left[e] \in Seq(Nat) /\ tried[e] \in Seq(Nat)
    /\ IsFiniteSet(applied[e])
    /\ armed[e] => stage[e] = "registered"
    /\ Fresh(e) => tried[e] = <<>> /\ left[e] = <<>> /\ undoer[e] = Nobody
    /\ ~Fresh(e) => /\ tried[e] \o left[e] = Reverse(collected[e])
                    /\ applied[e] \cap ToSet(collected[e]) \subseteq failed[e] \cup ToSet(left[e])
    /\ undoer[e] = Nobody => left[e] = <<>>
    /\ undoer[e] = "iterator" <=> stage[e] = "undoing"
    /\ undoer[e] \in Ctx => stage[e] = "registered"

EffectsInv ==
    /\ stage = [e \in Eff |-> stage[e]] /\ undoer = [e \in Eff |-> undoer[e]]
    /\ collected = [e \in Eff |-> collected[e]] /\ armed \in [Eff -> BOOLEAN]
    /\ left = [e \in Eff |-> left[e]] /\ tried = [e \in Eff |-> tried[e]]
    /\ applied = [e \in Eff |-> applied[e]] /\ failed = [e \in Eff |-> failed[e]]
    /\ \A e \in Eff : EffectInv(e)

\* an effect is in the log once, from its registration on
LogInv ==
    /\ log \in Seq(Eff) /\ ectx = [e \in Eff |-> ectx[e]]
    /\ \A i, j \in DOMAIN log : log[i] = log[j] => i = j
    /\ \A e \in Eff : stage[e] = "registered" <=> \E i \in DOMAIN log : log[i] = e
    /\ \A e \in Eff : stage[e] # "idle" => ectx[e] \in Ctx

Holds(list, e) == \E m \in DOMAIN list : list[m] = e

\* the place of m in the list corresponds to place p of the log
At(list, m, p) == m \in DOMAIN list /\ p \in DOMAIN log /\ list[m] = log[p]

\* Under, of the context an effect was called on
Below(d, c) == d = c \/ (d # Nobody /\ Parent(d) = c)

ListInv(c) ==
    /\ inverses[c] \in Seq(Eff) /\ pending[c] \in Seq(Eff)
    /\ \A m \in DOMAIN inverses[c] : stage[inverses[c][m]] = "registered"
    /\ \A m, n, p, q : At(inverses[c], m, p) /\ At(inverses[c], n, q) /\ m < n => p < q
    /\ \A m \in DOMAIN pending[c] : stage[pending[c][m]] = "registered"
    /\ \A m, n, p, q : At(pending[c], m, p) /\ At(pending[c], n, q) /\ m < n => q < p
    /\ ~disposed[c] => /\ pending[c] = <<>> /\ cut[c] = 0
                       /\ \A k \in DOMAIN log : Below(ectx[log[k]], c) => Holds(inverses[c], log[k])
    /\ cut[c] \in Nat /\ cut[c] <= Len(log)
    /\ \A k \in 1..cut[c] : Below(ectx[log[k]], c) /\ armed[log[k]] => Holds(pending[c], log[k])
    /\ \A e \in Eff : undoer[e] = c => pending[c] # <<>> /\ Head(pending[c]) = e

ListsInv ==
    /\ inverses = [c \in Ctx |-> inverses[c]] /\ pending = [c \in Ctx |-> pending[c]]
    /\ disposed = [c \in Ctx |-> disposed[c]] /\ cut = [c \in Ctx |-> cut[c]]
    /\ \A c \in Ctx : ListInv(c)

\* the plan's context is disposed once
PlanInv ==
    /\ order \in Seq(PlanTasks) /\ executed \subseteq PlanTasks
    /\ plan_pc \in {"call", "next", "handling", "disposing", "done"}
    /\ plan_pc = "handling" => Cardinality(executed) < Len(order)
    /\ plan_pc \in {"call", "next", "handling"} => ~disposed[PlanCtx]
    /\ plan_pc = "disposing" => disposed[PlanCtx]
    /\ plan_pc # "done" => plan_result = "none"
    /\ plan_result = "recovered" => disposed[PlanCtx] /\ pending[PlanCtx] = <<>>

CordisInv == EffectsInv /\ LogInv /\ ListsInv /\ PlanInv

-----------------------------------------------------------------------------
(* Sequences *)

LEMMA Reversed ==
    ASSUME NEW S, NEW s \in Seq(S)
    PROVE  /\ Reverse(s) \in Seq(S) /\ Len(Reverse(s)) = Len(s) /\ Len(s) \in Nat
           /\ \A i \in 1..Len(s) : Reverse(s)[i] = s[(Len(s) - i) + 1]
           /\ ToSet(Reverse(s)) = ToSet(s)
<1>1. Len(s) \in Nat /\ DOMAIN s = 1..Len(s)
  BY LenProperties
<1>2. Reverse(s) = [i \in 1..Len(s) |-> s[(Len(s) - i) + 1]]
  BY DEF Reverse
<1>3. \A i \in 1..Len(s) : (Len(s) - i) + 1 \in 1..Len(s)
  BY <1>1
<1>4. \A i \in 1..Len(s) : s[(Len(s) - i) + 1] \in S
  BY <1>3, ElementOfSeq
<1>5. Reverse(s) \in [1..Len(s) -> S]
  BY <1>2, <1>4
<1>6. Reverse(s) \in Seq(S)
  BY <1>1, <1>5, SeqDef, Zenon
<1>7. DOMAIN Reverse(s) = 1..Len(s)
  BY <1>2
<1>8. Len(Reverse(s)) = Len(s)
  BY <1>1, <1>6, <1>7
<1>9. ToSet(Reverse(s)) \subseteq ToSet(s)
  BY <1>1, <1>2, <1>3, <1>7 DEF ToSet
<1>10. ASSUME NEW x \in ToSet(s) PROVE x \in ToSet(Reverse(s))
  <2>1. PICK i \in 1..Len(s) : s[i] = x
    BY <1>1 DEF ToSet
  <2>2. (Len(s) - i) + 1 \in 1..Len(s) /\ (Len(s) - ((Len(s) - i) + 1)) + 1 = i
    BY <1>1
  <2>3. Reverse(s)[(Len(s) - i) + 1] = x
    BY <1>2, <2>1, <2>2
  <2>4. QED
    BY <1>7, <2>2, <2>3 DEF ToSet
<1>11. QED
  BY <1>1, <1>2, <1>6, <1>8, <1>9, <1>10

\* one inverse moves from those left to those tried
LEMMA HeadMoves ==
    ASSUME NEW s \in Seq(Nat), NEW t \in Seq(Nat), t # <<>>
    PROVE  /\ Append(s, Head(t)) \in Seq(Nat) /\ Tail(t) \in Seq(Nat)
           /\ Append(s, Head(t)) \o Tail(t) = s \o t
           /\ ToSet(t) \subseteq {Head(t)} \cup ToSet(Tail(t))
<1> DEFINE a == Append(s, Head(t))
           u == Tail(t)
<1>1. /\ Len(t) \in Nat /\ Len(s) \in Nat /\ Len(t) > 0 /\ Head(t) = t[1] /\ Head(t) \in Nat
      /\ u \in Seq(Nat) /\ Len(u) = Len(t) - 1 /\ \A i \in 1..Len(u) : u[i] = t[i + 1]
  BY HeadTailProperties
<1>2. /\ a \in Seq(Nat) /\ Len(a) = Len(s) + 1
      /\ \A i \in 1..Len(s) : a[i] = s[i]
      /\ a[Len(s) + 1] = t[1]
  BY <1>1, AppendProperties
<1> HIDE DEF a, u
<1>3. /\ a \o u \in Seq(Nat) /\ Len(a \o u) = Len(s) + Len(t)
      /\ \A i \in 1..(Len(s) + Len(t)) :
            (a \o u)[i] = IF i <= Len(s) + 1 THEN a[i] ELSE u[i - (Len(s) + 1)]
  <2>1. Len(a) + Len(u) = Len(s) + Len(t)
    BY <1>1, <1>2
  <2>2. /\ a \o u \in Seq(Nat) /\ Len(a \o u) = Len(a) + Len(u)
        /\ \A i \in 1..(Len(a) + Len(u)) :
              (a \o u)[i] = IF i <= Len(a) THEN a[i] ELSE u[i - Len(a)]
    BY <1>1, <1>2, ConcatProperties
  <2>3. QED
    BY <1>2, <2>1, <2>2
<1>4. /\ s \o t \in Seq(Nat) /\ Len(s \o t) = Len(s) + Len(t)
      /\ \A i \in 1..(Len(s) + Len(t)) : (s \o t)[i] = IF i <= Len(s) THEN s[i] ELSE t[i - Len(s)]
  BY ConcatProperties
<1>5. ASSUME NEW i \in 1..(Len(s) + Len(t)) PROVE (a \o u)[i] = (s \o t)[i]
  <2>0. i \in Nat /\ Len(s) \in Nat /\ Len(t) \in Nat
    BY <1>1
  <2>1. CASE i <= Len(s)
    BY <1>1, <1>2, <1>3, <1>4, <2>1
  <2>2. CASE i = Len(s) + 1
    <3>1. (s \o t)[i] = t[i - Len(s)] /\ i - Len(s) = 1
      BY <1>1, <1>4, <2>2
    <3>2. (a \o u)[i] = a[Len(s) + 1]
      BY <1>1, <1>3, <2>2
    <3>3. QED
      BY <1>2, <3>1, <3>2
  <2>3. CASE i > Len(s) + 1
    <3>1. i - (Len(s) + 1) \in 1..Len(u) /\ (i - (Len(s) + 1)) + 1 = i - Len(s)
      BY <1>1, <2>3
    <3>2. (a \o u)[i] = u[i - (Len(s) + 1)]
      <4>1. ~ (i <= Len(s) + 1)
        BY <2>3
      <4>2. QED
        BY <1>3, <4>1
    <3>3. (s \o t)[i] = t[i - Len(s)]
      BY <1>1, <1>4, <2>3
    <3>4. QED
      BY <1>1, <3>1, <3>2, <3>3
  <2>4. QED
    <3>1. i <= Len(s) \/ i = Len(s) + 1 \/ i > Len(s) + 1
      <4>1. \A x, y \in Nat : x <= y \/ x = y + 1 \/ x > y + 1
        OBVIOUS
      <4>2. QED
        BY <2>0, <4>1
    <3>2. QED
      BY <2>1, <2>2, <2>3, <3>1
<1>6. a \o u = s \o t
  BY <1>3, <1>4, <1>5, SeqEqual
<1>7. ASSUME NEW x \in ToSet(t), x # Head(t) PROVE x \in ToSet(u)
  <2>1. PICK i \in 1..Len(t) : t[i] = x
    BY <1>1 DEF ToSet
  <2>2. i - 1 \in 1..Len(u) /\ (i - 1) + 1 = i
    BY <1>1, <1>7, <2>1
  <2>3. u[i - 1] = x
    BY <1>1, <2>1, <2>2
  <2>4. DOMAIN u = 1..Len(u)
    BY <1>1, LenProperties
  <2>5. QED
    BY <2>2, <2>3, <2>4 DEF ToSet
<1>8. QED
  BY <1>1, <1>2, <1>6, <1>7 DEF a, u

-----------------------------------------------------------------------------
(* One effect *)

Same(e) ==
    /\ stage'[e] = stage[e] /\ undoer'[e] = undoer[e] /\ collected'[e] = collected[e]
    /\ left'[e] = left[e] /\ tried'[e] = tried[e] /\ applied'[e] = applied[e]
    /\ failed'[e] = failed[e] /\ armed'[e] = armed[e]

LEMMA SameKept == ASSUME NEW e, Same(e), EffectInv(e) PROVE EffectInv(e)'
  BY DEF Same, EffectInv, Fresh

\* registration, whatever became of the mutations
LEMMA RegisterKept ==
    ASSUME EffectsInv, NEW e \in Eff, NEW c, NEW inv \in Seq(Nat), Register(e, c, inv),
           stage[e] \in {"idle", "iterating"},
           applied' = [applied EXCEPT ![e] = applied'[e]], IsFiniteSet(applied'[e]),
           UNCHANGED <<undoer, left, tried, failed>>
    PROVE  EffectsInv'
<1>1. \A d \in Eff \ {e} : Same(d)
  BY DEF EffectsInv, Register, Same
<1>2. /\ stage'[e] = "registered" /\ armed'[e] = TRUE /\ collected'[e] = inv
      /\ undoer'[e] = undoer[e] /\ left'[e] = left[e] /\ tried'[e] = tried[e]
  BY DEF EffectsInv, Register
<1>3. EffectInv(e)'
  <2>1. tried[e] = <<>> /\ left[e] = <<>> /\ undoer[e] = Nobody
    BY DEF EffectsInv, EffectInv, Fresh
  <2>2. Fresh(e)'
    BY <1>2 DEF Fresh
  <2>3. QED
    BY <1>2, <2>1, <2>2, CordisAssumption DEF EffectInv, EffectsInv
<1>4. QED
  BY <1>1, <1>3, SameKept DEF EffectsInv, Register

LEMMA EffectsKept == EffectsInv /\ [CordisNext]_cordisVars => EffectsInv'
<1> SUFFICES ASSUME EffectsInv, [CordisNext]_cordisVars PROVE EffectsInv'
  OBVIOUS
<1>1. ASSUME UNCHANGED <<stage, undoer, collected, left, tried, applied, failed, armed>>
      PROVE  EffectsInv'
  <2>1. \A e \in Eff : Same(e)
    BY <1>1 DEF Same
  <2>2. QED
    BY <1>1, <2>1, SameKept DEF EffectsInv
<1>2. CASE UNCHANGED cordisVars
  BY <1>1, <1>2 DEF cordisVars, effVars, undoVars
<1>3. CASE /\ UNCHANGED effVars
           /\ UNCHANGED undoVars
  BY <1>1, <1>3 DEF effVars, undoVars
<1>4. CASE CancelAwaited /\ UNCHANGED undoVars
  <2>1. \A e \in Eff : undoer'[e] = undoer[e] /\ collected'[e] = collected[e]
           /\ left'[e] = left[e] /\ tried'[e] = tried[e] /\ applied'[e] = applied[e]
           /\ failed'[e] = failed[e] /\ armed'[e] = armed[e]
    BY <1>4 DEF CancelAwaited, undoVars
  <2>2. ASSUME NEW e \in Eff PROVE EffectInv(e)'
    <3>1. CASE e \in awaited
      <4>1. stage[e] = "iterating" /\ stage'[e] = "cancelled"
        BY <1>4, <3>1 DEF CancelAwaited
      <4>2. Fresh(e) /\ ~armed[e] /\ Fresh(e)'
        BY <4>1 DEF Fresh, EffectsInv, EffectInv
      <4>3. QED
        BY <2>1, <4>1, <4>2 DEF EffectsInv, EffectInv
    <3>2. CASE e \notin awaited
      <4>1. Same(e)
        BY <1>4, <2>1, <3>2 DEF CancelAwaited, Same
      <4>2. QED
        BY <4>1, SameKept DEF EffectsInv
    <3>3. QED
      BY <3>1, <3>2
  <2>3. QED
    BY <1>4, <2>2 DEF EffectsInv, CancelAwaited, undoVars
<1>5. ASSUME NEW e \in Eff, NEW c \in Ctx, Effect(e, c) PROVE EffectsInv'
  <2>1. /\ stage[e] = "idle" /\ Register(e, c, <<1>>) /\ UNCHANGED <<undoer, left, tried, failed>>
        /\ applied' = [applied EXCEPT ![e] = {1}]
    BY <1>5 DEF Effect
  <2>2. applied'[e] = {1} /\ IsFiniteSet(applied'[e]) /\ <<1>> \in Seq(Nat)
    <3>1. applied'[e] = {1}
      BY <2>1 DEF EffectsInv
    <3>2. IsFiniteSet({1})
      BY FS_Singleton
    <3>3. QED
      BY <3>1, <3>2
  <2>3. QED
    BY <2>1, <2>2, RegisterKept
<1>6. ASSUME NEW e \in Eff, EffectTokenCancelled(e) PROVE EffectsInv'
  <2>1. /\ stage[e] = "iterating" /\ Register(e, ectx[e], collected[e])
        /\ UNCHANGED <<undoer, left, tried, failed>>
        /\ applied' = [applied EXCEPT ![e] = @ \cup {Cardinality(@) + 1}]
    BY <1>6 DEF EffectTokenCancelled
  <2>2. applied'[e] = applied[e] \cup {Cardinality(applied[e]) + 1}
    BY <2>1 DEF EffectsInv
  <2>3. IsFiniteSet(applied'[e]) /\ collected[e] \in Seq(Nat)
    <3>1. IsFiniteSet(applied[e]) /\ collected[e] \in Seq(Nat)
      BY DEF EffectsInv, EffectInv
    <3>2. IsFiniteSet(applied[e] \cup {Cardinality(applied[e]) + 1})
      BY <3>1, FS_AddElement
    <3>3. QED
      BY <2>2, <3>1, <3>2
  <2>4. applied' = [applied EXCEPT ![e] = applied'[e]]
    BY <2>1, <2>2 DEF EffectsInv
  <2>5. QED
    BY <2>1, <2>3, <2>4, RegisterKept
<1>7. ASSUME NEW e \in Eff, EffectEnd(e) PROVE EffectsInv'
  <2>1. /\ stage[e] = "iterating" /\ Register(e, ectx[e], collected[e])
        /\ UNCHANGED <<undoer, left, tried, failed, applied>>
    BY <1>7 DEF EffectEnd, undoVars
  <2>2. IsFiniteSet(applied'[e]) /\ collected[e] \in Seq(Nat)
    BY <2>1 DEF EffectsInv, EffectInv
  <2>3. applied' = [applied EXCEPT ![e] = applied'[e]]
    BY <2>1 DEF EffectsInv
  <2>4. QED
    BY <2>1, <2>2, <2>3, RegisterKept
<1>8. ASSUME NEW e \in Eff, NEW c \in Ctx, NEW wait \in BOOLEAN, AsyncEffect(e, c, wait)
      PROVE  EffectsInv'
  <2>1. /\ stage[e] = "idle" /\ stage' = [stage EXCEPT ![e] = "iterating"]
        /\ UNCHANGED <<undoer, collected, left, tried, applied, failed, armed>>
    BY <1>8 DEF AsyncEffect, undoVars
  <2>2. \A d \in Eff \ {e} : Same(d)
    BY <2>1 DEF EffectsInv, Same
  <2>3. stage'[e] = "iterating" /\ Fresh(e) /\ ~armed[e] /\ Fresh(e)'
    BY <2>1 DEF EffectsInv, EffectInv, Fresh
  <2>4. EffectInv(e)'
    BY <2>1, <2>3 DEF EffectsInv, EffectInv
  <2>5. QED
    BY <2>1, <2>2, <2>4, SameKept DEF EffectsInv
<1>9. ASSUME NEW e \in Eff, EffectStep(e) PROVE EffectsInv'
  <2> DEFINE s == Cardinality(applied[e]) + 1
  <2>1. /\ stage[e] = "iterating"
        /\ applied' = [applied EXCEPT ![e] = applied[e] \cup {s}]
        /\ collected' = [collected EXCEPT ![e] = Append(collected[e], s)]
        /\ UNCHANGED <<stage, undoer, left, tried, failed, armed>>
    BY <1>9 DEF EffectStep, EffectsInv
  <2>2. s \in Nat /\ IsFiniteSet(applied[e] \cup {s}) /\ Append(collected[e], s) \in Seq(Nat)
    <3>1. IsFiniteSet(applied[e]) /\ collected[e] \in Seq(Nat)
      BY DEF EffectsInv, EffectInv
    <3>2. Cardinality(applied[e]) \in Nat
      BY <3>1, FS_CardinalityType
    <3>3. s \in Nat
      BY <3>2
    <3>4. IsFiniteSet(applied[e] \cup {s})
      BY <3>1, FS_AddElement
    <3>5. Append(collected[e], s) \in Seq(Nat)
      BY <3>1, <3>3, AppendProperties
    <3>6. QED
      BY <3>3, <3>4, <3>5
  <2> HIDE DEF s
  <2>3. \A d \in Eff \ {e} : Same(d)
    BY <2>1 DEF EffectsInv, Same
  <2>4. /\ applied'[e] = applied[e] \cup {s} /\ collected'[e] = Append(collected[e], s)
        /\ stage'[e] = stage[e] /\ undoer'[e] = undoer[e] /\ left'[e] = left[e]
        /\ tried'[e] = tried[e] /\ armed'[e] = armed[e]
    BY <2>1 DEF EffectsInv
  <2>5. Fresh(e) /\ Fresh(e)'
    BY <2>1, <2>4 DEF Fresh
  <2>6. EffectInv(e)'
    BY <2>1, <2>2, <2>4, <2>5 DEF EffectsInv, EffectInv
  <2>7. QED
    BY <2>1, <2>3, <2>6, SameKept DEF EffectsInv
<1>10. ASSUME NEW e \in Eff, EffectRaises(e) PROVE EffectsInv'
  <2>1. /\ stage[e] = "iterating" /\ stage' = [stage EXCEPT ![e] = "undoing"]
        /\ undoer' = [undoer EXCEPT ![e] = "iterator"]
        /\ left' = [left EXCEPT ![e] = Reverse(collected[e])]
        /\ UNCHANGED <<collected, tried, applied, failed, armed>>
    BY <1>10 DEF EffectRaises
  <2>2. \A d \in Eff \ {e} : Same(d)
    BY <2>1 DEF EffectsInv, Same
  <2>3. /\ stage'[e] = "undoing" /\ undoer'[e] = "iterator" /\ left'[e] = Reverse(collected[e])
        /\ collected'[e] = collected[e] /\ tried'[e] = tried[e] /\ applied'[e] = applied[e]
        /\ failed'[e] = failed[e] /\ armed'[e] = armed[e]
    BY <2>1 DEF EffectsInv
  <2>4. Fresh(e) /\ ~armed[e] /\ tried[e] = <<>> /\ collected[e] \in Seq(Nat) /\ IsFiniteSet(applied[e])
    BY <2>1 DEF EffectsInv, EffectInv, Fresh
  <2>5. ~Fresh(e)'
    BY <2>3, <2>4 DEF Fresh
  <2>6. /\ Reverse(collected[e]) \in Seq(Nat) /\ ToSet(Reverse(collected[e])) = ToSet(collected[e])
        /\ <<>> \o Reverse(collected[e]) = Reverse(collected[e]) /\ <<>> \in Seq(Nat)
    BY <2>4, Reversed, ConcatEmptySeq
  <2>7. EffectInv(e)'
    BY <2>3, <2>4, <2>5, <2>6, CordisAssumption DEF EffectInv
  <2>8. QED
    BY <2>1, <2>2, <2>7, SameKept DEF EffectsInv
<1>11. ASSUME NEW e \in Eff, EffectCancelled(e) PROVE EffectsInv'
  <2>1. /\ stage[e] = "iterating" /\ stage' = [stage EXCEPT ![e] = "cancelled"]
        /\ UNCHANGED <<undoer, collected, left, tried, applied, failed, armed>>
    BY <1>11 DEF EffectCancelled, undoVars
  <2>2. \A d \in Eff \ {e} : Same(d)
    BY <2>1 DEF EffectsInv, Same
  <2>3. stage'[e] = "cancelled" /\ Fresh(e) /\ ~armed[e] /\ Fresh(e)'
    BY <2>1 DEF EffectsInv, EffectInv, Fresh
  <2>4. EffectInv(e)'
    BY <2>1, <2>3 DEF EffectsInv, EffectInv
  <2>5. QED
    BY <2>1, <2>2, <2>4, SameKept DEF EffectsInv
<1>12. ASSUME NEW e \in Eff, NEW F \in SUBSET Steps(e), Dispose1(e, F) PROVE EffectsInv'
  <2>1. /\ armed[e] /\ armed' = [armed EXCEPT ![e] = FALSE]
        /\ tried' = [tried EXCEPT ![e] = tried[e] \o Reverse(collected[e])]
        /\ applied' = [applied EXCEPT ![e] = applied[e] \ (ToSet(collected[e]) \ F)]
        /\ failed' = [failed EXCEPT ![e] = failed[e] \cup F]
        /\ UNCHANGED <<stage, undoer, collected, left>>
    BY <1>12 DEF Dispose1, EffectsInv
  <2>2. \A d \in Eff \ {e} : Same(d)
    BY <2>1 DEF EffectsInv, Same
  <2>3. /\ stage'[e] = stage[e] /\ undoer'[e] = undoer[e] /\ left'[e] = left[e]
        /\ collected'[e] = collected[e] /\ tried'[e] = tried[e] \o Reverse(collected[e])
        /\ applied'[e] = applied[e] \ (ToSet(collected[e]) \ F)
        /\ failed'[e] = failed[e] \cup F /\ armed'[e] = FALSE
    BY <2>1 DEF EffectsInv
  <2>4. /\ stage[e] = "registered" /\ tried[e] = <<>> /\ left[e] = <<>> /\ undoer[e] = Nobody
        /\ collected[e] \in Seq(Nat) /\ IsFiniteSet(applied[e])
    BY <2>1 DEF EffectsInv, EffectInv, Fresh
  <2>5. /\ Reverse(collected[e]) \in Seq(Nat) /\ <<>> \o Reverse(collected[e]) = Reverse(collected[e])
        /\ Reverse(collected[e]) \o <<>> = Reverse(collected[e])
    BY <2>4, Reversed, ConcatEmptySeq
  <2>6. ~Fresh(e)' /\ tried'[e] = Reverse(collected[e]) /\ IsFiniteSet(applied'[e])
    BY <2>3, <2>4, <2>5, FS_Subset DEF Fresh
  <2>7. applied'[e] \cap ToSet(collected[e]) \subseteq failed'[e]
    BY <2>3
  <2>8. EffectInv(e)'
    BY <2>3, <2>4, <2>5, <2>6, <2>7, CordisAssumption DEF EffectInv
  <2>9. QED
    BY <2>1, <2>2, <2>8, SameKept DEF EffectsInv
<1>13. ASSUME NEW e \in Eff, NEW ok \in BOOLEAN, UndoStep(e, ok) PROVE EffectsInv'
  <2> DEFINE s == Head(left[e])
  <2>1. /\ undoer[e] # Nobody /\ left[e] # <<>>
        /\ tried' = [tried EXCEPT ![e] = Append(tried[e], s)]
        /\ applied' = [applied EXCEPT ![e] = IF ok THEN applied[e] \ {s} ELSE applied[e]]
        /\ failed' = [failed EXCEPT ![e] = IF ok THEN failed[e] ELSE failed[e] \cup {s}]
        /\ left' = [left EXCEPT ![e] = Tail(left[e])]
        /\ UNCHANGED <<stage, undoer, collected, armed>>
    BY <1>13 DEF UndoStep, effVars, EffectsInv
  <2> HIDE DEF s
  <2>2. \A d \in Eff \ {e} : Same(d)
    BY <2>1 DEF EffectsInv, Same
  <2>3. /\ stage'[e] = stage[e] /\ undoer'[e] = undoer[e] /\ armed'[e] = armed[e]
        /\ collected'[e] = collected[e] /\ tried'[e] = Append(tried[e], s)
        /\ left'[e] = Tail(left[e])
        /\ applied'[e] = (IF ok THEN applied[e] \ {s} ELSE applied[e])
        /\ failed'[e] = (IF ok THEN failed[e] ELSE failed[e] \cup {s})
    BY <2>1 DEF EffectsInv
  <2>4. ~Fresh(e) /\ ~Fresh(e)' /\ EffectInv(e)
    BY <2>1, <2>3 DEF EffectsInv, EffectInv, Fresh
  <2>5. /\ tried'[e] \in Seq(Nat) /\ left'[e] \in Seq(Nat)
        /\ tried'[e] \o left'[e] = tried[e] \o left[e]
        /\ ToSet(left[e]) \subseteq {s} \cup ToSet(left'[e])
    BY <2>1, <2>3, <2>4, HeadMoves DEF EffectInv, s
  <2>6. applied'[e] \cap ToSet(collected[e]) \subseteq failed'[e] \cup ToSet(left'[e])
    BY <2>3, <2>4, <2>5 DEF EffectInv
  <2>7. IsFiniteSet(applied'[e])
    BY <2>3, <2>4, FS_Subset DEF EffectInv
  <2>8. EffectInv(e)'
    BY <2>1, <2>3, <2>4, <2>5, <2>6, <2>7 DEF EffectInv
  <2>9. QED
    BY <2>1, <2>2, <2>8, SameKept DEF EffectsInv
<1>14. ASSUME NEW e \in Eff, UndoEnd(e) PROVE EffectsInv'
  <2>1. /\ undoer[e] # Nobody /\ left[e] = <<>> /\ undoer' = [undoer EXCEPT ![e] = Nobody]
        /\ \/ undoer[e] \in Ctx /\ stage' = stage
           \/ undoer[e] \notin Ctx /\ stage' = [stage EXCEPT ![e] = "raised"]
        /\ UNCHANGED <<collected, armed, applied, left, tried, failed>>
    BY <1>14 DEF UndoEnd
  <2>2. \A d \in Eff \ {e} : Same(d)
    BY <2>1 DEF EffectsInv, Same
  <2>3. /\ undoer'[e] = Nobody /\ stage'[e] = (IF undoer[e] \in Ctx THEN stage[e] ELSE "raised")
        /\ left'[e] = left[e] /\ armed'[e] = armed[e]
        /\ collected'[e] = collected[e] /\ tried'[e] = tried[e]
        /\ applied'[e] = applied[e] /\ failed'[e] = failed[e]
    BY <2>1 DEF EffectsInv
  <2>4. EffectInv(e) /\ ~Fresh(e) /\ ~armed[e]
    BY <2>1 DEF EffectsInv, EffectInv, Fresh
  <2>5. ~Fresh(e)'
    BY <2>3, <2>4 DEF Fresh, EffectInv
  <2>6. EffectInv(e)'
    BY <2>1, <2>3, <2>4, <2>5, CordisAssumption DEF EffectInv
  <2>7. QED
    BY <2>1, <2>2, <2>6, SameKept DEF EffectsInv
<1>15. ASSUME NEW c \in Ctx, DisposeNext(c) PROVE EffectsInv'
  <2>1. ASSUME NEW e \in Eff, e = Head(pending[c]), armed[e] PROVE EffectsInv'
    <3>1. /\ armed' = [armed EXCEPT ![e] = FALSE] /\ undoer' = [undoer EXCEPT ![e] = c]
          /\ left' = [left EXCEPT ![e] = Reverse(collected[e])]
          /\ UNCHANGED <<stage, collected, applied, tried, failed>>
      BY <1>15, <2>1 DEF DisposeNext
    <3>2. \A d \in Eff \ {e} : Same(d)
      BY <3>1 DEF EffectsInv, Same
    <3>3. /\ armed'[e] = FALSE /\ undoer'[e] = c /\ left'[e] = Reverse(collected[e])
          /\ stage'[e] = stage[e] /\ collected'[e] = collected[e] /\ tried'[e] = tried[e]
          /\ applied'[e] = applied[e] /\ failed'[e] = failed[e]
      BY <2>1, <3>1 DEF EffectsInv
    <3>4. /\ stage[e] = "registered" /\ tried[e] = <<>> /\ collected[e] \in Seq(Nat)
          /\ IsFiniteSet(applied[e])
      BY <2>1 DEF EffectsInv, EffectInv, Fresh
    <3>5. /\ Reverse(collected[e]) \in Seq(Nat) /\ ToSet(Reverse(collected[e])) = ToSet(collected[e])
          /\ <<>> \o Reverse(collected[e]) = Reverse(collected[e]) /\ <<>> \in Seq(Nat)
      BY <3>4, Reversed, ConcatEmptySeq
    <3>6. ~Fresh(e)'
      BY <3>3, <3>4 DEF Fresh
    <3>7. EffectInv(e)'
      BY <3>3, <3>4, <3>5, <3>6, CordisAssumption DEF EffectInv
    <3>8. QED
      BY <3>1, <3>2, <3>7, SameKept DEF EffectsInv
  <2>2. ASSUME NEW e, e \notin Eff, e = Head(pending[c]), armed[e] PROVE EffectsInv'
    <3>1. /\ armed' = [armed EXCEPT ![e] = FALSE] /\ undoer' = [undoer EXCEPT ![e] = c]
          /\ left' = [left EXCEPT ![e] = Reverse(collected[e])]
          /\ UNCHANGED <<stage, collected, applied, tried, failed>>
      BY <1>15, <2>2 DEF DisposeNext
    <3>2. armed' = armed /\ undoer' = undoer /\ left' = left
      BY <2>2, <3>1 DEF EffectsInv
    <3>3. QED
      BY <1>1, <3>1, <3>2
  <2>3. CASE ~armed[Head(pending[c])]
    BY <1>1, <1>15, <2>3 DEF DisposeNext
  <2>4. QED
    BY <2>1, <2>2, <2>3
<1>16. ASSUME NEW o \in Order, CallPlan(o) PROVE EffectsInv'
  BY <1>3, <1>16 DEF CallPlan
<1>17. ASSUME Refuse \/ StartTask \/ HandlerReturns \/ AllExecuted \/ Recovered PROVE EffectsInv'
  BY <1>3, <1>17 DEF Refuse, StartTask, HandlerReturns, AllExecuted, Recovered
<1>18. ASSUME NEW b \in BOOLEAN, Blocked(b) \/ HandlerRaises(b) PROVE EffectsInv'
  BY <1>3, <1>18 DEF Blocked, HandlerRaises
<1>19. ASSUME NEW b \in BOOLEAN, HandlerTimesOut(b) PROVE EffectsInv'
  BY <1>4, <1>19 DEF HandlerTimesOut
<1>20. CASE RunCancelled
  BY <1>4, <1>20 DEF RunCancelled
<1>21. ASSUME DisposeByCaller \/ \E c \in Ctx : DisposeTask(c) PROVE EffectsInv'
  BY <1>3, <1>21 DEF DisposeByCaller, DisposeTask
<1>22. CASE Executor
  BY <1>16, <1>17, <1>18, <1>19, <1>20, <1>22 DEF Executor
<1>23. ASSUME NEW e \in Eff, EffectAction(e) \/ Undoing(e) PROVE EffectsInv'
  BY <1>5, <1>6, <1>7, <1>8, <1>9, <1>10, <1>11, <1>12, <1>13, <1>14, <1>23
     DEF EffectAction, Undoing
<1>24. QED
  BY <1>2, <1>15, <1>21, <1>22, <1>23 DEF CordisNext

-----------------------------------------------------------------------------
(* The log *)

\* no effect is registered
LEMMA LogStays ==
    ASSUME LogInv, UNCHANGED <<log, ectx>>,
           \A e \in Eff : /\ stage'[e] = "registered" <=> stage[e] = "registered"
                          /\ stage'[e] # "idle" => stage[e] # "idle"
    PROVE  LogInv'
  BY DEF LogInv

\* what an entry of the log is after a registration
LEMMA LogGrows ==
    ASSUME LogInv, NEW e \in Eff, log' = Append(log, e)
    PROVE  /\ Len(log) \in Nat /\ DOMAIN log = 1..Len(log)
           /\ log' \in Seq(Eff) /\ DOMAIN log' = 1..(Len(log) + 1) /\ Len(log') = Len(log) + 1
           /\ \A k \in DOMAIN log : log'[k] = log[k]
           /\ log'[Len(log) + 1] = e
<1>1. log \in Seq(Eff)
  BY DEF LogInv
<1>2. /\ log' \in Seq(Eff) /\ Len(log') = Len(log) + 1
      /\ \A k \in 1..Len(log) : log'[k] = log[k]
      /\ log'[Len(log) + 1] = e
  BY <1>1, AppendProperties
<1>3. Len(log) \in Nat /\ DOMAIN log = 1..Len(log)
  BY <1>1, LenProperties
<1>4. DOMAIN log' = 1..Len(log')
  BY <1>2, LenProperties
<1>5. QED
  BY <1>2, <1>3, <1>4

LEMMA RegisterLogged ==
    ASSUME EffectsInv, LogInv, NEW e \in Eff, NEW c \in Ctx, NEW inv, Register(e, c, inv),
           stage[e] # "registered", ectx' = [ectx EXCEPT ![e] = c]
    PROVE  LogInv'
<1>1. /\ log' = Append(log, e) /\ stage' = [stage EXCEPT ![e] = "registered"]
  BY DEF Register
<1>2. /\ Len(log) \in Nat /\ DOMAIN log = 1..Len(log)
      /\ log' \in Seq(Eff) /\ DOMAIN log' = 1..(Len(log) + 1)
      /\ \A k \in DOMAIN log : log'[k] = log[k]
      /\ log'[Len(log) + 1] = e
  BY <1>1, LogGrows
<1>3. \A k \in DOMAIN log : log[k] # e
  BY DEF LogInv
<1>4. /\ stage'[e] = "registered" /\ ectx'[e] = c
      /\ \A d \in Eff \ {e} : stage'[d] = stage[d] /\ ectx'[d] = ectx[d]
  BY <1>1 DEF EffectsInv, LogInv
<1>5. \A k \in DOMAIN log' : k \in DOMAIN log \/ k = Len(log) + 1
  BY <1>2
<1>6. ASSUME NEW i \in DOMAIN log', NEW j \in DOMAIN log', log'[i] = log'[j] PROVE i = j
  BY <1>2, <1>3, <1>5, <1>6 DEF LogInv
<1>7. ASSUME NEW d \in Eff PROVE stage'[d] = "registered" <=> \E i \in DOMAIN log' : log'[i] = d
  <2>1. CASE d = e
    <3>1. Len(log) + 1 \in DOMAIN log'
      BY <1>2
    <3>2. QED
      BY <1>2, <1>4, <2>1, <3>1
  <2>2. CASE d # e
    <3>1. stage[d] = "registered" <=> \E i \in DOMAIN log : log[i] = d
      BY DEF LogInv
    <3>2. DOMAIN log \subseteq DOMAIN log'
      BY <1>2
    <3>3. QED
      BY <1>2, <1>4, <1>5, <2>2, <3>1, <3>2
  <2>3. QED
    BY <2>1, <2>2
<1>8. QED
  BY <1>2, <1>4, <1>6, <1>7 DEF LogInv

LEMMA LogKept == EffectsInv /\ LogInv /\ [CordisNext]_cordisVars => LogInv'
<1> SUFFICES ASSUME EffectsInv, LogInv, [CordisNext]_cordisVars PROVE LogInv'
  OBVIOUS
<1>1. ASSUME UNCHANGED <<log, ectx, stage>> PROVE LogInv'
  BY <1>1, LogStays
<1>2. CASE UNCHANGED cordisVars
  BY <1>1, <1>2 DEF cordisVars, effVars
<1>3. CASE UNCHANGED effVars
  BY <1>1, <1>3 DEF effVars
<1>4. CASE CancelAwaited
  <2>1. UNCHANGED <<log, ectx>>
    BY <1>4 DEF CancelAwaited
  <2>2. \A e \in Eff : /\ stage'[e] = "registered" <=> stage[e] = "registered"
                       /\ stage'[e] # "idle" => stage[e] # "idle"
    BY <1>4 DEF CancelAwaited
  <2>3. QED
    BY <2>1, <2>2, LogStays
<1>5. ASSUME NEW e \in Eff, NEW c \in Ctx, Effect(e, c) PROVE LogInv'
  BY <1>5, RegisterLogged DEF Effect
<1>6. ASSUME NEW e \in Eff, EffectTokenCancelled(e) \/ EffectEnd(e) PROVE LogInv'
  <2>1. stage[e] = "iterating" /\ Register(e, ectx[e], collected[e]) /\ ectx' = ectx
    BY <1>6 DEF EffectTokenCancelled, EffectEnd
  <2>2. ectx[e] \in Ctx /\ ectx' = [ectx EXCEPT ![e] = ectx[e]]
    BY <2>1 DEF LogInv
  <2>3. QED
    BY <2>1, <2>2, RegisterLogged
<1>7. ASSUME NEW e \in Eff, NEW c \in Ctx, NEW wait \in BOOLEAN, AsyncEffect(e, c, wait)
      PROVE  LogInv'
  <2>1. /\ stage[e] = "idle" /\ log' = log /\ stage' = [stage EXCEPT ![e] = "iterating"]
        /\ ectx' = [ectx EXCEPT ![e] = c]
    BY <1>7 DEF AsyncEffect
  <2>2. /\ stage'[e] = "iterating" /\ ectx'[e] = c
        /\ \A d \in Eff \ {e} : stage'[d] = stage[d] /\ ectx'[d] = ectx[d]
    BY <2>1 DEF EffectsInv, LogInv
  <2>3. QED
    BY <2>1, <2>2 DEF LogInv
<1>8. ASSUME NEW e \in Eff, EffectRaises(e) \/ EffectCancelled(e) PROVE LogInv'
  <2>1. /\ stage[e] = "iterating" /\ UNCHANGED <<log, ectx>>
        /\ stage' \in {[stage EXCEPT ![e] = "undoing"], [stage EXCEPT ![e] = "cancelled"]}
    BY <1>8 DEF EffectRaises, EffectCancelled
  <2>2. \A d \in Eff : /\ stage'[d] = "registered" <=> stage[d] = "registered"
                       /\ stage'[d] # "idle" => stage[d] # "idle"
    BY <2>1 DEF EffectsInv
  <2>3. QED
    BY <2>1, <2>2, LogStays
<1>9. ASSUME NEW e \in Eff, EffectStep(e) \/ \E F \in SUBSET Steps(e) : Dispose1(e, F) PROVE LogInv'
  BY <1>1, <1>9 DEF EffectStep, Dispose1
<1>10. ASSUME NEW e \in Eff, NEW ok \in BOOLEAN, UndoStep(e, ok) PROVE LogInv'
  BY <1>3, <1>10 DEF UndoStep
<1>11. ASSUME NEW e \in Eff, UndoEnd(e) PROVE LogInv'
  <2>1. /\ undoer[e] # Nobody /\ UNCHANGED <<log, ectx>>
        /\ \/ undoer[e] \in Ctx /\ stage' = stage
           \/ undoer[e] \notin Ctx /\ stage' = [stage EXCEPT ![e] = "raised"]
    BY <1>11 DEF UndoEnd
  <2>2. undoer[e] \notin Ctx => stage[e] = "undoing"
    BY <2>1 DEF EffectsInv, EffectInv
  <2>3. \A d \in Eff : /\ stage'[d] = "registered" <=> stage[d] = "registered"
                       /\ stage'[d] # "idle" => stage[d] # "idle"
    BY <2>1, <2>2 DEF EffectsInv
  <2>4. QED
    BY <2>1, <2>3, LogStays
<1>12. ASSUME NEW c \in Ctx, DisposeNext(c) PROVE LogInv'
  BY <1>1, <1>12 DEF DisposeNext
<1>13. CASE Executor
  <2>1. CASE UNCHANGED effVars
    BY <1>3, <2>1
  <2>2. CASE CancelAwaited
    BY <1>4, <2>2
  <2>3. QED
    BY <1>13, <2>1, <2>2
       DEF Executor, CallPlan, Refuse, StartTask, HandlerReturns, RunCancelled, AllExecuted,
           Recovered, Blocked, HandlerRaises, HandlerTimesOut
<1>14. ASSUME DisposeByCaller \/ \E c \in Ctx : DisposeTask(c) PROVE LogInv'
  BY <1>3, <1>14 DEF DisposeByCaller, DisposeTask
<1>15. ASSUME NEW e \in Eff, EffectAction(e) \/ Undoing(e) PROVE LogInv'
  BY <1>5, <1>6, <1>7, <1>8, <1>9, <1>10, <1>11, <1>15 DEF EffectAction, Undoing
<1>16. QED
  BY <1>2, <1>12, <1>13, <1>14, <1>15 DEF CordisNext

-----------------------------------------------------------------------------
(* One context *)

\* nothing of the context's list moves, effects may be disarmed or given up
LEMMA ListStays ==
    ASSUME LogInv, NEW c \in Ctx, ListInv(c), log' = log,
           inverses'[c] = inverses[c], pending'[c] = pending[c], disposed'[c] = disposed[c],
           cut'[c] = cut[c],
           \A e \in Eff : /\ stage[e] = "registered" =>
                                stage'[e] = "registered" /\ ectx'[e] = ectx[e]
                          /\ armed'[e] => armed[e]
                          /\ undoer'[e] = c => undoer[e] = c
    PROVE  ListInv(c)'
<1>1. /\ \A m \in DOMAIN inverses[c] : inverses[c][m] \in Eff
      /\ \A m \in DOMAIN pending[c] : pending[c][m] \in Eff
  BY ElementOfSeq DEF ListInv
<1>2. \A k \in DOMAIN log : log[k] \in Eff /\ stage[log[k]] = "registered"
  BY ElementOfSeq DEF LogInv
<1>3. \A k \in DOMAIN log : ectx'[log[k]] = ectx[log[k]]
  BY <1>2
<1>4. \A k \in 1..cut[c] : k \in DOMAIN log
  BY DEF LogInv, ListInv
<1>5. \A k \in 1..cut[c] : Below(ectx'[log[k]], c) /\ armed'[log[k]] => Holds(pending[c], log[k])
  BY <1>2, <1>3, <1>4 DEF ListInv
<1>6. ~disposed[c] => \A k \in DOMAIN log : Below(ectx'[log[k]], c) => Holds(inverses[c], log[k])
  BY <1>3 DEF ListInv
<1>7. /\ \A m \in DOMAIN inverses[c] : stage'[inverses[c][m]] = "registered"
      /\ \A m \in DOMAIN pending[c] : stage'[pending[c][m]] = "registered"
  BY <1>1 DEF ListInv
<1>8. /\ \A m, n, p, q : At(inverses[c], m, p)' /\ At(inverses[c], n, q)' /\ m < n => p < q
      /\ \A m, n, p, q : At(pending[c], m, p)' /\ At(pending[c], n, q)' /\ m < n => q < p
  BY DEF ListInv, At
<1>9. \A e \in Eff : undoer'[e] = c => pending[c] # <<>> /\ Head(pending[c]) = e
  BY DEF ListInv
<1>10. QED
  BY <1>3, <1>5, <1>6, <1>7, <1>8, <1>9 DEF ListInv, Holds, Below

\* a registration: the effect joins the list, or that of another context
LEMMA ListGrows ==
    ASSUME EffectsInv, LogInv, NEW c \in Ctx, ListInv(c), NEW e \in Eff, NEW d \in Ctx, NEW inv,
           Register(e, d, inv), stage[e] # "registered", ectx' = [ectx EXCEPT ![e] = d],
           UNCHANGED <<pending, disposed, cut, undoer>>
    PROVE  ListInv(c)'
<1> DEFINE L == Len(log)
           mine == inverses[c]
<1>1. /\ log' = Append(log, e) /\ stage' = [stage EXCEPT ![e] = "registered"]
      /\ armed' = [armed EXCEPT ![e] = TRUE]
      /\ inverses'[c] = IF c \in {d, Parent(d)} THEN Append(mine, e) ELSE mine
  BY DEF Register
<1>2. /\ L \in Nat /\ DOMAIN log = 1..L
      /\ log' \in Seq(Eff) /\ DOMAIN log' = 1..(L + 1) /\ Len(log') = L + 1
      /\ \A k \in DOMAIN log : log'[k] = log[k]
      /\ log'[L + 1] = e
  BY <1>1, LogGrows
<1>3. \A k \in DOMAIN log : log[k] \in Eff /\ stage[log[k]] = "registered" /\ log[k] # e
  BY <1>2, ElementOfSeq DEF LogInv
<1>4. /\ stage'[e] = "registered" /\ ectx'[e] = d
      /\ \A x \in Eff \ {e} : stage'[x] = stage[x] /\ ectx'[x] = ectx[x] /\ armed'[x] = armed[x]
  BY <1>1 DEF EffectsInv, LogInv
<1>5. /\ mine \in Seq(Eff) /\ Len(mine) \in Nat /\ DOMAIN mine = 1..Len(mine)
      /\ \A m \in DOMAIN mine : mine[m] \in Eff /\ stage[mine[m]] = "registered" /\ mine[m] # e
  BY LenProperties, ElementOfSeq DEF ListInv
<1>6. /\ Append(mine, e) \in Seq(Eff) /\ Len(Append(mine, e)) = Len(mine) + 1
      /\ DOMAIN Append(mine, e) = 1..(Len(mine) + 1)
      /\ \A m \in 1..Len(mine) : Append(mine, e)[m] = mine[m]
      /\ Append(mine, e)[Len(mine) + 1] = e
  <2>1. /\ Append(mine, e) \in Seq(Eff) /\ Len(Append(mine, e)) = Len(mine) + 1
        /\ \A m \in 1..Len(mine) : Append(mine, e)[m] = mine[m]
        /\ Append(mine, e)[Len(mine) + 1] = e
    BY <1>5, AppendProperties
  <2>2. QED
    BY <2>1, LenProperties
<1>7. /\ pending[c] \in Seq(Eff)
      /\ \A m \in DOMAIN pending[c] : /\ pending[c][m] \in Eff /\ pending[c][m] # e
                                      /\ stage[pending[c][m]] = "registered"
  BY LenProperties, ElementOfSeq DEF ListInv
<1> HIDE DEF L, mine
<1>8. inverses'[c] \in Seq(Eff) /\ pending'[c] \in Seq(Eff)
  BY <1>1, <1>5, <1>6, <1>7
<1>9. \A m \in DOMAIN inverses'[c] : stage'[inverses'[c][m]] = "registered"
  <2> SUFFICES ASSUME NEW m \in DOMAIN inverses'[c] PROVE stage'[inverses'[c][m]] = "registered"
    OBVIOUS
  <2>1. inverses'[c][m] = e \/ (m \in DOMAIN mine /\ inverses'[c][m] = mine[m])
    BY <1>1, <1>5, <1>6
  <2>2. QED
    BY <1>4, <1>5, <2>1
<1>10. \A m \in DOMAIN pending'[c] : stage'[pending'[c][m]] = "registered"
  BY <1>4, <1>7
\* a place of the list corresponds to the same place of the log, or to the new one
<1>11. ASSUME NEW m, NEW p, At(inverses[c], m, p)'
       PROVE  \/ m \in 1..Len(mine) /\ p \in 1..L /\ At(mine, m, p)
              \/ m = Len(mine) + 1 /\ p = L + 1
  <2>1. m \in DOMAIN inverses'[c] /\ p \in 1..(L + 1) /\ inverses'[c][m] = log'[p]
    BY <1>2, <1>11 DEF At
  <2>2. p = L + 1 <=> inverses'[c][m] = e
    BY <1>2, <1>3, <2>1
  <2>3. CASE m \in DOMAIN mine /\ inverses'[c][m] = mine[m]
    <3>1. p \in 1..L
      BY <1>2, <1>5, <2>1, <2>2, <2>3
    <3>2. QED
      BY <1>2, <1>5, <2>1, <2>3, <3>1 DEF At
  <2>4. CASE m = Len(mine) + 1 /\ inverses'[c][m] = e
    BY <2>2, <2>4
  <2>5. QED
    BY <1>1, <1>5, <1>6, <2>1, <2>3, <2>4
<1>12. \A m, n, p, q : At(inverses[c], m, p)' /\ At(inverses[c], n, q)' /\ m < n => p < q
  <2> SUFFICES ASSUME NEW m, NEW n, NEW p, NEW q,
                      At(inverses[c], m, p)', At(inverses[c], n, q)', m < n
               PROVE  p < q
    OBVIOUS
  <2>1. \/ m \in 1..Len(mine) /\ p \in 1..L /\ At(mine, m, p)
        \/ m = Len(mine) + 1 /\ p = L + 1
    BY <1>11
  <2>2. \/ n \in 1..Len(mine) /\ q \in 1..L /\ At(mine, n, q)
        \/ n = Len(mine) + 1 /\ q = L + 1
    BY <1>11
  <2>3. CASE At(mine, m, p) /\ At(mine, n, q)
    BY <2>3 DEF ListInv, mine
  <2>4. CASE q = L + 1 /\ p \in 1..L
    BY <1>2, <2>4
  <2>5. ~ (m = Len(mine) + 1)
    BY <1>5, <2>2
  <2>6. QED
    BY <2>1, <2>2, <2>3, <2>4, <2>5
<1>13. \A m, n, p, q : At(pending[c], m, p)' /\ At(pending[c], n, q)' /\ m < n => q < p
  <2>1. \A m, p : At(pending[c], m, p)' => At(pending[c], m, p)
    <3> SUFFICES ASSUME NEW m, NEW p, At(pending[c], m, p)' PROVE At(pending[c], m, p)
      OBVIOUS
    <3>1. m \in DOMAIN pending[c] /\ p \in 1..(L + 1) /\ pending[c][m] = log'[p]
      BY <1>2 DEF At
    <3>2. p # L + 1
      BY <1>2, <1>7, <3>1
    <3>3. p \in 1..L
      BY <1>2, <3>1, <3>2
    <3>4. QED
      BY <1>2, <3>1, <3>3 DEF At
  <2>2. QED
    BY <2>1 DEF ListInv
<1>14. \A k \in DOMAIN log : ectx'[log'[k]] = ectx[log[k]]
  BY <1>2, <1>3, <1>4
<1>15. ASSUME ~disposed[c], NEW k \in DOMAIN log', Below(ectx'[log'[k]], c)
       PROVE  Holds(inverses'[c], log'[k])
  <2>1. CASE k = L + 1
    <3>1. d = c \/ Parent(d) = c
      BY <1>2, <1>4, <1>15, <2>1 DEF Below
    <3>2. inverses'[c] = Append(mine, e)
      BY <1>1, <3>1
    <3>3. Len(mine) + 1 \in DOMAIN inverses'[c] /\ inverses'[c][Len(mine) + 1] = e
      BY <1>5, <1>6, <3>2
    <3>4. log'[k] = e
      BY <1>2, <2>1
    <3>5. QED
      BY <3>3, <3>4 DEF Holds
  <2>2. CASE k \in 1..L
    <3>1. log'[k] = log[k] /\ Below(ectx[log[k]], c)
      BY <1>2, <1>14, <1>15, <2>2
    <3>2. PICK m \in DOMAIN mine : mine[m] = log[k]
      BY <1>2, <1>15, <2>2, <3>1 DEF ListInv, Holds, mine
    <3>3. m \in DOMAIN inverses'[c] /\ inverses'[c][m] = mine[m]
      BY <1>1, <1>5, <1>6
    <3>4. QED
      BY <3>1, <3>2, <3>3 DEF Holds
  <2>3. QED
    BY <1>2, <2>1, <2>2
<1>16. cut[c] \in Nat /\ cut[c] <= L
  BY DEF ListInv, L
<1>17. ASSUME NEW k \in 1..cut[c], Below(ectx'[log'[k]], c), armed'[log'[k]]
       PROVE  Holds(pending[c], log'[k])
  <2>1. k \in 1..L
    BY <1>2, <1>16
  <2>2. log'[k] = log[k] /\ log[k] \in Eff /\ log[k] # e
    BY <1>2, <1>3, <2>1
  <2>3. armed[log[k]]
    BY <1>4, <1>17, <2>2
  <2>4. Below(ectx[log[k]], c)
    BY <1>2, <1>14, <1>17, <2>1
  <2>5. QED
    BY <2>2, <2>3, <2>4 DEF ListInv
<1>18. \A x \in Eff : undoer'[x] = c => pending'[c] # <<>> /\ Head(pending'[c]) = x
  BY DEF ListInv
<1>19. ~disposed'[c] => pending'[c] = <<>> /\ cut'[c] = 0
  BY DEF ListInv
<1>20. cut'[c] \in Nat /\ cut'[c] <= Len(log')
  BY <1>2, <1>16
<1>21. \A k \in 1..cut'[c] : Below(ectx'[log'[k]], c) /\ armed'[log'[k]] => Holds(pending'[c], log'[k])
  BY <1>17
<1>22. ~disposed'[c] => \A k \in DOMAIN log' : Below(ectx'[log'[k]], c) => Holds(inverses'[c], log'[k])
  BY <1>15
<1>23. QED
  BY <1>8, <1>9, <1>10, <1>12, <1>13, <1>18, <1>19, <1>20, <1>21, <1>22 DEF ListInv, Below

\* the disposal begins
LEMMA ListTaken ==
    ASSUME LogInv, NEW c \in Ctx, ListInv(c), ~disposed[c],
           log' = log, armed' = armed, ectx' = ectx, undoer' = undoer,
           \A e \in Eff : stage[e] = "registered" => stage'[e] = "registered",
           disposed'[c] = TRUE, pending'[c] = Reverse(inverses[c]), inverses'[c] = <<>>,
           cut'[c] = Len(log)
    PROVE  ListInv(c)'
<1> DEFINE mine == inverses[c]
           L == Len(mine)
<1>1. /\ mine \in Seq(Eff) /\ L \in Nat /\ DOMAIN mine = 1..L
      /\ Len(log) \in Nat /\ DOMAIN log = 1..Len(log)
  BY LenProperties DEF ListInv, LogInv
<1>2. /\ Reverse(mine) \in Seq(Eff) /\ Len(Reverse(mine)) = L
      /\ \A i \in 1..L : Reverse(mine)[i] = mine[(L - i) + 1]
  BY <1>1, Reversed
<1>3. DOMAIN Reverse(mine) = 1..L
  BY <1>2, LenProperties
<1>4. <<>> \in Seq(Eff) /\ DOMAIN <<>> = {}
  BY EmptySeq
<1> HIDE DEF L, mine
<1>5. \A i \in 1..L : (L - i) + 1 \in 1..L /\ (L - ((L - i) + 1)) + 1 = i
  BY <1>1
<1>6. \A m \in DOMAIN pending'[c] : stage'[pending'[c][m]] = "registered"
  <2>1. pending'[c] = Reverse(mine)
    BY DEF mine
  <2>2. \A m \in 1..L : stage'[mine[m]] = "registered"
    <3>1. \A m \in 1..L : mine[m] \in Eff /\ stage[mine[m]] = "registered"
      BY <1>1, ElementOfSeq DEF ListInv, mine
    <3>2. QED
      BY <3>1
  <2>3. \A m \in 1..L : stage'[Reverse(mine)[m]] = "registered"
    <3> TAKE m \in 1..L
    <3>1. Reverse(mine)[m] = mine[(L - m) + 1] /\ (L - m) + 1 \in 1..L
      BY <1>2, <1>5
    <3>2. QED
      BY <2>2, <3>1
  <2>4. QED
    BY <1>3, <2>1, <2>3
<1>7. \A m, n, p, q : At(pending[c], m, p)' /\ At(pending[c], n, q)' /\ m < n => q < p
  <2> SUFFICES ASSUME NEW m, NEW n, NEW p, NEW q,
                      At(pending[c], m, p)', At(pending[c], n, q)', m < n
               PROVE  q < p
    OBVIOUS
  <2>1. m \in 1..L /\ n \in 1..L /\ p \in DOMAIN log /\ q \in DOMAIN log
        /\ Reverse(mine)[m] = log[p] /\ Reverse(mine)[n] = log[q]
    BY <1>3 DEF At, mine
  <2>2. At(mine, (L - m) + 1, p) /\ At(mine, (L - n) + 1, q)
    BY <1>1, <1>2, <1>5, <2>1 DEF At
  <2>3. (L - n) + 1 < (L - m) + 1
    BY <1>1, <2>1
  <2>4. QED
    BY <2>2, <2>3 DEF ListInv, mine
<1>8. ASSUME NEW k \in 1..Len(log), Below(ectx[log[k]], c) PROVE Holds(Reverse(mine), log[k])
  <2>1. PICK m \in DOMAIN mine : mine[m] = log[k]
    BY <1>1, <1>8 DEF ListInv, Holds, mine
  <2>2. (L - m) + 1 \in 1..L /\ Reverse(mine)[(L - m) + 1] = log[k]
    BY <1>1, <1>2, <1>5, <2>1
  <2>3. QED
    BY <1>3, <2>2 DEF Holds
<1>9. \A x \in Eff : undoer[x] # c
  BY DEF ListInv
<1>10. /\ \A m \in DOMAIN inverses'[c] : stage'[inverses'[c][m]] = "registered"
       /\ \A m, n, p, q : At(inverses[c], m, p)' /\ At(inverses[c], n, q)' /\ m < n => p < q
  BY <1>4 DEF At
<1>11. inverses'[c] \in Seq(Eff) /\ pending'[c] \in Seq(Eff)
  BY <1>2, <1>4 DEF mine
<1>12. \A k \in 1..cut'[c] : Below(ectx'[log'[k]], c) /\ armed'[log'[k]] => Holds(pending'[c], log'[k])
  BY <1>8 DEF mine
<1>13. cut'[c] \in Nat /\ cut'[c] <= Len(log')
  BY <1>1
<1>14. QED
  BY <1>6, <1>7, <1>9, <1>10, <1>11, <1>12, <1>13 DEF ListInv, Below

\* the disposal leaves an effect behind
LEMMA HeadLeaves ==
    ASSUME LogInv, NEW c \in Ctx, ListInv(c), pending[c] # <<>>, pending'[c] = Tail(pending[c]),
           ~armed[Head(pending[c])],
           log' = log, stage' = stage, ectx' = ectx, armed' = armed, inverses'[c] = inverses[c],
           disposed'[c] = disposed[c], cut'[c] = cut[c],
           \A x \in Eff : undoer'[x] # c
    PROVE  ListInv(c)'
<1> DEFINE list == pending[c]
<1>1. /\ list \in Seq(Eff) /\ Len(list) \in Nat /\ DOMAIN list = 1..Len(list) /\ Head(list) = list[1]
      /\ Tail(list) \in Seq(Eff) /\ Len(Tail(list)) = Len(list) - 1
      /\ \A m \in 1..Len(Tail(list)) : Tail(list)[m] = list[m + 1]
  BY HeadTailProperties, LenProperties DEF ListInv
<1>2. DOMAIN Tail(list) = 1..Len(Tail(list))
  BY <1>1, LenProperties
<1>3. \A m \in DOMAIN Tail(list) : m + 1 \in DOMAIN list /\ Tail(list)[m] = list[m + 1] /\ m \in Nat
  BY <1>1, <1>2
<1> HIDE DEF list
<1>4. \A m \in DOMAIN pending'[c] : stage'[pending'[c][m]] = "registered"
  BY <1>3 DEF ListInv, list
<1>5. \A m, n, p, q : At(pending[c], m, p)' /\ At(pending[c], n, q)' /\ m < n => q < p
  <2> SUFFICES ASSUME NEW m, NEW n, NEW p, NEW q,
                      At(pending[c], m, p)', At(pending[c], n, q)', m < n
               PROVE  q < p
    OBVIOUS
  <2>1. m \in DOMAIN Tail(list) /\ n \in DOMAIN Tail(list) /\ p \in DOMAIN log /\ q \in DOMAIN log
        /\ Tail(list)[m] = log[p] /\ Tail(list)[n] = log[q]
    BY DEF At, list
  <2>2. At(list, m + 1, p) /\ At(list, n + 1, q)
    BY <1>3, <2>1 DEF At
  <2>3. m + 1 < n + 1
    BY <1>3, <2>1
  <2>4. QED
    BY <2>2, <2>3 DEF ListInv, list
<1>6. ASSUME NEW k \in 1..cut[c], Below(ectx[log[k]], c), armed[log[k]] PROVE Holds(Tail(list), log[k])
  <2>1. PICK m \in DOMAIN list : list[m] = log[k]
    BY <1>6 DEF ListInv, Holds, list
  <2>2. m # 1
    BY <1>1, <1>6, <2>1 DEF list
  <2>3. m - 1 \in DOMAIN Tail(list) /\ Tail(list)[m - 1] = log[k]
    <3>1. m - 1 \in 1..Len(Tail(list)) /\ (m - 1) + 1 = m
      BY <1>1, <2>1, <2>2
    <3>2. QED
      BY <1>1, <1>2, <2>1, <3>1
  <2>4. QED
    BY <2>3 DEF Holds
<1>7. disposed[c]
  BY DEF ListInv
<1>8. /\ inverses'[c] \in Seq(Eff) /\ pending'[c] \in Seq(Eff)
      /\ \A m \in DOMAIN inverses'[c] : stage'[inverses'[c][m]] = "registered"
  BY <1>1 DEF ListInv, list
<1>9. \A m, n, p, q : At(inverses[c], m, p)' /\ At(inverses[c], n, q)' /\ m < n => p < q
  BY DEF ListInv, At
<1>10. \A k \in 1..cut'[c] : Below(ectx'[log'[k]], c) /\ armed'[log'[k]] => Holds(pending'[c], log'[k])
  BY <1>6 DEF list
<1>11. cut'[c] \in Nat /\ cut'[c] <= Len(log')
  BY DEF ListInv
<1>12. QED
  BY <1>4, <1>5, <1>7, <1>8, <1>9, <1>10, <1>11 DEF ListInv, Below

LEMMA ListsKept ==
    EffectsInv /\ LogInv /\ ListsInv /\ PlanInv /\ [CordisNext]_cordisVars => ListsInv'
<1> SUFFICES ASSUME EffectsInv, LogInv, ListsInv, PlanInv, [CordisNext]_cordisVars PROVE ListsInv'
  OBVIOUS
<1>1. ASSUME UNCHANGED <<disposed, inverses, pending, cut, log>>,
             \A e \in Eff : /\ stage[e] = "registered" =>
                                  stage'[e] = "registered" /\ ectx'[e] = ectx[e]
                            /\ armed'[e] => armed[e]
                            /\ undoer'[e] \in Ctx => undoer[e] = undoer'[e]
      PROVE  ListsInv'
  <2>1. ASSUME NEW c \in Ctx PROVE ListInv(c)'
    <3>1. /\ inverses'[c] = inverses[c] /\ pending'[c] = pending[c] /\ disposed'[c] = disposed[c]
          /\ cut'[c] = cut[c] /\ log' = log /\ ListInv(c)
      BY <1>1 DEF ListsInv
    <3>2. QED
      BY <1>1, <3>1, ListStays
  <2>2. QED
    BY <1>1, <2>1 DEF ListsInv
<1>2. ASSUME NEW e \in Eff, NEW d \in Ctx, NEW inv, Register(e, d, inv), stage[e] # "registered",
             ectx' = [ectx EXCEPT ![e] = d], UNCHANGED <<pending, disposed, cut, undoer>>
      PROVE  ListsInv'
  <2>1. \A c \in Ctx : ListInv(c)'
    BY <1>2, ListGrows DEF ListsInv
  <2>2. inverses' = [c \in Ctx |-> inverses'[c]]
    BY <1>2 DEF Register
  <2>3. QED
    BY <1>2, <2>1, <2>2 DEF ListsInv
<1>3. ASSUME NEW c \in Ctx, ~disposed[c], BeginDispose(c), UNCHANGED undoVars,
             log' = log, armed' = armed, ectx' = ectx,
             \A e \in Eff : stage[e] = "registered" => stage'[e] = "registered"
      PROVE  ListsInv'
  <2>1. /\ disposed' = [disposed EXCEPT ![c] = TRUE]
        /\ pending' = [pending EXCEPT ![c] = Reverse(inverses[c])]
        /\ inverses' = [inverses EXCEPT ![c] = <<>>] /\ cut' = [cut EXCEPT ![c] = Len(log)]
        /\ undoer' = undoer
    BY <1>3 DEF BeginDispose, undoVars
  <2>2. ASSUME NEW d \in Ctx \ {c} PROVE ListInv(d)'
    <3>1. /\ disposed'[d] = disposed[d] /\ pending'[d] = pending[d] /\ inverses'[d] = inverses[d]
          /\ cut'[d] = cut[d] /\ ListInv(d)
      BY <2>1 DEF ListsInv
    <3>2. QED
      BY <1>3, <2>1, <3>1, ListStays
  <2>3. ListInv(c)'
    <3>1. /\ disposed'[c] = TRUE /\ pending'[c] = Reverse(inverses[c]) /\ inverses'[c] = <<>>
          /\ cut'[c] = Len(log) /\ ListInv(c)
      BY <2>1 DEF ListsInv
    <3>2. QED
      BY <1>3, <2>1, <3>1, ListTaken
  <2>4. QED
    BY <2>1, <2>2, <2>3 DEF ListsInv
<1>4. CASE UNCHANGED cordisVars
  BY <1>1, <1>4 DEF cordisVars, ctxVars, effVars, undoVars
<1>5. ASSUME UNCHANGED <<ctxVars, effVars, undoVars>> PROVE ListsInv'
  BY <1>1, <1>5 DEF ctxVars, effVars, undoVars
<1>6. ASSUME NEW e \in Eff, NEW c \in Ctx, Effect(e, c) PROVE ListsInv'
  BY <1>2, <1>6 DEF Effect
<1>7. ASSUME NEW e \in Eff, EffectTokenCancelled(e) \/ EffectEnd(e) PROVE ListsInv'
  <2>1. /\ stage[e] = "iterating" /\ Register(e, ectx[e], collected[e]) /\ ectx' = ectx
        /\ UNCHANGED <<pending, disposed, cut, undoer>>
    BY <1>7 DEF EffectTokenCancelled, EffectEnd, undoVars
  <2>2. ectx[e] \in Ctx /\ ectx' = [ectx EXCEPT ![e] = ectx[e]]
    BY <2>1 DEF LogInv
  <2>3. QED
    BY <1>2, <2>1, <2>2
<1>8. ASSUME NEW e \in Eff, NEW c \in Ctx, NEW wait \in BOOLEAN, AsyncEffect(e, c, wait)
      PROVE  ListsInv'
  <2>1. /\ stage[e] = "idle" /\ log' = log /\ stage' = [stage EXCEPT ![e] = "iterating"]
        /\ ectx' = [ectx EXCEPT ![e] = c] /\ armed' = armed /\ undoer' = undoer
        /\ UNCHANGED <<disposed, inverses, pending, cut, log>>
    BY <1>8 DEF AsyncEffect, ctxVars, undoVars
  <2>2. \A d \in Eff : stage[d] = "registered" => stage'[d] = "registered" /\ ectx'[d] = ectx[d]
    BY <2>1 DEF EffectsInv, LogInv
  <2>3. QED
    BY <1>1, <2>1, <2>2
<1>9. ASSUME NEW e \in Eff, EffectRaises(e) PROVE ListsInv'
  <2>1. /\ stage[e] = "iterating" /\ ectx' = ectx /\ armed' = armed
        /\ stage' = [stage EXCEPT ![e] = "undoing"] /\ undoer' = [undoer EXCEPT ![e] = "iterator"]
        /\ UNCHANGED <<disposed, inverses, pending, cut, log>>
    BY <1>9 DEF EffectRaises, ctxVars
  <2>2. \A d \in Eff : /\ stage[d] = "registered" => stage'[d] = "registered"
                       /\ undoer'[d] \in Ctx => undoer[d] = undoer'[d]
    BY <2>1, CordisAssumption DEF EffectsInv
  <2>3. QED
    BY <1>1, <2>1, <2>2
<1>10. ASSUME NEW e \in Eff, EffectCancelled(e) PROVE ListsInv'
  <2>1. /\ stage[e] = "iterating" /\ ectx' = ectx /\ armed' = armed /\ undoer' = undoer
        /\ stage' = [stage EXCEPT ![e] = "cancelled"]
        /\ UNCHANGED <<disposed, inverses, pending, cut, log>>
    BY <1>10 DEF EffectCancelled, ctxVars, undoVars
  <2>2. \A d \in Eff : stage[d] = "registered" => stage'[d] = "registered"
    BY <2>1 DEF EffectsInv
  <2>3. QED
    BY <1>1, <2>1, <2>2
<1>11. ASSUME NEW e \in Eff, EffectStep(e) PROVE ListsInv'
  BY <1>1, <1>11 DEF EffectStep, ctxVars
<1>12. ASSUME NEW e \in Eff, NEW F \in SUBSET Steps(e), Dispose1(e, F) PROVE ListsInv'
  <2>1. /\ stage' = stage /\ ectx' = ectx /\ undoer' = undoer /\ armed' = [armed EXCEPT ![e] = FALSE]
        /\ UNCHANGED <<disposed, inverses, pending, cut, log>>
    BY <1>12 DEF Dispose1, ctxVars
  <2>2. \A d \in Eff : armed'[d] => armed[d]
    BY <2>1 DEF EffectsInv
  <2>3. QED
    BY <1>1, <2>1, <2>2
<1>13. ASSUME NEW e \in Eff, NEW ok \in BOOLEAN, UndoStep(e, ok) PROVE ListsInv'
  BY <1>1, <1>13 DEF UndoStep, effVars
<1>14. ASSUME NEW e \in Eff, UndoEnd(e) PROVE ListsInv'
  <2>1. /\ undoer[e] # Nobody /\ undoer' = [undoer EXCEPT ![e] = Nobody]
        /\ UNCHANGED <<disposed, inverses, cut, log, ectx, armed>>
    BY <1>14 DEF UndoEnd
  <2>2. undoer'[e] = Nobody /\ \A d \in Eff \ {e} : undoer'[d] = undoer[d]
    BY <2>1 DEF EffectsInv
  <2>3. CASE undoer[e] \notin Ctx
    <3>1. /\ pending' = pending /\ stage' = [stage EXCEPT ![e] = "raised"]
      BY <1>14, <2>3 DEF UndoEnd
    <3>2. stage[e] # "registered"
      BY <2>1, <2>3 DEF EffectsInv, EffectInv
    <3>3. \A d \in Eff : stage[d] = "registered" => stage'[d] = "registered"
      BY <3>1, <3>2 DEF EffectsInv
    <3>4. \A d \in Eff : undoer'[d] \in Ctx => undoer[d] = undoer'[d]
      BY <2>2, CordisAssumption
    <3>5. QED
      BY <1>1, <2>1, <3>1, <3>3, <3>4
  <2>4. ASSUME NEW c \in Ctx, undoer[e] = c PROVE ListsInv'
    <3>1. /\ pending' = [pending EXCEPT ![c] = Tail(pending[c])] /\ stage' = stage
      BY <1>14, <2>4 DEF UndoEnd, ListsInv
    <3>2. ListInv(c) /\ pending'[c] = Tail(pending[c]) /\ pending[c] # <<>> /\ Head(pending[c]) = e
      BY <2>4, <3>1 DEF ListsInv, ListInv
    <3>3. ~armed[e]
      BY <2>1 DEF EffectsInv, EffectInv, Fresh
    <3>4. \A d \in Eff : undoer'[d] # c
      BY <2>2, <3>2, CordisAssumption DEF ListInv
    <3>5. ListInv(c)'
      BY <2>1, <3>1, <3>2, <3>3, <3>4, HeadLeaves
    <3>6. ASSUME NEW d \in Ctx \ {c} PROVE ListInv(d)'
      <4>1. pending'[d] = pending[d] /\ ListInv(d) /\ d # Nobody
        BY <3>1, CordisAssumption DEF ListsInv
      <4>2. QED
        BY <2>1, <2>2, <3>1, <4>1, ListStays
    <3>7. QED
      BY <2>1, <3>1, <3>5, <3>6 DEF ListsInv
  <2>5. QED
    BY <2>3, <2>4
<1>15. ASSUME NEW c \in Ctx, DisposeNext(c) PROVE ListsInv'
  <2> DEFINE list == pending[c]
  <2>1. /\ list # <<>> /\ undoer[Head(list)] # c
        /\ UNCHANGED <<disposed, inverses, cut, log, ectx, stage>>
    BY <1>15 DEF DisposeNext
  <2>2. ListInv(c) /\ Head(list) \in Eff
    BY <2>1, HeadTailProperties DEF ListsInv, ListInv
  <2>3. \A d \in Eff : undoer[d] # c
    BY <2>1, <2>2 DEF ListInv
  <2>4. ASSUME NEW e \in Eff, e = Head(list), armed[e] PROVE ListsInv'
    <3>1. /\ pending' = pending /\ armed' = [armed EXCEPT ![e] = FALSE]
          /\ undoer' = [undoer EXCEPT ![e] = c]
      BY <1>15, <2>4 DEF DisposeNext
    <3>2. /\ armed'[e] = FALSE /\ undoer'[e] = c
          /\ \A d \in Eff \ {e} : armed'[d] = armed[d] /\ undoer'[d] = undoer[d]
      BY <3>1 DEF EffectsInv
    <3>3. ASSUME NEW d \in Ctx \ {c} PROVE ListInv(d)'
      <4>1. ListInv(d) /\ \A x \in Eff : undoer'[x] = d => undoer[x] = d
        BY <3>2 DEF ListsInv
      <4>2. QED
        BY <2>1, <3>1, <3>2, <4>1, ListStays
    <3>4. ListInv(c)'
      <4>1. \A m, n, p, q : At(inverses[c], m, p)' /\ At(inverses[c], n, q)' /\ m < n => p < q
        BY <2>1, <2>2 DEF ListInv, At
      <4>2. \A m, n, p, q : At(pending[c], m, p)' /\ At(pending[c], n, q)' /\ m < n => q < p
        BY <2>1, <2>2, <3>1 DEF ListInv, At
      <4>3. \A x \in Eff : undoer'[x] = c => pending'[c] # <<>> /\ Head(pending'[c]) = x
        BY <2>1, <2>3, <2>4, <3>1, <3>2
      <4>4. cut[c] <= Len(log) /\ cut[c] \in Nat /\ \A k \in 1..cut[c] : log[k] \in Eff
        <5>1. cut[c] <= Len(log) /\ cut[c] \in Nat
          BY <2>2 DEF ListInv
        <5>2. log \in Seq(Eff) /\ Len(log) \in Nat
          BY LenProperties DEF LogInv
        <5>3. \A k \in 1..cut[c] : k \in 1..Len(log)
          BY <5>1, <5>2
        <5>4. QED
          BY <5>1, <5>2, <5>3, ElementOfSeq
      <4>5. \A k \in 1..cut'[c] : Below(ectx'[log'[k]], c) /\ armed'[log'[k]] => Holds(pending'[c], log'[k])
        BY <2>1, <2>2, <3>1, <3>2, <4>4 DEF ListInv
      <4>6. disposed[c]
        BY <2>1, <2>2 DEF ListInv
      <4>7. QED
        BY <2>1, <2>2, <3>1, <4>1, <4>2, <4>3, <4>4, <4>5, <4>6 DEF ListInv
    <3>5. QED
      BY <2>1, <3>1, <3>3, <3>4 DEF ListsInv
  <2>5. CASE ~armed[Head(list)]
    <3>1. pending' = [pending EXCEPT ![c] = Tail(list)] /\ UNCHANGED <<armed, undoer>>
      BY <1>15, <2>5 DEF DisposeNext, ListsInv
    <3>2. pending'[c] = Tail(pending[c]) /\ \A d \in Ctx \ {c} : pending'[d] = pending[d]
      BY <3>1 DEF ListsInv
    <3>3. ListInv(c)'
      BY <2>1, <2>2, <2>3, <2>5, <3>1, <3>2, HeadLeaves
    <3>4. ASSUME NEW d \in Ctx \ {c} PROVE ListInv(d)'
      BY <2>1, <3>1, <3>2, ListStays DEF ListsInv
    <3>5. QED
      BY <2>1, <3>1, <3>3, <3>4 DEF ListsInv
  <2>6. QED
    BY <2>2, <2>4, <2>5
<1>16. ASSUME CancelAwaited, UNCHANGED undoVars, UNCHANGED ctxVars PROVE ListsInv'
  <2>1. /\ UNCHANGED <<disposed, inverses, pending, cut, log, ectx, armed, undoer>>
        /\ \A e \in Eff : stage[e] = "registered" => stage'[e] = "registered"
    BY <1>16 DEF CancelAwaited, undoVars, ctxVars
  <2>2. QED
    BY <1>1, <2>1
<1>17. PlanCtx \in Ctx
  BY DEF Ctx
<1>18. ASSUME NEW b \in BOOLEAN, FailPlan(b), plan_pc \in {"next", "handling"},
              UNCHANGED undoVars, UNCHANGED effVars \/ CancelAwaited
       PROVE  ListsInv'
  <2>1. CASE b
    <3>1. UNCHANGED ctxVars
      BY <1>18, <2>1 DEF FailPlan
    <3>2. QED
      BY <1>5, <1>16, <1>18, <3>1
  <2>2. CASE ~b
    <3>1. BeginDispose(PlanCtx) /\ ~disposed[PlanCtx]
      BY <1>18, <2>2 DEF FailPlan, PlanInv
    <3>2. /\ log' = log /\ armed' = armed /\ ectx' = ectx
          /\ \A e \in Eff : stage[e] = "registered" => stage'[e] = "registered"
      BY <1>18 DEF CancelAwaited, effVars
    <3>3. QED
      BY <1>3, <1>17, <1>18, <3>1, <3>2
  <2>3. QED
    BY <2>1, <2>2
<1>19. CASE Executor
  <2>1. ASSUME NEW o \in Order, CallPlan(o) PROVE ListsInv'
    BY <1>5, <2>1 DEF CallPlan
  <2>2. ASSUME Refuse \/ StartTask \/ HandlerReturns \/ AllExecuted \/ Recovered PROVE ListsInv'
    BY <1>5, <2>2 DEF Refuse, StartTask, HandlerReturns, AllExecuted, Recovered
  <2>3. CASE RunCancelled
    BY <1>16, <2>3 DEF RunCancelled
  <2>4. ASSUME NEW b \in BOOLEAN, Blocked(b) \/ HandlerRaises(b) \/ HandlerTimesOut(b)
        PROVE  ListsInv'
    BY <1>18, <2>4 DEF Blocked, HandlerRaises, HandlerTimesOut
  <2>5. QED
    BY <1>19, <2>1, <2>2, <2>3, <2>4 DEF Executor
<1>20. CASE DisposeByCaller
  BY <1>3, <1>17, <1>20 DEF DisposeByCaller, effVars
<1>21. ASSUME NEW c \in Ctx, DisposeTask(c) PROVE ListsInv'
  BY <1>3, <1>21 DEF DisposeTask, effVars
<1>22. ASSUME NEW e \in Eff, EffectAction(e) \/ Undoing(e) PROVE ListsInv'
  BY <1>6, <1>7, <1>8, <1>9, <1>10, <1>11, <1>12, <1>13, <1>14, <1>22 DEF EffectAction, Undoing
<1>23. QED
  BY <1>4, <1>15, <1>19, <1>20, <1>21, <1>22 DEF CordisNext

LEMMA PlanKept ==
    EffectsInv /\ LogInv /\ ListsInv /\ PlanInv /\ [CordisNext]_cordisVars => PlanInv'
<1> SUFFICES ASSUME EffectsInv, LogInv, ListsInv, PlanInv, [CordisNext]_cordisVars PROVE PlanInv'
  OBVIOUS
<1>1. /\ PlanCtx \in Ctx /\ PlanCtx \notin PlanTasks \cup Sub /\ Order \subseteq Seq(PlanTasks)
      /\ IsFiniteSet(PlanTasks)
  BY CordisAssumption DEF Ctx
\* what the disposals do to the plan's context
<1>2. ASSUME planVars' = planVars, disposed'[PlanCtx] = disposed[PlanCtx],
             pending[PlanCtx] = <<>> => pending'[PlanCtx] = <<>>
      PROVE  PlanInv'
  BY <1>2 DEF PlanInv, planVars
<1>3. CASE UNCHANGED cordisVars
  BY <1>2, <1>3 DEF cordisVars, ctxVars
<1>4. ASSUME UNCHANGED planVars, UNCHANGED <<disposed, pending>> PROVE PlanInv'
  BY <1>2, <1>4
<1>5. ASSUME NEW e \in Eff, EffectAction(e) PROVE PlanInv'
  BY <1>4, <1>5
     DEF EffectAction, Effect, AsyncEffect, EffectStep, EffectTokenCancelled, EffectEnd,
         EffectRaises, EffectCancelled, Dispose1, ctxVars
<1>6. ASSUME NEW e \in Eff, NEW ok \in BOOLEAN, UndoStep(e, ok) PROVE PlanInv'
  BY <1>4, <1>6 DEF UndoStep
<1>7. ASSUME NEW e \in Eff, UndoEnd(e) PROVE PlanInv'
  <2>1. /\ planVars' = planVars /\ disposed' = disposed
        /\ pending' \in {pending, [pending EXCEPT ![undoer[e]] = Tail(@)]}
        /\ undoer[e] \notin Ctx => pending' = pending
    BY <1>7 DEF UndoEnd
  <2>2. undoer[e] = PlanCtx => pending[PlanCtx] # <<>>
    BY <1>1 DEF ListsInv, ListInv
  <2>3. undoer[e] # PlanCtx => pending'[PlanCtx] = pending[PlanCtx]
    BY <1>1, <2>1 DEF ListsInv
  <2>4. QED
    BY <1>2, <2>1, <2>2, <2>3
<1>8. ASSUME NEW c \in Ctx, DisposeNext(c) PROVE PlanInv'
  <2>1. /\ planVars' = planVars /\ disposed' = disposed /\ pending[c] # <<>>
        /\ pending' \in {pending, [pending EXCEPT ![c] = Tail(@)]}
    BY <1>8 DEF DisposeNext
  <2>2. c # PlanCtx => pending'[PlanCtx] = pending[PlanCtx]
    BY <1>1, <2>1 DEF ListsInv
  <2>3. QED
    BY <1>2, <2>1, <2>2
<1>9. ASSUME NEW c \in Ctx, DisposeTask(c) PROVE PlanInv'
  <2>1. /\ planVars' = planVars /\ c \in Reachable /\ BeginDispose(c)
    BY <1>9 DEF DisposeTask
  <2>2. plan_pc = "handling" => Current \in PlanTasks
    <3> SUFFICES ASSUME plan_pc = "handling" PROVE Current \in PlanTasks
      OBVIOUS
    <3>1. /\ order \in Seq(PlanTasks) /\ executed \subseteq PlanTasks
          /\ Cardinality(executed) < Len(order)
      BY DEF PlanInv
    <3>2. Len(order) \in Nat /\ Cardinality(executed) \in Nat
      BY <1>1, <3>1, FS_Subset, FS_CardinalityType, LenProperties
    <3>3. Cardinality(executed) + 1 \in 1..Len(order)
      BY <3>1, <3>2
    <3>4. QED
      BY <3>1, <3>3, ElementOfSeq DEF Current
  <2>3. c # PlanCtx
    <3>1. Begun \subseteq PlanTasks
      BY <2>2 DEF Begun, PlanInv
    <3>2. QED
      BY <1>1, <2>1, <3>1 DEF Reachable
  <2>4. disposed'[PlanCtx] = disposed[PlanCtx] /\ pending'[PlanCtx] = pending[PlanCtx]
    BY <1>1, <2>1, <2>3 DEF BeginDispose, ListsInv
  <2>5. QED
    BY <1>2, <2>1, <2>4
<1>10. CASE DisposeByCaller
  <2>1. /\ plan_pc = "done" /\ ~disposed[PlanCtx] /\ planVars' = planVars
    BY <1>10 DEF DisposeByCaller
  <2>2. QED
    BY <2>1 DEF PlanInv, planVars
<1>11. ASSUME NEW b \in BOOLEAN, FailPlan(b), plan_pc \in {"next", "handling"},
              order' = order, executed' = executed
       PROVE  PlanInv'
  <2>1. CASE b
    <3>1. plan_pc' = "done" /\ plan_result' = "failed"
      BY <1>11, <2>1 DEF FailPlan, Return
    <3>2. QED
      BY <1>11, <3>1 DEF PlanInv
  <2>2. CASE ~b
    <3>1. plan_pc' = "disposing" /\ plan_result' = plan_result /\ BeginDispose(PlanCtx)
      BY <1>11, <2>2 DEF FailPlan
    <3>2. disposed'[PlanCtx] = TRUE
      BY <1>1, <3>1 DEF BeginDispose, ListsInv
    <3>3. QED
      BY <1>11, <3>1, <3>2 DEF PlanInv
  <2>3. QED
    BY <2>1, <2>2
<1>12. ASSUME NEW o \in Order, CallPlan(o) PROVE PlanInv'
  BY <1>1, <1>12 DEF CallPlan, ctxVars, PlanInv
<1>13. ASSUME Refuse \/ AllExecuted \/ RunCancelled PROVE PlanInv'
  BY <1>13 DEF Refuse, AllExecuted, RunCancelled, Return, ctxVars, PlanInv
<1>14. CASE StartTask
  BY <1>14 DEF StartTask, ctxVars, PlanInv
<1>15. CASE Recovered
  BY <1>15 DEF Recovered, Return, ctxVars, PlanInv
<1>16. CASE HandlerReturns
  <2>1. /\ plan_pc = "handling" /\ plan_pc' = "next" /\ executed' = executed \cup {Current}
        /\ UNCHANGED <<order, plan_result, disposed, pending>>
    BY <1>16 DEF HandlerReturns, ctxVars
  <2>2. Current \in PlanTasks
    <3>1. /\ order \in Seq(PlanTasks) /\ executed \subseteq PlanTasks
          /\ Cardinality(executed) < Len(order)
      BY <2>1 DEF PlanInv
    <3>2. Len(order) \in Nat /\ Cardinality(executed) \in Nat
      BY <1>1, <3>1, FS_Subset, FS_CardinalityType, LenProperties
    <3>3. Cardinality(executed) + 1 \in 1..Len(order)
      BY <3>1, <3>2
    <3>4. QED
      BY <3>1, <3>3, ElementOfSeq DEF Current
  <2>3. QED
    BY <2>1, <2>2 DEF PlanInv
<1>17. CASE Executor
  <2>1. ASSUME NEW b \in BOOLEAN, Blocked(b) \/ HandlerRaises(b) \/ HandlerTimesOut(b)
        PROVE  PlanInv'
    BY <1>11, <2>1 DEF Blocked, HandlerRaises, HandlerTimesOut
  <2>2. QED
    BY <1>12, <1>13, <1>14, <1>15, <1>16, <1>17, <2>1 DEF Executor
<1>18. ASSUME NEW e \in Eff, Undoing(e) PROVE PlanInv'
  BY <1>6, <1>7, <1>18 DEF Undoing
<1>19. QED
  BY <1>3, <1>5, <1>8, <1>9, <1>10, <1>17, <1>18 DEF CordisNext

-----------------------------------------------------------------------------
LEMMA CordisHolds == CordisSpec => []CordisInv
<1>1. CordisInit => CordisInv
  <2> SUFFICES ASSUME CordisInit PROVE CordisInv
    OBVIOUS
  <2>1. \A e \in Eff : EffectInv(e)
    <3>1. IsFiniteSet({})
      BY FS_EmptySet
    <3>2. QED
      BY <3>1, CordisAssumption DEF CordisInit, EffectInv, Fresh
  <2>2. EffectsInv
    BY <2>1 DEF CordisInit, EffectsInv
  <2>3. LogInv
    BY DEF CordisInit, LogInv
  <2>4. \A c \in Ctx : ListInv(c)
    BY CordisAssumption DEF CordisInit, ListInv, At
  <2>5. ListsInv
    BY <2>4 DEF CordisInit, ListsInv
  <2>6. PlanInv
    <3>1. PlanCtx \in Ctx
      BY DEF Ctx
    <3>2. QED
      BY <3>1 DEF CordisInit, PlanInv
  <2>7. QED
    BY <2>2, <2>3, <2>5, <2>6 DEF CordisInv
<1>2. CordisInv /\ [CordisNext]_cordisVars => CordisInv'
  BY EffectsKept, LogKept, ListsKept, PlanKept DEF CordisInv
<1>3. QED
  BY <1>1, <1>2, PTL DEF CordisSpec

\* an effect that nobody has still to undo, or is undoing, is out of place
LEMMA Undone ==
    ASSUME CordisInv, NEW e \in Eff, stage[e] = "registered", ~armed[e], undoer[e] = Nobody
    PROVE  ~InPlace(e)
<1>1. EffectInv(e) /\ ~Fresh(e)
  BY DEF CordisInv, EffectsInv, Fresh
<1>2. left[e] = <<>>
  BY <1>1 DEF EffectInv
<1>3. ToSet(left[e]) = {}
  BY <1>2 DEF ToSet
<1>4. applied[e] \cap ToSet(collected[e]) \subseteq failed[e] \cup ToSet(left[e])
  BY <1>1 DEF EffectInv
<1>5. QED
  BY <1>3, <1>4 DEF InPlace

\* Whoever races to undo an effect -- its own dispose function, the disposal of
\* its context, that of the parent, the rollback of a raising iteration -- each
\* inverse runs once, the last collected first (followup_hardening.py:258).
THEOREM InversesRunOnce == CordisSpec => []UndoneOnceInReverse
<1>1. CordisInv => UndoneOnceInReverse
  <2> SUFFICES ASSUME CordisInv, NEW e \in Eff
               PROVE  /\ IsPrefix(tried[e], Reverse(collected[e]))
                      /\ stage[e] = "registered" /\ ~armed[e] =>
                            tried[e] \o left[e] = Reverse(collected[e])
    BY DEF UndoneOnceInReverse
  <2>1. EffectInv(e)
    BY DEF CordisInv, EffectsInv
  <2>2. stage[e] = "registered" /\ ~armed[e] => ~Fresh(e)
    BY DEF Fresh
  <2>3. IsPrefix(tried[e], Reverse(collected[e]))
    <3>1. /\ tried[e] \in Seq(Nat) /\ left[e] \in Seq(Nat) /\ collected[e] \in Seq(Nat)
      BY <2>1 DEF EffectInv
    <3>2. /\ Reverse(collected[e]) \in Seq(Nat) /\ Len(Reverse(collected[e])) \in Nat
      BY <3>1, Reversed, LenProperties
    <3>3. CASE Fresh(e)
      <4>1. tried[e] = <<>>
        BY <2>1, <3>3 DEF EffectInv
      <4>2. Len(tried[e]) = 0
        BY <4>1
      <4>3. /\ SubSeq(tried[e], 1, 0) = <<>>
            /\ SubSeq(Reverse(collected[e]), 1, 0) = <<>>
        BY SubSeqEmpty
      <4>4. QED
        BY <3>2, <4>2, <4>3 DEF IsPrefix
    <3>4. CASE ~Fresh(e)
      <4>1. tried[e] \o left[e] = Reverse(collected[e])
        BY <2>1, <3>4 DEF EffectInv
      <4>2. /\ Len(tried[e]) \in Nat /\ Len(left[e]) \in Nat
            /\ Len(tried[e] \o left[e]) = Len(tried[e]) + Len(left[e])
        BY <3>1, ConcatProperties, LenProperties
      <4>3. SubSeq(tried[e] \o left[e], 1, Len(tried[e])) = SubSeq(tried[e], 1, Len(tried[e]))
        <5>1. CASE Len(tried[e]) = 0
          <6>1. /\ SubSeq(tried[e], 1, 0) = <<>>
                /\ SubSeq(tried[e] \o left[e], 1, 0) = <<>>
            BY SubSeqEmpty
          <6>2. QED
            BY <5>1, <6>1
        <5>2. CASE Len(tried[e]) # 0
          <6>1. 1 \in 1..Len(tried[e]) /\ Len(tried[e]) \in 1..Len(tried[e])
            BY <4>2, <5>2
          <6>2. QED
            BY <3>1, <6>1, SubSeqOfConcat1
        <5>3. QED
          BY <5>1, <5>2
      <4>4. Len(tried[e]) <= Len(Reverse(collected[e]))
        <5>1. Len(Reverse(collected[e])) = Len(tried[e]) + Len(left[e])
          BY <4>1, <4>2, Zenon
        <5>2. \A x, y \in Nat : x <= x + y
          OBVIOUS
        <5>3. Len(tried[e]) <= Len(tried[e]) + Len(left[e])
          BY <4>2, <5>2, Zenon
        <5>4. QED
          BY <5>1, <5>3, Zenon
      <4>5. SubSeq(Reverse(collected[e]), 1, Len(tried[e])) = SubSeq(tried[e], 1, Len(tried[e]))
        BY <4>1, <4>3, Zenon
      <4>6. QED
        BY <4>4, <4>5 DEF IsPrefix
    <3>5. QED
      BY <3>3, <3>4
  <2>4. QED
    BY <2>1, <2>2, <2>3 DEF EffectInv
<1>2. QED
  BY <1>1, CordisHolds, PTL

\* A disposal undoes backwards, the effects of the contexts below it included
\* (followup_hardening.py:292).
THEOREM DisposalGoesBackwards == CordisSpec => []LaterUndoneFirst
<1>1. CordisInv => LaterUndoneFirst
  <2> SUFFICES ASSUME CordisInv, NEW c \in Ctx, NEW i \in 1..cut[c], NEW j \in 1..cut[c],
                      i < j, undoer[log[i]] = c, Under(log[j], c), undoer[log[j]] = Nobody
               PROVE  ~InPlace(log[j])
    BY DEF LaterUndoneFirst
  <2>1. ListInv(c) /\ LogInv
    BY DEF CordisInv, ListsInv
  <2>2. i \in DOMAIN log /\ j \in DOMAIN log /\ i \in Nat /\ j \in Nat
    <3>1. log \in Seq(Eff) /\ cut[c] \in Nat /\ cut[c] <= Len(log)
      BY <2>1 DEF ListInv, LogInv
    <3>2. Len(log) \in Nat /\ DOMAIN log = 1..Len(log)
      BY <3>1, LenProperties
    <3>3. QED
      BY <3>1, <3>2
  <2>3. log[i] \in Eff /\ log[j] \in Eff /\ stage[log[j]] = "registered"
    <3>1. log[i] \in Eff /\ log[j] \in Eff
      BY <2>1, <2>2, ElementOfSeq, LenProperties DEF LogInv
    <3>2. QED
      BY <2>1, <2>2, <3>1 DEF LogInv
  <2>4. CASE armed[log[j]]
    <3>1. PICK m \in DOMAIN pending[c] : pending[c][m] = log[j]
      BY <2>1, <2>4 DEF ListInv, Holds, Under, Below
    <3>2. /\ Head(pending[c]) = log[i] /\ pending[c] # <<>> /\ pending[c] \in Seq(Eff)
      BY <2>1, <2>3 DEF ListInv
    <3>3. /\ DOMAIN pending[c] = 1..Len(pending[c]) /\ Len(pending[c]) \in Nat
          /\ Len(pending[c]) # 0 /\ Head(pending[c]) = pending[c][1]
      BY <3>2, LenProperties, EmptySeq
    <3>4. At(pending[c], 1, i) /\ At(pending[c], m, j)
      BY <2>2, <3>1, <3>2, <3>3 DEF At
    <3>5. m # 1
      BY <2>1, <2>2, <3>1, <3>2, <3>3 DEF LogInv
    <3>6. 1 < m
      BY <3>1, <3>3, <3>5
    <3>7. j < i
      BY <2>1, <3>4, <3>6 DEF ListInv
    <3>8. QED
      BY <2>2, <3>7
  <2>5. CASE ~armed[log[j]]
    BY <2>3, <2>5, Undone
  <2>6. QED
    BY <2>4, <2>5
<1>2. QED
  BY <1>1, CordisHolds, PTL

\* recovered=True leaves no effect of a task in place that was registered before
\* the disposal began, but for the inverses that raised (followup_hardening.py:382).
THEOREM RecoveredIsUndone == CordisSpec => []RecoveredUndone
<1>1. CordisInv => RecoveredUndone
  <2> SUFFICES ASSUME CordisInv, plan_result = "recovered", NEW i \in 1..cut[PlanCtx],
                      ectx[log[i]] \in PlanTasks, undoer[log[i]] = Nobody
               PROVE  ~InPlace(log[i])
    BY DEF RecoveredUndone
  <2>1. PlanCtx \in Ctx /\ PlanTasks \cap Sub = {} /\ Nobody \notin Ctx
    BY CordisAssumption DEF Ctx
  <2>2. ListInv(PlanCtx) /\ LogInv /\ pending[PlanCtx] = <<>>
    BY <2>1 DEF CordisInv, ListsInv, PlanInv
  <2>3. i \in DOMAIN log
    <3>1. log \in Seq(Eff) /\ cut[PlanCtx] \in Nat /\ cut[PlanCtx] <= Len(log)
      BY <2>2 DEF ListInv, LogInv
    <3>2. Len(log) \in Nat /\ DOMAIN log = 1..Len(log)
      BY <3>1, LenProperties
    <3>3. QED
      BY <3>1, <3>2
  <2>4. log[i] \in Eff /\ stage[log[i]] = "registered"
    <3>1. log[i] \in Eff
      BY <2>2, <2>3, ElementOfSeq, LenProperties DEF LogInv
    <3>2. QED
      BY <2>2, <2>3, <3>1 DEF LogInv
  <2>5. ~armed[log[i]]
    <3>1. ectx[log[i]] # Nobody
      BY <2>1 DEF Ctx
    <3>2. Below(ectx[log[i]], PlanCtx)
      BY <2>1, <3>1 DEF Below, Parent
    <3>3. QED
      BY <2>2, <3>2 DEF ListInv, Holds
  <2>6. QED
    BY <2>4, <2>5, Undone
<1>2. QED
  BY <1>1, CordisHolds, PTL

-----------------------------------------------------------------------------
(***************************************************************************)
(* Services and fibers.                                                    *)
(***************************************************************************)

\* c runs or disposes of f's active context
Handles(c, f) == c.op \in {"apply", "dispose"} /\ c.fiber = f
Busy(cs, f) == \E c \in ToSet(cs) : Handles(c, f)

\* A call agrees with the states of the fibers.  A withdrawal has in its order
\* who was active when it began and still is, until that one's turn comes.
FrameOK(c, st, rev) ==
    /\ c.op = "apply" => st[c.fiber] = "RELOADING"
    /\ c.op = "dispose" => st[c.fiber] \in {"UNLOADING", "FAILED"}
    /\ c.op = "order" =>
          /\ ToSet(c.path) \cup ToSet(c.order) \subseteq c.act
          /\ \A i \in Slots : st[Fibers[i]] = "ACTIVE" /\ Fibers[i] \notin rev =>
                i \in c.act /\ (i \in c.visited => i \in ToSet(c.path) \cup ToSet(c.order))

\* No fiber is in two frames, and no withdrawal waits to stop one that is in a
\* call below.
Apart(b, c) ==
    \A f \in Fiber : Handles(b, f) =>
        ~Handles(c, f) /\ (c.op = "order" => \A i \in c.act : Fibers[i] # f)

FramesInv(cs, st, rev) ==
    /\ cs \in Seq(Frame)
    /\ \A c \in ToSet(cs) : FrameOK(c, st, rev)
    /\ \A i, j \in DOMAIN cs : i < j => Apart(cs[i], cs[j])

\* A fiber is between two states only inside a call, and what it provides is a
\* beginning of what it gives, all of it while it is active.
FiberInv(f, st, ow, cs, ret) ==
    /\ st \in {"RELOADING", "UNLOADING"} => Busy(cs, f)
    /\ ow # <<>> /\ st # "ACTIVE" => Busy(cs, f)
    /\ Len(ow) <= Len(Gives[f]) /\ \A i \in 1 .. Len(ow) : ow[i] = Gives[f][i]
    /\ st = "ACTIVE" => Len(ow) = Len(Gives[f])
    /\ st \in {"ACTIVE", "RELOADING"} => f \notin ret

FibersInv(st, ow, cs, ret) == \A f \in Fiber : FiberInv(f, st[f], ow[f], cs, ret)

\* On a stack is what its fiber provides there, and what a fiber provides is on
\* its stack unless it was discarded.
StacksInv(ps, ow, dr) ==
    \A f \in Fiber, k \in Keys :
        /\ \A r \in Realms : <<f, k>> \in ToSet(ps[r]) => Resolve[f][k] = r /\ k \in ToSet(ow[f])
        /\ k \in ToSet(ow[f]) => <<f, k>> \in ToSet(ps[Resolve[f][k]]) \cup dr

\* The store shows the top of the stack, unless a withdrawal is in the way.
Shown(s) == IF s = <<>> THEN NoValue ELSE Last(s)
StoreInv(ps, sto, cs) ==
    \A r \in Realms : \/ sto[r] = Shown(ps[r])
                      \/ \E c \in ToSet(cs) : c.op = "order" /\ Resolve[c.by][c.key] = r

ServicesInv ==
    /\ ServicesTypeOK
    /\ FramesInv(frames, fiber_state, revived)
    /\ FibersInv(fiber_state, own, frames, retired)
    /\ StacksInv(providers, own, dropped)
    /\ StoreInv(providers, store, frames)

\* An active fiber whose dependency went is on the list of a notification.
Chased(f, cs) == \E c \in ToSet(cs) : c.op = "notify" /\ c.withdrawn /\ \E i \in c.due : Fibers[i] = f
ChaseInv ==
    \A f \in Fiber : fiber_state[f] = "ACTIVE" /\ f \notin stale =>
        Satisfied(f) \/ (f \in revived /\ Chased(f, frames))

-----------------------------------------------------------------------------
(* Sequences *)

LEMMA SetOfSeq ==
    ASSUME NEW S, NEW s \in Seq(S)
    PROVE  /\ ToSet(s) \subseteq S
           /\ \A i \in 1 .. Len(s) : s[i] \in ToSet(s)
           /\ s = <<>> <=> ToSet(s) = {}
<1>1. Len(s) \in Nat /\ DOMAIN s = 1 .. Len(s)
  BY LenProperties
<1>2. \A i \in 1 .. Len(s) : s[i] \in S
  BY ElementOfSeq
<1>3. s = <<>> => ToSet(s) = {}
  BY DEF ToSet
<1>4. s # <<>> => 1 \in 1 .. Len(s)
  BY <1>1, EmptySeq
<1>5. QED
  BY <1>1, <1>2, <1>3, <1>4 DEF ToSet

LEMMA Appended ==
    ASSUME NEW S, NEW s \in Seq(S), NEW x \in S
    PROVE  /\ Append(s, x) \in Seq(S) /\ Append(s, x) # <<>>
           /\ Last(Append(s, x)) = x /\ Front(Append(s, x)) = s
           /\ ToSet(Append(s, x)) = ToSet(s) \cup {x}
           /\ DOMAIN Append(s, x) = 1 .. (Len(s) + 1) /\ Len(s) \in Nat
           /\ \A i \in 1 .. Len(s) : Append(s, x)[i] = s[i]
           /\ Append(s, x)[Len(s) + 1] = x
<1> DEFINE t == Append(s, x)
<1>1. /\ t \in Seq(S) /\ t # <<>> /\ Len(t) = Len(s) + 1 /\ t[Len(s) + 1] = x
      /\ \A i \in 1 .. Len(s) : t[i] = s[i]
  BY AppendProperties
<1>2. Len(s) \in Nat /\ DOMAIN s = 1 .. Len(s)
  BY LenProperties
<1>3. DOMAIN t = 1 .. (Len(s) + 1)
  BY <1>1, LenProperties
<1> HIDE DEF t
<1>4. Last(t) = x
  BY <1>1 DEF Last
<1>5. Front(t) = s
  <2>1. Front(t) = SubSeq(t, 1, Len(s))
    BY <1>1, <1>2 DEF Front
  <2>2. \A i \in 1 .. Len(s) : t[i] \in S
    BY <1>1, <1>2, ElementOfSeq
  <2>3. /\ SubSeq(t, 1, Len(s)) \in Seq(S)
        /\ Len(SubSeq(t, 1, Len(s))) = IF 1 <= Len(s) THEN (Len(s) - 1) + 1 ELSE 0
        /\ \A i \in 1 .. ((Len(s) - 1) + 1) : SubSeq(t, 1, Len(s))[i] = t[(1 + i) - 1]
    BY <1>2, <2>2, SubSeqProperties
  <2>4. Len(SubSeq(t, 1, Len(s))) = Len(s) /\ \A i \in 1 .. Len(s) : SubSeq(t, 1, Len(s))[i] = s[i]
    BY <1>1, <1>2, <2>3
  <2>5. QED
    BY <2>1, <2>3, <2>4, SeqEqual
<1>6. ToSet(t) = ToSet(s) \cup {x}
  BY <1>1, <1>2, <1>3 DEF ToSet
<1>7. QED
  BY <1>1, <1>2, <1>3, <1>4, <1>5, <1>6 DEF t

LEMMA Split ==
    ASSUME NEW S, NEW s \in Seq(S), s # <<>>
    PROVE  /\ Front(s) \in Seq(S) /\ Last(s) \in S
           /\ s = Append(Front(s), Last(s))
<1>1. PICK t \in Seq(S), x \in S : s = Append(t, x)
  BY SequenceEmptyOrAppend
<1>2. QED
  BY <1>1, Appended

LEMMA TailSet ==
    ASSUME NEW S, NEW s \in Seq(S), s # <<>>
    PROVE  /\ Head(s) \in S /\ Head(s) \in ToSet(s) /\ Tail(s) \in Seq(S)
           /\ ToSet(s) = {Head(s)} \cup ToSet(Tail(s))
<1>1. /\ Head(s) \in S /\ Tail(s) \in Seq(S) /\ Len(Tail(s)) = Len(s) - 1
      /\ \A i \in 1 .. Len(Tail(s)) : Tail(s)[i] = s[i + 1]
  BY HeadTailProperties
<1>2. Len(s) \in Nat /\ Len(s) # 0 /\ DOMAIN s = 1 .. Len(s) /\ Head(s) = s[1]
  BY LenProperties, EmptySeq
<1>3. DOMAIN Tail(s) = 1 .. (Len(s) - 1)
  BY <1>1, LenProperties
<1>4. ASSUME NEW j \in DOMAIN s PROVE s[j] \in {Head(s)} \cup ToSet(Tail(s))
  <2>1. CASE j = 1
    BY <1>2, <2>1
  <2>2. CASE j # 1
    <3>1. j - 1 \in DOMAIN Tail(s) /\ (j - 1) + 1 = j
      BY <1>2, <1>3, <2>2
    <3>2. Tail(s)[j - 1] = s[j]
      BY <1>1, <1>2, <1>3, <3>1
    <3>3. QED
      BY <3>1, <3>2 DEF ToSet
  <2>3. QED
    BY <2>1, <2>2
<1>5. ASSUME NEW j \in DOMAIN Tail(s) PROVE Tail(s)[j] \in ToSet(s)
  <2>1. j + 1 \in DOMAIN s /\ Tail(s)[j] = s[j + 1]
    BY <1>1, <1>2, <1>3
  <2>2. QED
    BY <2>1 DEF ToSet
<1>6. 1 \in DOMAIN s
  BY <1>2
<1>7. QED
  BY <1>1, <1>2, <1>4, <1>5, <1>6 DEF ToSet

\* But(s, x) is s without the occurrences of x.
LEMMA ButProperties ==
    ASSUME NEW S, NEW s \in Seq(S), NEW x
    PROVE  But(s, x) \in Seq(S) /\ ToSet(But(s, x)) = ToSet(s) \ {x}
<1> DEFINE P == {i \in DOMAIN s : s[i] # x}
           k == InOrder(P)
           b == [i \in DOMAIN k |-> s[k[i]]]
<1>1. Len(s) \in Nat /\ DOMAIN s = 1 .. Len(s) /\ \A i \in 1 .. Len(s) : s[i] \in S
  BY LenProperties, ElementOfSeq
<1>2. P \in SUBSET (1 .. Len(s))
  BY <1>1
<1> HIDE DEF P
<1>3. /\ k \in Seq(P) /\ Len(k) = Cardinality(P) /\ Cardinality(P) \in Nat
      /\ \A i \in P : Rank(P, i) \in 1 .. Cardinality(P) /\ k[Rank(P, i)] = i
  BY <1>1, <1>2, InOrderProperties
<1> HIDE DEF k
<1>4. DOMAIN k = 1 .. Cardinality(P) /\ \A i \in DOMAIN k : k[i] \in P
  BY <1>3, LenProperties, ElementOfSeq
<1>5. b \in [1 .. Cardinality(P) -> S]
  BY <1>1, <1>2, <1>4
<1>6. b \in Seq(S)
  BY <1>3, <1>5, SeqDef, SMTT(30)
<1>7. DOMAIN b = DOMAIN k /\ \A i \in DOMAIN b : b[i] = s[k[i]]
  OBVIOUS
<1> HIDE DEF b
<1>8. ASSUME NEW y \in ToSet(b) PROVE y \in ToSet(s) \ {x}
  <2>1. PICK i \in DOMAIN k : y = s[k[i]]
    BY <1>7 DEF ToSet
  <2>2. k[i] \in P
    BY <1>4
  <2>3. QED
    BY <2>1, <2>2 DEF P, ToSet
<1>9. ASSUME NEW y \in ToSet(s) \ {x} PROVE y \in ToSet(b)
  <2>1. PICK i \in DOMAIN s : y = s[i]
    BY DEF ToSet
  <2>2. i \in P
    BY <2>1, <1>9 DEF P
  <2>3. Rank(P, i) \in DOMAIN b /\ b[Rank(P, i)] = y
    BY <1>3, <1>4, <1>7, <2>1, <2>2
  <2>4. QED
    BY <2>3 DEF ToSet
<1>10. But(s, x) = b
  BY DEF But, P, k, b
<1>11. QED
  BY <1>6, <1>8, <1>9, <1>10

LEMMA EarliestIn ==
    ASSUME NEW T \in SUBSET Nat, T # {}
    PROVE  Earliest(T) \in T
BY LeastNat DEF Earliest

-----------------------------------------------------------------------------
(* Frames *)

NotifyFrame == [op : {"notify"}, key : Keys, withdrawn : BOOLEAN, due : SUBSET Slots]
FiberFrame == [op : {"apply", "dispose"}, fiber : Fiber]
OrderFrame == [op : {"order"}, key : Keys, by : DOMAIN Resolve, act : SUBSET Slots,
               visited : SUBSET Slots, path : Seq(Slots), order : Seq(Slots)]

LEMMA FrameKinds ==
    /\ NotifyFrame \subseteq Frame /\ FiberFrame \subseteq Frame /\ OrderFrame \subseteq Frame
    /\ \A c \in Frame : /\ c.op = "notify" <=> c \in NotifyFrame
                        /\ c.op \in {"apply", "dispose"} <=> c \in FiberFrame
                        /\ c.op = "order" <=> c \in OrderFrame
<1>1. Frame = NotifyFrame \cup FiberFrame \cup OrderFrame
  BY DEF Frame, NotifyFrame, FiberFrame, OrderFrame
<1>2. /\ \A c \in NotifyFrame : c.op = "notify"
      /\ \A c \in FiberFrame : c.op \in {"apply", "dispose"}
      /\ \A c \in OrderFrame : c.op = "order"
  BY DEF NotifyFrame, FiberFrame, OrderFrame
<1>3. QED
  BY <1>1, <1>2

LEMMA SlotFiber == \A i \in Slots : Fibers[i] \in Fiber
BY DEF Slots, Fiber, ToSet

LEMMA FiberSlot == \A f \in Fiber : \E i \in Slots : Fibers[i] = f
BY DEF Slots, Fiber, ToSet

LEMMA SlotsAreNumbers == Slots \subseteq Nat
<1>1. Fibers \in Seq(Fiber)
  BY ServicesAssumption
<1>2. QED
  BY <1>1, LenProperties DEF Slots

LEMMA Notifies ==
    ASSUME NEW k \in Keys, NEW w \in BOOLEAN
    PROVE  /\ Notify(k, w) \in NotifyFrame /\ Notify(k, w).op = "notify"
           /\ Notify(k, w).withdrawn = w /\ Notify(k, w).due = Dependents({k})
BY DEF Notify, NotifyFrame, Dependents

LEMMA Withdraws ==
    ASSUME NEW k \in Keys, NEW b \in DOMAIN Resolve
    PROVE  LET w == Withdrawal(k, b)
           IN /\ w \in OrderFrame /\ w.op = "order" /\ w.key = k /\ w.by = b
              /\ w.act = ActiveSlots /\ w.visited = {} /\ w.path = <<>> /\ w.order = <<>>
<1>1. ActiveSlots \in SUBSET Slots /\ <<>> \in Seq(Slots)
  BY EmptySeq DEF ActiveSlots
<1>2. QED
  BY <1>1 DEF Withdrawal, OrderFrame

LEMMA Lessened ==
    ASSUME NEW t \in NotifyFrame, NEW d \in SUBSET Slots
    PROVE  LET u == [t EXCEPT !.due = d]
           IN /\ u \in NotifyFrame /\ u.op = "notify" /\ u.withdrawn = t.withdrawn /\ u.due = d
BY DEF NotifyFrame

LEMMA Reordered ==
    ASSUME NEW t \in OrderFrame, NEW o \in Seq(Slots)
    PROVE  LET u == [t EXCEPT !.order = o]
           IN /\ u \in OrderFrame /\ u.op = "order" /\ u.key = t.key /\ u.by = t.by
              /\ u.act = t.act /\ u.visited = t.visited /\ u.path = t.path /\ u.order = o
BY DEF OrderFrame

LEMMA BusyAppended ==
    ASSUME NEW S, NEW cs \in Seq(S), NEW c \in S, NEW f
    PROVE  Busy(Append(cs, c), f) <=> Busy(cs, f) \/ Handles(c, f)
BY Appended DEF Busy

LEMMA NobodyBusy ==
    ASSUME NEW f
    PROVE  ~ Busy(<<>>, f)
BY DEF Busy, ToSet

LEMMA NoFrames ==
    ASSUME NEW st, NEW rev
    PROVE  FramesInv(<<>>, st, rev)
BY EmptySeq DEF FramesInv, ToSet

LEMMA FramesPushed ==
    ASSUME NEW cs, NEW st, NEW rev, FramesInv(cs, st, rev),
           NEW c \in Frame, FrameOK(c, st, rev), \A b \in ToSet(cs) : Apart(b, c)
    PROVE  FramesInv(Append(cs, c), st, rev)
<1>1. cs \in Seq(Frame) /\ DOMAIN cs = 1 .. Len(cs)
  BY LenProperties DEF FramesInv
<1>2. /\ Append(cs, c) \in Seq(Frame) /\ ToSet(Append(cs, c)) = ToSet(cs) \cup {c}
      /\ DOMAIN Append(cs, c) = 1 .. (Len(cs) + 1) /\ Len(cs) \in Nat
      /\ \A i \in 1 .. Len(cs) : Append(cs, c)[i] = cs[i]
      /\ Append(cs, c)[Len(cs) + 1] = c
  BY <1>1, Appended
<1> DEFINE a == Append(cs, c)
<1> HIDE DEF a
<1>3. \A b \in ToSet(a) : FrameOK(b, st, rev)
  BY <1>2 DEF FramesInv, a
<1>4. ASSUME NEW i \in DOMAIN a, NEW j \in DOMAIN a, i < j PROVE Apart(a[i], a[j])
  <2>1. i \in 1 .. Len(cs) /\ a[i] = cs[i] /\ cs[i] \in ToSet(cs)
    BY <1>1, <1>2, <1>4 DEF a, ToSet
  <2>2. CASE j = Len(cs) + 1
    BY <1>2, <2>1, <2>2 DEF a
  <2>3. CASE j \in 1 .. Len(cs)
    <3>1. a[j] = cs[j] /\ j \in DOMAIN cs /\ i \in DOMAIN cs
      BY <1>1, <1>2, <2>1, <2>3 DEF a
    <3>2. QED
      BY <1>4, <2>1, <3>1 DEF FramesInv
  <2>4. QED
    BY <1>2, <2>2, <2>3 DEF a
<1>5. QED
  BY <1>2, <1>3, <1>4 DEF FramesInv, a

LEMMA FramesPopped ==
    ASSUME NEW cs, NEW st, NEW rev, FramesInv(cs, st, rev), cs # <<>>
    PROVE  /\ FramesInv(Front(cs), st, rev) /\ Front(cs) \in Seq(Frame)
           /\ Last(cs) \in Frame /\ FrameOK(Last(cs), st, rev)
           /\ \A b \in ToSet(Front(cs)) : Apart(b, Last(cs))
           /\ cs = Append(Front(cs), Last(cs)) /\ ToSet(cs) = ToSet(Front(cs)) \cup {Last(cs)}
<1> DEFINE o == Front(cs)
           t == Last(cs)
<1>1. cs \in Seq(Frame) /\ o \in Seq(Frame) /\ t \in Frame /\ cs = Append(o, t)
  BY Split DEF FramesInv
<1> HIDE DEF o, t
<1>2. /\ ToSet(cs) = ToSet(o) \cup {t}
      /\ DOMAIN cs = 1 .. (Len(o) + 1) /\ Len(o) \in Nat
      /\ \A i \in 1 .. Len(o) : cs[i] = o[i]
      /\ cs[Len(o) + 1] = t
  BY <1>1, Appended
<1>3. DOMAIN o = 1 .. Len(o)
  BY <1>1, LenProperties
<1>4. FrameOK(t, st, rev) /\ \A b \in ToSet(o) : FrameOK(b, st, rev)
  BY <1>2 DEF FramesInv
<1>5. \A i, j \in DOMAIN o : i < j => Apart(o[i], o[j])
  BY <1>2, <1>3 DEF FramesInv
<1>6. ASSUME NEW b \in ToSet(o) PROVE Apart(b, t)
  <2>1. PICK i \in DOMAIN o : b = o[i]
    BY DEF ToSet
  <2>2. i \in DOMAIN cs /\ Len(o) + 1 \in DOMAIN cs /\ i < Len(o) + 1 /\ cs[i] = b
    BY <1>2, <1>3, <2>1
  <2>3. QED
    BY <1>2, <2>2 DEF FramesInv
<1>7. QED
  BY <1>1, <1>2, <1>4, <1>5, <1>6 DEF FramesInv, o, t

\* A fiber nobody handles may move to another state.
LEMMA FramesMoved ==
    ASSUME NEW cs, NEW st, NEW rev, FramesInv(cs, st, rev), NEW f \in Fiber, NEW x, NEW rev2,
           DOMAIN st = Fiber, ~ Busy(cs, f), rev \subseteq rev2, x = "ACTIVE" => f \in rev2
    PROVE  FramesInv(cs, [st EXCEPT ![f] = x], rev2)
<1> DEFINE s2 == [st EXCEPT ![f] = x]
<1>1. s2[f] = x /\ \A g \in Fiber : g # f => s2[g] = st[g]
  OBVIOUS
<1> HIDE DEF s2
<1>2. ASSUME NEW c \in ToSet(cs) PROVE FrameOK(c, s2, rev2)
  <2>1. FrameOK(c, st, rev) /\ c \in Frame /\ ~ Handles(c, f)
    <3>1. c \in Frame
      BY SetOfSeq DEF FramesInv
    <3>2. QED
      BY <3>1 DEF FramesInv, Busy
  <2>2. c.op \in {"apply", "dispose"} => c.fiber \in Fiber /\ c.fiber # f
    BY <2>1, FrameKinds DEF Handles, FiberFrame
  <2>3. \A i \in Slots : s2[Fibers[i]] = "ACTIVE" /\ Fibers[i] \notin rev2
                           => st[Fibers[i]] = "ACTIVE" /\ Fibers[i] \notin rev
    BY <1>1, SlotFiber
  <2>4. /\ c.op = "apply" => s2[c.fiber] = "RELOADING"
        /\ c.op = "dispose" => s2[c.fiber] \in {"UNLOADING", "FAILED"}
    BY <1>1, <2>1, <2>2 DEF FrameOK
  <2>5. QED
    BY <2>1, <2>3, <2>4 DEF FrameOK
<1>3. QED
  BY <1>2 DEF FramesInv, s2

-----------------------------------------------------------------------------
(* What the operators that begin a call preserve *)

States == {"INACTIVE", "RELOADING", "ACTIVE", "UNLOADING", "FAILED"}
OrdersKept(cs, ds) ==
    \A c \in ToSet(cs) : c.op = "order" =>
        \E d \in ToSet(ds) : d.op = "order" /\ d.by = c.by /\ d.key = c.key

LEMMA StoreKept ==
    ASSUME NEW ps, NEW sto, NEW cs, NEW ds, StoreInv(ps, sto, cs), OrdersKept(cs, ds)
    PROVE  StoreInv(ps, sto, ds)
BY DEF StoreInv, OrdersKept

LEMMA BusyState ==
    ASSUME NEW cs, NEW st, NEW rev, FramesInv(cs, st, rev), NEW f, Busy(cs, f)
    PROVE  st[f] \in {"RELOADING", "UNLOADING", "FAILED"}
BY DEF FramesInv, FrameOK, Busy, Handles

\* The innermost frame, of a notification or a withdrawal, goes on.
LEMMA FramesReplaced ==
    ASSUME NEW cs, NEW st, NEW rev, FramesInv(cs, st, rev), cs # <<>>,
           NEW u \in Frame, u.op = Last(cs).op, u.op \in {"notify", "order"}, FrameOK(u, st, rev),
           u.op = "order" => u.act = Last(cs).act /\ u.by = Last(cs).by /\ u.key = Last(cs).key
    PROVE  LET o == Append(Front(cs), u)
           IN FramesInv(o, st, rev) /\ OrdersKept(cs, o) /\ \A g : Busy(o, g) <=> Busy(cs, g)
<1>1. /\ FramesInv(Front(cs), st, rev) /\ Front(cs) \in Seq(Frame)
      /\ Last(cs) \in Frame /\ \A b \in ToSet(Front(cs)) : Apart(b, Last(cs))
      /\ cs = Append(Front(cs), Last(cs)) /\ ToSet(cs) = ToSet(Front(cs)) \cup {Last(cs)}
  BY FramesPopped
<1>2. \A g : ~ Handles(u, g) /\ ~ Handles(Last(cs), g)
  BY DEF Handles
<1>3. \A b \in ToSet(Front(cs)) : Apart(b, u)
  BY <1>1, <1>2 DEF Apart
<1>4. FramesInv(Append(Front(cs), u), st, rev)
  BY <1>1, <1>3, FramesPushed
<1>5. ASSUME NEW g PROVE Busy(Append(Front(cs), u), g) <=> Busy(cs, g)
  <2>1. Busy(Append(Front(cs), u), g) <=> Busy(Front(cs), g) \/ Handles(u, g)
    BY <1>1, BusyAppended
  <2>2. Busy(cs, g) <=> Busy(Front(cs), g) \/ Handles(Last(cs), g)
    BY <1>1, BusyAppended
  <2>3. QED
    BY <1>2, <2>1, <2>2
<1>6. ToSet(Append(Front(cs), u)) = ToSet(Front(cs)) \cup {u}
  BY <1>1, Appended
<1>7. OrdersKept(cs, Append(Front(cs), u))
  BY <1>1, <1>6 DEF OrdersKept
<1>8. QED
  BY <1>4, <1>5, <1>7

\* It returns.
LEMMA FramesLeft ==
    ASSUME NEW cs, NEW st, NEW rev, FramesInv(cs, st, rev), cs # <<>>
    PROVE  /\ \A g : Busy(cs, g) <=> Busy(Front(cs), g) \/ Handles(Last(cs), g)
           /\ Last(cs).op # "order" => OrdersKept(cs, Front(cs))
           /\ \A g \in Fiber : Handles(Last(cs), g) => ~ Busy(Front(cs), g)
<1>1. /\ Front(cs) \in Seq(Frame) /\ Last(cs) \in Frame
      /\ \A b \in ToSet(Front(cs)) : Apart(b, Last(cs))
      /\ cs = Append(Front(cs), Last(cs)) /\ ToSet(cs) = ToSet(Front(cs)) \cup {Last(cs)}
  BY FramesPopped
<1>2. \A g : Busy(cs, g) <=> Busy(Front(cs), g) \/ Handles(Last(cs), g)
  BY <1>1, BusyAppended
<1>3. Last(cs).op # "order" => OrdersKept(cs, Front(cs))
  BY <1>1 DEF OrdersKept
<1>4. \A g \in Fiber : Handles(Last(cs), g) => ~ Busy(Front(cs), g)
  BY <1>1 DEF Apart, Busy
<1>5. QED
  BY <1>2, <1>3, <1>4

LEMMA OrdersAppended ==
    ASSUME NEW cs \in Seq(Frame), NEW c \in Frame
    PROVE  OrdersKept(cs, Append(cs, c))
<1>1. ToSet(Append(cs, c)) = ToSet(cs) \cup {c}
  BY Appended
<1>2. QED
  BY <1>1 DEF OrdersKept

LEMMA FiberKept ==
    ASSUME NEW f, NEW st, NEW ow, NEW cs, NEW ds, NEW ret,
           FiberInv(f, st, ow, cs, ret), Busy(cs, f) => Busy(ds, f)
    PROVE  FiberInv(f, st, ow, ds, ret)
BY DEF FiberInv

\* Starting or stopping a fiber nobody handles: what the callers need of it.
Entered(f, o, rev, to) ==
    /\ fiber_state' \in [Fiber -> States]
    /\ FramesInv(frames', fiber_state', rev) /\ OrdersKept(o, frames')
    /\ \A g \in Fiber : Busy(o, g) => Busy(frames', g)
    /\ \A g \in Fiber : \/ fiber_state'[g] = fiber_state[g]
                        \/ g = f /\ fiber_state'[g] = to /\ Busy(frames', g)

LEMMA EnterInv ==
    ASSUME NEW f \in Fiber, NEW o, NEW rev, FramesInv(o, fiber_state, rev), ~ Busy(o, f),
           fiber_state \in [Fiber -> States],
           NEW op \in {"apply", "dispose"}, NEW to,
           to \in IF op = "apply" THEN {"RELOADING"} ELSE {"UNLOADING", "FAILED"},
           fiber_state' = [fiber_state EXCEPT ![f] = to],
           frames' = Append(o, [op |-> op, fiber |-> f])
    PROVE  Entered(f, o, rev, to)
<1> DEFINE c == [op |-> op, fiber |-> f]
<1>1. c.op = op /\ c.fiber = f /\ c \in FiberFrame
  BY DEF FiberFrame
<1>2. c \in Frame /\ o \in Seq(Frame) /\ frames' = Append(o, c)
  BY <1>1, FrameKinds DEF FramesInv
<1> HIDE DEF c
<1>3. fiber_state' \in [Fiber -> States] /\ fiber_state'[f] = to
  BY DEF States
<1>4. FramesInv(o, [fiber_state EXCEPT ![f] = to], rev)
  BY FramesMoved
<1>5. FrameOK(c, fiber_state', rev)
  BY <1>1, <1>3 DEF FrameOK
<1>6. \A g : Handles(c, g) <=> g = f
  BY <1>1 DEF Handles
<1>7. ASSUME NEW b \in ToSet(o) PROVE Apart(b, c)
  <2>1. ~ Handles(b, f)
    BY DEF Busy
  <2>2. c.op # "order"
    BY <1>1
  <2>3. QED
    BY <1>6, <2>1, <2>2 DEF Apart
<1>8. FramesInv(frames', fiber_state', rev)
  BY <1>2, <1>4, <1>5, <1>7, FramesPushed
<1>9. OrdersKept(o, frames')
  BY <1>2, OrdersAppended
<1>10. \A g : Busy(frames', g) <=> Busy(o, g) \/ Handles(c, g)
  BY <1>2, BusyAppended
<1>11. \A g \in Fiber : g # f => fiber_state'[g] = fiber_state[g]
  OBVIOUS
<1>12. QED
  BY <1>3, <1>6, <1>8, <1>9, <1>10, <1>11 DEF Entered

LEMMA NotEntered ==
    ASSUME NEW f \in Fiber, NEW o, NEW rev, NEW to, FramesInv(o, fiber_state, rev),
           fiber_state \in [Fiber -> States], fiber_state' = fiber_state, frames' = o
    PROVE  Entered(f, o, rev, to)
BY DEF Entered, OrdersKept

LEMMA ActivateInv ==
    ASSUME NEW f \in Fiber, NEW o, NEW rev, FramesInv(o, fiber_state, rev), ~ Busy(o, f),
           fiber_state \in [Fiber -> States], Activate(f, o)
    PROVE  /\ Entered(f, o, rev, "RELOADING")
           /\ fiber_state' # fiber_state => f \notin retired /\ fiber_state[f] # "ACTIVE"
<1>1. CASE fiber_state[f] = "ACTIVE" \/ f \in retired \/ ~Satisfied(f)
  BY <1>1, NotEntered DEF Activate
<1>2. CASE ~ (fiber_state[f] = "ACTIVE" \/ f \in retired \/ ~Satisfied(f))
  <2>1. /\ fiber_state' = [fiber_state EXCEPT ![f] = "RELOADING"]
        /\ frames' = Append(o, [op |-> "apply", fiber |-> f])
    BY <1>2 DEF Activate
  <2>2. Entered(f, o, rev, "RELOADING")
    BY <2>1, EnterInv
  <2>3. QED
    BY <1>2, <2>2
<1>3. QED
  BY <1>1, <1>2

LEMMA DeactivateInv ==
    ASSUME NEW f \in Fiber, NEW o, NEW rev, FramesInv(o, fiber_state, rev), ~ Busy(o, f),
           fiber_state \in [Fiber -> States], Deactivate(f, o)
    PROVE  Entered(f, o, rev, "UNLOADING") /\ fiber_state'[f] \in {"INACTIVE", "UNLOADING"}
<1>1. CASE fiber_state[f] \in {"INACTIVE", "UNLOADING"}
  BY <1>1, NotEntered DEF Deactivate
<1>2. CASE fiber_state[f] \notin {"INACTIVE", "UNLOADING"}
  <2>1. /\ fiber_state' = [fiber_state EXCEPT ![f] = "UNLOADING"]
        /\ frames' = Append(o, [op |-> "dispose", fiber |-> f])
    BY <1>2 DEF Deactivate
  <2>2. Entered(f, o, rev, "UNLOADING")
    BY <2>1, EnterInv
  <2>3. QED
    BY <2>1, <2>2
<1>3. QED
  BY <1>1, <1>2

\* What becomes of the invariants of the fibers.
LEMMA EnteredFibers ==
    ASSUME NEW f \in Fiber, NEW o, NEW rev, NEW to \in {"RELOADING", "UNLOADING", "FAILED"},
           Entered(f, o, rev, to), NEW ret, NEW ret2, ret2 \subseteq ret \cup {f},
           FibersInv(fiber_state, own, frames, ret),
           \A g \in Fiber : Busy(frames, g) => Busy(frames', g),
           f \in ret2 => fiber_state'[f] \notin {"ACTIVE", "RELOADING"}
    PROVE  FibersInv(fiber_state', own, frames', ret2)
<1> SUFFICES ASSUME NEW g \in Fiber PROVE FiberInv(g, fiber_state'[g], own[g], frames', ret2)
  BY DEF FibersInv
<1>1. FiberInv(g, fiber_state[g], own[g], frames, ret) /\ (Busy(frames, g) => Busy(frames', g))
  BY DEF FibersInv
<1>2. CASE fiber_state'[g] = fiber_state[g]
  BY <1>1, <1>2 DEF FiberInv
<1>3. CASE g = f /\ fiber_state'[g] = to /\ Busy(frames', g)
  BY <1>1, <1>3 DEF FiberInv
<1>4. QED
  BY <1>2, <1>3 DEF Entered

-----------------------------------------------------------------------------
(* The steps, for the invariants of frames, fibers, stacks and store *)

StackTypes ==
    /\ providers \in [Realms -> Seq(Bindings)] /\ store \in [Realms -> Bindings \cup {NoValue}]
    /\ frames \in Seq(Frame) /\ dropped \subseteq Fiber \X Keys

LEMMA RealmOf ==
    ASSUME NEW c \in DOMAIN Resolve, NEW k \in Keys
    PROVE  Resolve[c][k] \in Realms
BY DEF Realms

\* a fiber is a context, and what it gives is a set of keys, each once
LEMMA FiberKeys ==
    ASSUME NEW f \in Fiber
    PROVE  /\ f \in DOMAIN Resolve /\ Needs[f] \subseteq Keys /\ Gives[f] \in Seq(Keys)
           /\ \A i, j \in DOMAIN Gives[f] : Gives[f][i] = Gives[f][j] => i = j
BY ServicesAssumption

\* what the two halves of provide do to a stack
Grown(r, uid) ==
    /\ \A q \in Realms : q # r => providers'[q] = providers[q]
    /\ ToSet(providers'[r]) = ToSet(providers[r]) \cup {uid}
Shrunk(r, uid) ==
    /\ \A q \in Realms : q # r => providers'[q] = providers[q]
    /\ ToSet(providers'[r]) = ToSet(providers[r]) \ {uid}

LEMMA PushInv ==
    ASSUME StackTypes, NEW key \in Keys, NEW by \in DOMAIN Resolve, NEW uid \in Bindings, NEW rev,
           FramesInv(frames, fiber_state, rev), StoreInv(providers, store, frames),
           Push(key, by, uid, frames)
    PROVE  /\ StackTypes' /\ Grown(Resolve[by][key], uid)
           /\ FramesInv(frames', fiber_state, rev) /\ StoreInv(providers', store', frames')
           /\ \A g : Busy(frames, g) => Busy(frames', g)
<1> DEFINE r == Resolve[by][key]
           n == Notify(key, FALSE)
<1>1. r \in Realms /\ n \in Frame /\ n.op = "notify"
  BY RealmOf, Notifies, FrameKinds
<1>2. frames' = Append(frames, n) /\ dropped' = dropped \ {uid}
  BY DEF Push
<1>3. /\ providers' = [providers EXCEPT ![r] = Append(@, uid)]
      /\ store' = [store EXCEPT ![r] = uid]
  BY DEF Push
<1> HIDE DEF r, n
<1>4. /\ Append(providers[r], uid) \in Seq(Bindings) /\ Append(providers[r], uid) # <<>>
      /\ Last(Append(providers[r], uid)) = uid
      /\ ToSet(Append(providers[r], uid)) = ToSet(providers[r]) \cup {uid}
  <2>1. providers[r] \in Seq(Bindings)
    BY <1>1 DEF StackTypes
  <2>2. QED
    BY <2>1, Appended
<1>5. frames' \in Seq(Frame)
  BY <1>1, <1>2, Appended DEF StackTypes
<1>6. /\ providers' \in [Realms -> Seq(Bindings)] /\ providers'[r] = Append(providers[r], uid)
      /\ \A q \in Realms : q # r => providers'[q] = providers[q]
  BY <1>1, <1>3, <1>4 DEF StackTypes
<1>7. /\ store' \in [Realms -> Bindings \cup {NoValue}] /\ store'[r] = uid
      /\ \A q \in Realms : q # r => store'[q] = store[q]
  BY <1>1, <1>3 DEF StackTypes
<1>8. StackTypes'
  BY <1>2, <1>5, <1>6, <1>7 DEF StackTypes
<1>9. Grown(r, uid)
  BY <1>4, <1>6 DEF Grown
<1>10. FramesInv(frames', fiber_state, rev)
  <2>1. FrameOK(n, fiber_state, rev)
    BY <1>1 DEF FrameOK
  <2>2. \A b \in ToSet(frames) : Apart(b, n)
    BY <1>1 DEF Apart, Handles
  <2>3. QED
    BY <1>1, <1>2, <2>1, <2>2, FramesPushed
<1>11. StoreInv(providers', store', frames')
  <2>1. OrdersKept(frames, frames')
    BY <1>1, <1>2, OrdersAppended DEF StackTypes
  <2>2. StoreInv(providers, store, frames')
    BY <2>1, StoreKept
  <2>3. store'[r] = Shown(providers'[r])
    BY <1>4, <1>6, <1>7 DEF Shown
  <2>4. QED
    BY <1>6, <1>7, <2>2, <2>3 DEF StoreInv
<1>12. \A g : Busy(frames, g) => Busy(frames', g)
  <2> SUFFICES ASSUME NEW g, Busy(frames, g) PROVE Busy(frames', g)
    OBVIOUS
  <2>1. QED
    BY <1>1, <1>2, BusyAppended DEF StackTypes
<1>13. QED
  BY <1>8, <1>9, <1>10, <1>11, <1>12 DEF r

LEMMA PullInv ==
    ASSUME StackTypes, NEW key \in Keys, NEW by \in DOMAIN Resolve, NEW uid \in Bindings, NEW rev,
           FramesInv(frames, fiber_state, rev), StoreInv(providers, store, frames),
           \A f \in Fiber : fiber_state[f] = "ACTIVE" => f \notin retired,
           Pull(key, by, uid, frames), dropped' = dropped
    PROVE  /\ StackTypes' /\ Shrunk(Resolve[by][key], uid)
           /\ FramesInv(frames', fiber_state, rev) /\ StoreInv(providers', store', frames')
           /\ \A g : Busy(frames, g) => Busy(frames', g)
           /\ store' = store \/ (\A f \in Fiber : Satisfied(f) => Satisfied(f)')
<1> DEFINE r == Resolve[by][key]
           rest == But(providers[r], uid)
           c == IF rest = <<>> THEN Withdrawal(key, by) ELSE Notify(key, FALSE)
<1>1. r \in Realms
  BY RealmOf
<1>2. /\ Withdrawal(key, by) \in Frame /\ Withdrawal(key, by).op = "order"
      /\ Withdrawal(key, by).key = key /\ Withdrawal(key, by).by = by
      /\ Withdrawal(key, by).act = ActiveSlots /\ Withdrawal(key, by).visited = {}
      /\ Withdrawal(key, by).path = <<>> /\ Withdrawal(key, by).order = <<>>
  BY Withdraws, FrameKinds
<1>3. Notify(key, FALSE) \in Frame /\ Notify(key, FALSE).op = "notify"
  BY Notifies, FrameKinds
<1>4. /\ frames' = Append(frames, c) /\ providers' = [providers EXCEPT ![r] = rest]
      /\ store' = IF rest = <<>> THEN store ELSE [store EXCEPT ![r] = Last(rest)]
  BY DEF Pull
<1>5. rest \in Seq(Bindings) /\ ToSet(rest) = ToSet(providers[r]) \ {uid}
  <2>1. providers[r] \in Seq(Bindings)
    BY <1>1 DEF StackTypes
  <2>2. QED
    BY <2>1, ButProperties
<1> HIDE DEF r, rest
<1>6. rest # <<>> => Last(rest) \in Bindings /\ Last(rest) # NoValue
  BY <1>5, Split, ServicesAssumption
<1>7. c \in Frame
  BY <1>2, <1>3
<1>8. frames' \in Seq(Frame)
  BY <1>4, <1>7, Appended DEF StackTypes
<1>9. /\ providers' \in [Realms -> Seq(Bindings)] /\ providers'[r] = rest
      /\ \A q \in Realms : q # r => providers'[q] = providers[q]
  BY <1>1, <1>4, <1>5 DEF StackTypes
<1>10. /\ store' \in [Realms -> Bindings \cup {NoValue}]
       /\ \A q \in Realms : q # r => store'[q] = store[q]
       /\ store'[r] = IF rest = <<>> THEN store[r] ELSE Last(rest)
  <2>1. CASE rest = <<>>
    BY <1>4, <2>1 DEF StackTypes
  <2>2. CASE rest # <<>>
    BY <1>1, <1>4, <1>6, <2>2 DEF StackTypes
  <2>3. QED
    BY <2>1, <2>2
<1>11. StackTypes'
  BY <1>8, <1>9, <1>10 DEF StackTypes
<1>12. Shrunk(r, uid)
  BY <1>5, <1>9 DEF Shrunk
<1>13. FramesInv(frames', fiber_state, rev)
  <2>1. FrameOK(c, fiber_state, rev)
    <3>1. CASE rest = <<>>
      <4>1. ToSet(<<>>) = {}
        BY DEF ToSet
      <4>2. \A i \in Slots : fiber_state[Fibers[i]] = "ACTIVE" => i \in ActiveSlots
        BY SlotFiber DEF ActiveSlots
      <4>3. QED
        BY <1>2, <3>1, <4>1, <4>2 DEF FrameOK
    <3>2. CASE rest # <<>>
      BY <1>3, <3>2 DEF FrameOK
    <3>3. QED
      BY <3>1, <3>2
  <2>2. ASSUME NEW b \in ToSet(frames) PROVE Apart(b, c)
    <3> SUFFICES ASSUME NEW f \in Fiber, Handles(b, f)
                 PROVE  ~ Handles(c, f) /\ (c.op = "order" => \A i \in c.act : Fibers[i] # f)
      BY DEF Apart
    <3>1. fiber_state[f] # "ACTIVE"
      BY BusyState DEF Busy
    <3>2. \A i \in ActiveSlots : Fibers[i] # f
      BY <3>1 DEF ActiveSlots
    <3>3. CASE rest = <<>>
      BY <1>2, <3>2, <3>3 DEF Handles
    <3>4. CASE rest # <<>>
      BY <1>3, <3>4 DEF Handles
    <3>5. QED
      BY <3>3, <3>4
  <2>3. QED
    BY <1>4, <1>7, <2>1, <2>2, FramesPushed
<1>14. StoreInv(providers', store', frames')
  <2>1. OrdersKept(frames, frames')
    BY <1>4, <1>7, OrdersAppended DEF StackTypes
  <2>2. StoreInv(providers, store, frames')
    BY <2>1, StoreKept
  <2>3. CASE rest = <<>>
    <3>1. c \in ToSet(frames') /\ c.op = "order" /\ Resolve[c.by][c.key] = r
      BY <1>2, <1>4, <1>7, <2>3, Appended DEF StackTypes, r
    <3>2. QED
      BY <1>9, <1>10, <2>2, <3>1 DEF StoreInv
  <2>4. CASE rest # <<>>
    <3>1. store'[r] = Shown(providers'[r])
      BY <1>9, <1>10, <2>4 DEF Shown
    <3>2. QED
      BY <1>9, <1>10, <2>2, <3>1 DEF StoreInv
  <2>5. QED
    BY <2>3, <2>4
<1>15. \A g : Busy(frames, g) => Busy(frames', g)
  <2> SUFFICES ASSUME NEW g, Busy(frames, g) PROVE Busy(frames', g)
    OBVIOUS
  <2>1. QED
    BY <1>4, <1>7, BusyAppended DEF StackTypes
<1>16. store' = store \/ (\A f \in Fiber : Satisfied(f) => Satisfied(f)')
  <2>1. CASE rest = <<>>
    BY <1>4, <2>1
  <2>2. CASE rest # <<>>
    <3>1. \A q \in Realms : store[q] # NoValue => store'[q] # NoValue
      BY <1>6, <1>10, <2>2
    <3> SUFFICES ASSUME NEW f \in Fiber, Satisfied(f) PROVE Satisfied(f)'
      OBVIOUS
    <3>2. \A k \in Needs[f] : Resolve[f][k] \in Realms
      BY FiberKeys, RealmOf
    <3>3. QED
      BY <3>1, <3>2 DEF Satisfied
  <2>3. QED
    BY <2>1, <2>2
<1>17. QED
  BY <1>11, <1>12, <1>13, <1>14, <1>15, <1>16 DEF r

\* What a step that leaves the services alone owes.
SameServicesInv ==
    /\ ServicesTypeOK
    /\ providers' = providers /\ store' = store /\ own' = own /\ dropped' = dropped
    /\ live' \subseteq DOMAIN Providers /\ retired' \subseteq Fiber /\ broken' \subseteq Fiber
    /\ revived' \subseteq Fiber /\ stale' \subseteq Fiber

LEMMA FramesOnly ==
    ASSUME ServicesInv, SameServicesInv, fiber_state' = fiber_state, retired' = retired,
           FramesInv(frames', fiber_state, revived'), OrdersKept(frames, frames'),
           \A g \in Fiber : Busy(frames, g) => Busy(frames', g)
    PROVE  ServicesInv'
<1>1. frames' \in Seq(Frame)
  BY DEF FramesInv
<1>2. ServicesTypeOK'
  BY <1>1 DEF ServicesTypeOK, SameServicesInv
<1>3. FibersInv(fiber_state', own', frames', retired')
  BY FiberKept DEF ServicesInv, SameServicesInv, FibersInv
<1>4. StacksInv(providers', own', dropped')
  BY DEF ServicesInv, SameServicesInv
<1>5. StoreInv(providers', store', frames')
  BY StoreKept DEF ServicesInv, SameServicesInv
<1>6. QED
  BY <1>2, <1>3, <1>4, <1>5 DEF ServicesInv

LEMMA EnteredInv ==
    ASSUME ServicesInv, SameServicesInv, NEW f \in Fiber, NEW o,
           NEW to \in {"RELOADING", "UNLOADING", "FAILED"}, Entered(f, o, revived', to),
           OrdersKept(frames, o), \A g \in Fiber : Busy(frames, g) => Busy(frames', g),
           retired' \subseteq retired \cup {f},
           f \in retired' => fiber_state'[f] \notin {"ACTIVE", "RELOADING"}
    PROVE  ServicesInv'
<1>1. frames' \in Seq(Frame) /\ fiber_state' \in [Fiber -> States]
  BY DEF Entered, FramesInv
<1>2. ServicesTypeOK'
  BY <1>1 DEF ServicesTypeOK, SameServicesInv, States
<1>3. FibersInv(fiber_state', own, frames', retired')
  BY EnteredFibers DEF ServicesInv
<1>4. FibersInv(fiber_state', own', frames', retired')
  BY <1>3 DEF SameServicesInv
<1>5. StacksInv(providers', own', dropped')
  BY DEF ServicesInv, SameServicesInv
<1>6. OrdersKept(frames, frames')
  <2>1. OrdersKept(frames, o) /\ OrdersKept(o, frames')
    BY DEF Entered
  <2>2. QED
    BY <2>1 DEF OrdersKept
<1>7. StoreInv(providers', store', frames')
  BY <1>6, StoreKept DEF ServicesInv, SameServicesInv
<1>8. FramesInv(frames', fiber_state', revived')
  BY DEF Entered
<1>9. QED
  BY <1>2, <1>4, <1>5, <1>7, <1>8 DEF ServicesInv

LEMMA ActiveNotRetired ==
    ASSUME ServicesInv
    PROVE  \A f \in Fiber : fiber_state[f] \in {"ACTIVE", "RELOADING"} => f \notin retired
BY DEF ServicesInv, FibersInv, FiberInv

LEMMA IdleFrames ==
    ASSUME frames = <<>>
    PROVE  /\ \A st, rev : FramesInv(frames, st, rev)
           /\ \A g : ~ Busy(frames, g)
           /\ \A o : OrdersKept(frames, o)
BY NoFrames, NobodyBusy DEF OrdersKept, ToSet

LEMMA FiberOperations ==
    ASSUME ServicesInv, NEW f \in Fiber,
           ActivateFiber(f) \/ DeactivateFiber(f) \/ Retire(f) \/ Break(f)
    PROVE  ServicesInv'
<1>1. /\ frames = <<>> /\ revived' = {} /\ stale' = stale
      /\ \A st, rev : FramesInv(frames, st, rev)
      /\ \A g : ~ Busy(frames, g)
      /\ \A o : OrdersKept(frames, o)
  BY IdleFrames DEF ActivateFiber, DeactivateFiber, Retire, Break, Idle
<1>2. SameServicesInv
  BY <1>1 DEF ServicesInv, SameServicesInv, ServicesTypeOK, ActivateFiber, DeactivateFiber, Retire, Break
<1>3. fiber_state \in [Fiber -> States]
  BY DEF ServicesInv, ServicesTypeOK, States
<1>4. CASE ActivateFiber(f)
  <2>1. Activate(f, frames) /\ retired' = retired
    BY <1>1, <1>4 DEF ActivateFiber
  <2>2. /\ Entered(f, frames, revived', "RELOADING")
        /\ fiber_state' # fiber_state => f \notin retired /\ fiber_state[f] # "ACTIVE"
    BY <1>1, <1>3, <2>1, ActivateInv
  <2>3. f \in retired => fiber_state'[f] \notin {"ACTIVE", "RELOADING"}
    BY <2>2, ActiveNotRetired
  <2>4. QED
    BY <1>1, <1>2, <2>1, <2>2, <2>3, EnteredInv
<1>5. CASE DeactivateFiber(f) \/ Retire(f)
  <2>1. Deactivate(f, frames) /\ retired' \subseteq retired \cup {f}
    BY <1>1, <1>5 DEF DeactivateFiber, Retire
  <2>2. Entered(f, frames, revived', "UNLOADING") /\ fiber_state'[f] \in {"INACTIVE", "UNLOADING"}
    BY <1>1, <1>3, <2>1, DeactivateInv
  <2>3. QED
    BY <1>1, <1>2, <2>1, <2>2, EnteredInv
<1>6. CASE Break(f)
  BY <1>1, <1>2, <1>6, FramesOnly DEF Break
<1>7. QED
  BY <1>4, <1>5, <1>6

-----------------------------------------------------------------------------
(* The innermost call *)

LEMMA TopFacts ==
    ASSUME ServicesInv, frames # <<>>
    PROVE  /\ FramesInv(frames, fiber_state, revived)
           /\ FramesInv(Outer, fiber_state, revived) /\ Outer \in Seq(Frame)
           /\ Top \in Frame /\ FrameOK(Top, fiber_state, revived)
           /\ \A b \in ToSet(Outer) : Apart(b, Top)
           /\ \A g : Busy(frames, g) <=> Busy(Outer, g) \/ Handles(Top, g)
           /\ Top.op # "order" => OrdersKept(frames, Outer)
           /\ \A g \in Fiber : Handles(Top, g) => ~ Busy(Outer, g)
           /\ ToSet(frames) = ToSet(Outer) \cup {Top}
           /\ frames = Append(Outer, Top)
BY FramesPopped, FramesLeft DEF ServicesInv, Top, Outer

LEMMA NobodyElse ==
    ASSUME ServicesInv, SameServices, SameFibers
    PROVE  SameServicesInv
BY DEF ServicesInv, ServicesTypeOK, SameServicesInv, SameServices, SameFibers

LEMMA NotifyNextInv ==
    ASSUME ServicesInv, NotifyNext
    PROVE  ServicesInv'
<1> DEFINE i == Earliest(Top.due)
           f == Fibers[i]
           u == [Top EXCEPT !.due = Top.due \ {i}]
           o == Append(Outer, u)
<1>1. /\ Top.op = "notify" /\ frames # <<>> /\ Top.due # {}
      /\ \/ fiber_state[f] = "ACTIVE" /\ Deactivate(f, o)
         \/ f \notin retired /\ fiber_state[f] = "INACTIVE" /\ Activate(f, o)
         \/ fiber_state' = fiber_state /\ frames' = o
      /\ SameServices /\ SameFibers
  BY DEF NotifyNext, Running
<1>2. Top \in NotifyFrame /\ Top.due \subseteq Slots
  BY <1>1, TopFacts, FrameKinds DEF NotifyFrame
<1>3. i \in Slots /\ f \in Fiber
  BY <1>1, <1>2, EarliestIn, SlotsAreNumbers, SlotFiber
<1>4. u \in Frame /\ u.op = "notify"
  <2>1. Top.due \ {i} \in SUBSET Slots
    BY <1>2
  <2>2. QED
    BY <1>2, <2>1, Lessened, FrameKinds
<1> HIDE DEF u
<1>5. FramesInv(o, fiber_state, revived) /\ OrdersKept(frames, o) /\ \A g : Busy(o, g) <=> Busy(frames, g)
  <2>1. FrameOK(u, fiber_state, revived)
    BY <1>4 DEF FrameOK
  <2>2. QED
    BY <1>1, <1>4, <2>1, TopFacts, FramesReplaced DEF Top, Outer
<1>6. SameServicesInv /\ revived' = revived /\ retired' = retired
  BY <1>1, NobodyElse DEF SameFibers
<1>7. fiber_state \in [Fiber -> States]
  BY DEF ServicesInv, ServicesTypeOK, States
<1> HIDE DEF o, f
<1>8. CASE fiber_state[f] = "ACTIVE" /\ Deactivate(f, o)
  <2>1. ~ Busy(o, f)
    BY <1>5, <1>8, BusyState
  <2>2. Entered(f, o, revived, "UNLOADING") /\ fiber_state'[f] \in {"INACTIVE", "UNLOADING"}
    BY <1>3, <1>5, <1>7, <1>8, <2>1, DeactivateInv
  <2>3. \A g \in Fiber : Busy(frames, g) => Busy(frames', g)
    BY <1>5, <2>2 DEF Entered
  <2>4. QED
    BY <1>3, <1>5, <1>6, <2>2, <2>3, EnteredInv
<1>9. CASE f \notin retired /\ fiber_state[f] = "INACTIVE" /\ Activate(f, o)
  <2>1. ~ Busy(o, f)
    BY <1>5, <1>9, BusyState
  <2>2. Entered(f, o, revived, "RELOADING")
    BY <1>3, <1>5, <1>7, <1>9, <2>1, ActivateInv
  <2>3. \A g \in Fiber : Busy(frames, g) => Busy(frames', g)
    BY <1>5, <2>2 DEF Entered
  <2>4. QED
    BY <1>3, <1>5, <1>6, <1>9, <2>2, <2>3, EnteredInv
<1>10. CASE fiber_state' = fiber_state /\ frames' = o
  BY <1>5, <1>6, <1>10, FramesOnly
<1>11. QED
  BY <1>1, <1>8, <1>9, <1>10 DEF f, o

LEMMA NotifyEndsInv ==
    ASSUME ServicesInv, NotifyEnds
    PROVE  ServicesInv'
<1>1. /\ Top.op = "notify" /\ frames # <<>> /\ frames' = Outer
      /\ SameServices /\ SameFibers /\ fiber_state' = fiber_state
  BY DEF NotifyEnds, Running
<1>2. \A g : ~ Handles(Top, g)
  BY <1>1 DEF Handles
<1>3. SameServicesInv /\ revived' = revived /\ retired' = retired
  BY <1>1, NobodyElse DEF SameFibers
<1>4. QED
  BY <1>1, <1>2, <1>3, TopFacts, FramesOnly

LEMMA VisitsInv ==
    ASSUME ServicesInv, Visit \/ VisitReturns
    PROVE  ServicesInv'
<1>1. /\ Top.op = "order" /\ frames # <<>>
      /\ SameServices /\ SameFibers /\ fiber_state' = fiber_state
  BY DEF Visit, VisitReturns, Running
<1>2. SameServicesInv /\ revived' = revived /\ retired' = retired
  BY <1>1, NobodyElse DEF SameFibers
<1>3. /\ Top \in OrderFrame /\ Top.path \in Seq(Slots) /\ Top.order \in Seq(Slots)
      /\ Top.visited \subseteq Slots /\ Top.act \subseteq Slots
  BY <1>1, TopFacts, FrameKinds DEF OrderFrame
<1>4. /\ ToSet(Top.path) \cup ToSet(Top.order) \subseteq Top.act
      /\ \A i \in Slots : fiber_state[Fibers[i]] = "ACTIVE" /\ Fibers[i] \notin revived =>
            i \in Top.act /\ (i \in Top.visited => i \in ToSet(Top.path) \cup ToSet(Top.order))
  BY <1>1, TopFacts DEF FrameOK
<1>5. ASSUME NEW u \in Frame, u.op = "order", u.act = Top.act, u.by = Top.by, u.key = Top.key,
             FrameOK(u, fiber_state, revived), frames' = Append(Outer, u)
      PROVE  ServicesInv'
  <2>1. /\ FramesInv(frames', fiber_state, revived) /\ OrdersKept(frames, frames')
        /\ \A g : Busy(frames', g) <=> Busy(frames, g)
    BY <1>1, <1>5, TopFacts, FramesReplaced DEF Top, Outer
  <2>2. QED
    BY <1>1, <1>2, <2>1, FramesOnly
<1>6. CASE Visit
  <2> DEFINE i == Earliest(Reached)
             v == Top.visited \cup {i}
             p == Append(Top.path, i)
             u == [Top EXCEPT !.visited = v, !.path = p]
  <2>1. Reached # {} /\ frames' = Append(Outer, u)
    BY <1>6 DEF Visit
  <2>2. Reached \subseteq Top.act /\ Reached \in SUBSET Nat
    BY <1>3, SlotsAreNumbers DEF Reached
  <2>3. i \in Top.act
    BY <2>1, <2>2, EarliestIn
  <2>4. Append(Top.path, i) \in Seq(Slots) /\ ToSet(Append(Top.path, i)) = ToSet(Top.path) \cup {i}
    BY <1>3, <2>3, Appended
  <2> HIDE DEF i
  <2>5. /\ u \in Frame /\ u.op = "order" /\ u.act = Top.act /\ u.by = Top.by /\ u.key = Top.key
        /\ u.visited = Top.visited \cup {i} /\ u.path = Append(Top.path, i) /\ u.order = Top.order
    <3>1. v \in SUBSET Slots /\ p \in Seq(Slots)
      BY <1>3, <2>3, <2>4
    <3> HIDE DEF v, p
    <3>2. /\ u \in OrderFrame /\ u.op = "order" /\ u.key = Top.key /\ u.by = Top.by
          /\ u.act = Top.act /\ u.visited = v /\ u.path = p /\ u.order = Top.order
      BY <1>3, <3>1 DEF OrderFrame
    <3>3. QED
      BY <3>2, FrameKinds DEF v, p
  <2> HIDE DEF u
  <2>6. FrameOK(u, fiber_state, revived)
    BY <1>4, <2>3, <2>4, <2>5 DEF FrameOK
  <2>7. QED
    BY <1>5, <2>1, <2>5, <2>6
<1>7. CASE VisitReturns
  <2> DEFINE n == Append(Top.order, Last(Top.path))
             p == Front(Top.path)
             u == [Top EXCEPT !.order = n, !.path = p]
  <2>1. Top.path # <<>> /\ frames' = Append(Outer, u)
    BY <1>7 DEF VisitReturns
  <2>2. /\ Front(Top.path) \in Seq(Slots) /\ Last(Top.path) \in Slots
        /\ ToSet(Top.path) = ToSet(Front(Top.path)) \cup {Last(Top.path)}
    <3>1. /\ Front(Top.path) \in Seq(Slots) /\ Last(Top.path) \in Slots
          /\ Top.path = Append(Front(Top.path), Last(Top.path))
      BY <1>3, <2>1, Split
    <3>2. ToSet(Append(Front(Top.path), Last(Top.path))) = ToSet(Front(Top.path)) \cup {Last(Top.path)}
      BY <3>1, Appended
    <3>3. QED
      BY <3>1, <3>2
  <2>3. /\ Append(Top.order, Last(Top.path)) \in Seq(Slots)
        /\ ToSet(Append(Top.order, Last(Top.path))) = ToSet(Top.order) \cup {Last(Top.path)}
    BY <1>3, <2>2, Appended
  <2>4. /\ u \in Frame /\ u.op = "order" /\ u.act = Top.act /\ u.by = Top.by /\ u.key = Top.key
        /\ u.visited = Top.visited /\ u.path = Front(Top.path)
        /\ u.order = Append(Top.order, Last(Top.path))
    <3>1. n \in Seq(Slots) /\ p \in Seq(Slots)
      BY <2>2, <2>3
    <3> HIDE DEF n, p
    <3>2. /\ u \in OrderFrame /\ u.op = "order" /\ u.key = Top.key /\ u.by = Top.by
          /\ u.act = Top.act /\ u.visited = Top.visited /\ u.path = p /\ u.order = n
      BY <1>3, <3>1 DEF OrderFrame
    <3>3. QED
      BY <3>2, FrameKinds DEF n, p
  <2> HIDE DEF u
  <2>5. ToSet(u.path) \cup ToSet(u.order) = ToSet(Top.path) \cup ToSet(Top.order)
    BY <2>2, <2>3, <2>4
  <2>6. FrameOK(u, fiber_state, revived)
    BY <1>4, <2>4, <2>5 DEF FrameOK
  <2>7. QED
    BY <1>5, <2>1, <2>4, <2>6
<1>8. QED
  BY <1>6, <1>7

\* The history of who became active matters for the active fibers only.
LEMMA FramesRevived ==
    ASSUME NEW cs, NEW st, NEW rev, NEW f
    PROVE  /\ FramesInv(cs, st, rev) => FramesInv(cs, st, rev \cup {f})
           /\ FramesInv(cs, st, rev \cup {f}) /\ st[f] # "ACTIVE" => FramesInv(cs, st, rev)
<1>1. ASSUME NEW c, FrameOK(c, st, rev) PROVE FrameOK(c, st, rev \cup {f})
  BY <1>1 DEF FrameOK
<1>2. ASSUME NEW c, FrameOK(c, st, rev \cup {f}), st[f] # "ACTIVE" PROVE FrameOK(c, st, rev)
  BY <1>2 DEF FrameOK
<1>3. QED
  BY <1>1, <1>2 DEF FramesInv

LEMMA DeactivateNextInv ==
    ASSUME ServicesInv, DeactivateNext
    PROVE  ServicesInv'
<1> DEFINE i == Head(Top.order)
           n == Tail(Top.order)
           f == Fibers[i]
           u == [Top EXCEPT !.order = n]
           o == Append(Outer, u)
           rv == revived \cup {f}
<1>1. /\ Top.op = "order" /\ frames # <<>> /\ Top.order # <<>> /\ Deactivate(f, o)
      /\ SameServices /\ SameFibers
  BY DEF DeactivateNext, Ordered, Running
<1>2. /\ Top \in OrderFrame /\ Top.order \in Seq(Slots)
  BY <1>1, TopFacts, FrameKinds DEF OrderFrame
<1>3. /\ i \in Slots /\ n \in Seq(Slots) /\ ToSet(Top.order) = {i} \cup ToSet(n)
  BY <1>1, <1>2, TailSet
<1>4. /\ ToSet(Top.path) \cup ToSet(Top.order) \subseteq Top.act
      /\ \A j \in Slots : fiber_state[Fibers[j]] = "ACTIVE" /\ Fibers[j] \notin revived =>
            j \in Top.act /\ (j \in Top.visited => j \in ToSet(Top.path) \cup ToSet(Top.order))
  BY <1>1, TopFacts DEF FrameOK
<1>5. f \in Fiber /\ i \in Top.act
  BY <1>3, <1>4, SlotFiber
<1> HIDE DEF n
<1>6. /\ u \in OrderFrame /\ u.op = "order" /\ u.key = Top.key /\ u.by = Top.by
      /\ u.act = Top.act /\ u.visited = Top.visited /\ u.path = Top.path /\ u.order = n
  BY <1>2, <1>3, Reordered
<1> HIDE DEF u
<1>7. u \in Frame
  BY <1>6, FrameKinds
<1>8. FrameOK(u, fiber_state, rv)
  BY <1>3, <1>4, <1>6 DEF FrameOK
<1>9. FramesInv(frames, fiber_state, rv)
  BY <1>1, TopFacts, FramesRevived
<1>10. FramesInv(o, fiber_state, rv) /\ OrdersKept(frames, o) /\ \A g : Busy(o, g) <=> Busy(frames, g)
  BY <1>1, <1>6, <1>7, <1>8, <1>9, FramesReplaced DEF Top, Outer
<1>11. ~ Busy(frames, f)
  <2>1. ~ Busy(Outer, f)
    BY <1>1, <1>5, TopFacts DEF Busy, Apart
  <2>2. ~ Handles(Top, f)
    BY <1>1 DEF Handles
  <2>3. QED
    BY <1>1, <2>1, <2>2, TopFacts
<1>12. fiber_state \in [Fiber -> States]
  BY DEF ServicesInv, ServicesTypeOK, States
<1> HIDE DEF o, f
<1>13. ~ Busy(o, f)
  BY <1>10, <1>11
<1>14. Entered(f, o, rv, "UNLOADING") /\ fiber_state'[f] \in {"INACTIVE", "UNLOADING"}
  <2>1. Deactivate(f, o)
    BY <1>1 DEF f, o
  <2> HIDE DEF rv
  <2>2. QED
    BY <1>5, <1>10, <1>12, <1>13, <2>1, DeactivateInv
<1>15. Entered(f, o, revived, "UNLOADING")
  <2>1. FramesInv(frames', fiber_state', rv)
    BY <1>14 DEF Entered
  <2>2. FramesInv(frames', fiber_state', revived)
    BY <1>14, <2>1, FramesRevived
  <2>3. QED
    BY <1>14, <2>2 DEF Entered
<1>16. SameServicesInv /\ revived' = revived /\ retired' = retired
  BY <1>1, NobodyElse DEF SameFibers
<1>17. \A g \in Fiber : Busy(frames, g) => Busy(frames', g)
  BY <1>10, <1>15 DEF Entered
<1>18. QED
  BY <1>5, <1>10, <1>14, <1>15, <1>16, <1>17, EnteredInv

LEMMA ApplyFailsInv ==
    ASSUME ServicesInv, ApplyFails
    PROVE  ServicesInv'
<1> DEFINE f == Top.fiber
<1>1. /\ Top.op = "apply" /\ frames # <<>>
      /\ fiber_state' = [fiber_state EXCEPT ![f] = "FAILED"]
      /\ frames' = Append(Outer, [op |-> "dispose", fiber |-> f])
      /\ SameServices /\ SameFibers
  BY DEF ApplyFails, Running
<1>2. f \in Fiber
  BY <1>1, TopFacts, FrameKinds DEF FiberFrame
<1>3. \A g : Handles(Top, g) <=> g = f
  BY <1>1 DEF Handles
<1>4. fiber_state \in [Fiber -> States] /\ fiber_state' # fiber_state
  <2>1. fiber_state[f] = "RELOADING"
    BY <1>1, TopFacts DEF FrameOK
  <2>2. fiber_state \in [Fiber -> States]
    BY DEF ServicesInv, ServicesTypeOK, States
  <2>3. QED
    BY <1>1, <1>2, <2>1, <2>2
<1>5. ~ Busy(Outer, f) /\ FramesInv(Outer, fiber_state, revived) /\ OrdersKept(frames, Outer)
  BY <1>1, <1>2, <1>3, TopFacts
<1> HIDE DEF f
<1>6. Entered(f, Outer, revived, "FAILED")
  BY <1>1, <1>2, <1>4, <1>5, EnterInv
<1>7. fiber_state'[f] = "FAILED"
  BY <1>1, <1>2, <1>4
<1>8. \A g \in Fiber : Busy(frames, g) => Busy(frames', g)
  <2>1. Busy(frames', f)
    <3>1. fiber_state'[f] # fiber_state[f]
      BY <1>1, <1>4, <1>7, TopFacts DEF FrameOK, f
    <3>2. QED
      BY <1>2, <1>6, <3>1 DEF Entered
  <2>2. \A g \in Fiber : g # f /\ Busy(frames, g) => Busy(Outer, g)
    BY <1>1, <1>3, TopFacts
  <2>3. QED
    BY <1>6, <2>1, <2>2 DEF Entered
<1>9. SameServicesInv /\ revived' = revived /\ retired' = retired
  BY <1>1, NobodyElse DEF SameFibers
<1>10. QED
  BY <1>2, <1>5, <1>6, <1>7, <1>8, <1>9, EnteredInv

\* The innermost call returns, and leaves its fiber in a state x.
LEMMA FiberLeft ==
    ASSUME ServicesInv, frames # <<>>, NEW f \in Fiber, Handles(Top, f), NEW x \in States,
           fiber_state' = [fiber_state EXCEPT ![f] = x], frames' = Outer,
           SameServicesInv, revived \subseteq revived', x = "ACTIVE" => f \in revived',
           retired' = retired, FiberInv(f, x, own[f], frames', retired)
    PROVE  ServicesInv'
<1>1. /\ FramesInv(Outer, fiber_state, revived) /\ Outer \in Seq(Frame)
      /\ OrdersKept(frames, Outer) /\ ~ Busy(Outer, f)
      /\ \A g : Busy(frames, g) <=> Busy(Outer, g) \/ Handles(Top, g)
  BY TopFacts DEF Handles
<1>2. fiber_state \in [Fiber -> States]
  BY DEF ServicesInv, ServicesTypeOK, States
<1>3. FramesInv(frames', fiber_state', revived')
  <2> DEFINE rv == revived'
  <2>1. revived \subseteq rv /\ (x = "ACTIVE" => f \in rv) /\ DOMAIN fiber_state = Fiber
    BY <1>2
  <2> HIDE DEF rv
  <2>2. FramesInv(Outer, [fiber_state EXCEPT ![f] = x], rv)
    BY <1>1, <2>1, FramesMoved
  <2>3. QED
    BY <2>2 DEF rv
<1>4. ServicesTypeOK'
  <2>1. fiber_state' \in [Fiber -> States]
    BY <1>2
  <2>2. QED
    BY <1>1, <2>1 DEF ServicesTypeOK, SameServicesInv, States
<1>5. ASSUME NEW g \in Fiber PROVE FiberInv(g, fiber_state'[g], own'[g], frames', retired')
  <2>1. own' = own
    BY DEF SameServicesInv
  <2>2. CASE g = f
    BY <1>2, <2>1, <2>2
  <2>3. CASE g # f
    <3>1. FiberInv(g, fiber_state[g], own[g], frames, retired) /\ fiber_state'[g] = fiber_state[g]
      BY <1>2, <2>3 DEF ServicesInv, FibersInv
    <3>2. Busy(frames, g) => Busy(frames', g)
      BY <1>1, <2>3 DEF Handles
    <3>3. QED
      BY <2>1, <3>1, <3>2, FiberKept
  <2>4. QED
    BY <2>2, <2>3
<1>6. StacksInv(providers', own', dropped')
  BY DEF ServicesInv, SameServicesInv
<1>7. StoreInv(providers', store', frames')
  BY <1>1, StoreKept DEF ServicesInv, SameServicesInv
<1>8. QED
  BY <1>3, <1>4, <1>5, <1>6, <1>7 DEF ServicesInv, FibersInv

LEMMA ApplyReturnsInv ==
    ASSUME ServicesInv, ApplyReturns
    PROVE  ServicesInv'
<1> DEFINE f == Top.fiber
<1>1. /\ Top.op = "apply" /\ frames # <<>> /\ Len(own[f]) = Len(Gives[f])
      /\ fiber_state' = [fiber_state EXCEPT ![f] = "ACTIVE"] /\ frames' = Outer
      /\ revived' = revived \cup {f} /\ stale' \subseteq stale \cup {f}
      /\ providers' = providers /\ store' = store /\ own' = own /\ dropped' = dropped
      /\ retired' = retired /\ broken' = broken /\ live' = live
  BY DEF ApplyReturns, Running, SameServices
<1>2. f \in Fiber
  BY <1>1, TopFacts, FrameKinds DEF FiberFrame
<1>3. Handles(Top, f) /\ fiber_state[f] = "RELOADING"
  BY <1>1, TopFacts DEF Handles, FrameOK
<1> HIDE DEF f
<1>4. SameServicesInv
  BY <1>1, <1>2 DEF ServicesInv, ServicesTypeOK, SameServicesInv
<1>5. FiberInv(f, "ACTIVE", own[f], frames', retired)
  <2>1. FiberInv(f, fiber_state[f], own[f], frames, retired)
    BY <1>2 DEF ServicesInv, FibersInv
  <2>2. QED
    BY <1>1, <1>3, <2>1 DEF FiberInv
<1>6. QED
  BY <1>1, <1>2, <1>3, <1>4, <1>5, FiberLeft DEF States

LEMMA UnwindEndsInv ==
    ASSUME ServicesInv, UnwindEnds
    PROVE  ServicesInv'
<1> DEFINE f == Top.fiber
           x == IF fiber_state[f] = "FAILED" THEN "FAILED" ELSE "INACTIVE"
<1>1. /\ Top.op = "dispose" /\ frames # <<>> /\ own[f] = <<>>
      /\ fiber_state' = [fiber_state EXCEPT ![f] = x] /\ frames' = Outer
      /\ SameServices /\ SameFibers
  BY DEF UnwindEnds, Running
<1>2. f \in Fiber
  BY <1>1, TopFacts, FrameKinds DEF FiberFrame
<1>3. Handles(Top, f)
  BY <1>1 DEF Handles
<1>4. x \in {"FAILED", "INACTIVE"}
  OBVIOUS
<1> HIDE DEF f, x
<1>5. SameServicesInv /\ revived' = revived /\ retired' = retired
  BY <1>1, NobodyElse DEF SameFibers
<1>6. FiberInv(f, x, own[f], frames', retired)
  <2>1. FiberInv(f, fiber_state[f], own[f], frames, retired)
    BY <1>2 DEF ServicesInv, FibersInv
  <2>2. QED
    BY <1>1, <1>4, <2>1 DEF FiberInv
<1>7. QED
  BY <1>1, <1>2, <1>3, <1>4, <1>5, <1>6, FiberLeft DEF States

-----------------------------------------------------------------------------
(* The steps that change the services *)

LEMMA StackFacts ==
    ASSUME ServicesInv
    PROVE  /\ StackTypes /\ StoreInv(providers, store, frames) /\ StacksInv(providers, own, dropped)
           /\ \A f \in Fiber : fiber_state[f] = "ACTIVE" => f \notin retired
           /\ \A p \in DOMAIN Providers :
                 p \in Bindings /\ p \notin Fiber \X Keys
                 /\ Providers[p].by \in DOMAIN Resolve /\ Providers[p].key \in Keys
<1>1. \A p \in DOMAIN Providers : p \in Bindings /\ p \notin Fiber \X Keys
  BY ServicesAssumption DEF Bindings
<1>2. \A p \in DOMAIN Providers : Providers[p].by \in DOMAIN Resolve /\ Providers[p].key \in Keys
  BY ServicesAssumption
<1>3. QED
  BY <1>1, <1>2, ActiveNotRetired DEF ServicesInv, ServicesTypeOK, StackTypes

\* A root operation has no fiber's services in its hands.
LEMMA RootServices ==
    ASSUME ServicesInv, NEW p \in DOMAIN Providers, Provide(p) \/ Withdraw(p)
    PROVE  ServicesInv'
<1> DEFINE key == Providers[p].key
           by == Providers[p].by
           r == Resolve[by][key]
           rv == revived'
<1>1. /\ frames = <<>> /\ revived' = {} /\ stale' = stale
      /\ \/ Push(key, by, p, frames) /\ dropped' = dropped \ {p}
         \/ Pull(key, by, p, frames) /\ dropped' = dropped
      /\ live' \subseteq live \cup {p}
      /\ fiber_state' = fiber_state /\ own' = own /\ retired' = retired /\ broken' = broken
  <2>1. CASE Provide(p)
    <3>1. Push(key, by, p, frames)
      BY <2>1 DEF Provide, Idle
    <3>2. dropped' = dropped \ {p}
      BY <3>1 DEF Push
    <3>3. QED
      BY <2>1, <3>1, <3>2 DEF Provide, Idle
  <2>2. CASE Withdraw(p)
    <3>1. Pull(key, by, p, frames)
      BY <2>2 DEF Withdraw, Idle
    <3>2. QED
      BY <2>2, <3>1 DEF Withdraw, Idle
  <2>3. QED
    BY <2>1, <2>2
<1>2. /\ StackTypes /\ StoreInv(providers, store, frames) /\ StacksInv(providers, own, dropped)
      /\ \A f \in Fiber : fiber_state[f] = "ACTIVE" => f \notin retired
      /\ p \in Bindings /\ p \notin Fiber \X Keys /\ by \in DOMAIN Resolve /\ key \in Keys
  BY StackFacts
<1> HIDE DEF key, by
<1>3. FramesInv(frames, fiber_state, rv) /\ r \in Realms
  BY <1>1, <1>2, IdleFrames, RealmOf
<1>4. dropped' = dropped
  BY <1>1, <1>2 DEF StackTypes
<1> HIDE DEF rv
<1>5. /\ StackTypes' /\ (Grown(r, p) \/ Shrunk(r, p))
      /\ FramesInv(frames', fiber_state, rv) /\ StoreInv(providers', store', frames')
      /\ \A g : Busy(frames, g) => Busy(frames', g)
  <2>1. CASE Push(key, by, p, frames)
    BY <1>2, <1>3, <2>1, PushInv
  <2>2. CASE Pull(key, by, p, frames)
    BY <1>2, <1>3, <1>4, <2>2, PullInv
  <2>3. QED
    BY <1>1, <2>1, <2>2
<1> HIDE DEF r
<1>6. \A q \in Realms : ToSet(providers'[q]) \cap (Fiber \X Keys) = ToSet(providers[q]) \cap (Fiber \X Keys)
  BY <1>2, <1>3, <1>5 DEF Grown, Shrunk
<1>7. StacksInv(providers', own', dropped')
  <2> SUFFICES ASSUME NEW f \in Fiber, NEW k \in Keys
               PROVE  /\ \A q \in Realms : <<f, k>> \in ToSet(providers'[q]) => Resolve[f][k] = q /\ k \in ToSet(own[f])
                      /\ k \in ToSet(own[f]) => <<f, k>> \in ToSet(providers'[Resolve[f][k]]) \cup dropped
    BY <1>1, <1>4 DEF StacksInv
  <2>1. Resolve[f][k] \in Realms /\ <<f, k>> \in Fiber \X Keys
    BY FiberKeys, RealmOf
  <2>2. /\ \A q \in Realms : <<f, k>> \in ToSet(providers[q]) => Resolve[f][k] = q /\ k \in ToSet(own[f])
        /\ k \in ToSet(own[f]) => <<f, k>> \in ToSet(providers[Resolve[f][k]]) \cup dropped
    BY <1>2 DEF StacksInv
  <2>3. QED
    BY <1>6, <2>1, <2>2
<1>8. FibersInv(fiber_state', own', frames', retired')
  BY <1>1, <1>5, FiberKept DEF ServicesInv, FibersInv
<1>9. ServicesTypeOK'
  BY <1>1, <1>5 DEF ServicesInv, ServicesTypeOK, StackTypes
<1>10. QED
  BY <1>1, <1>5, <1>7, <1>8, <1>9 DEF ServicesInv, rv

\* What a fiber's own calls do to its stacks.
LEMMA OwnSequence ==
    ASSUME ServicesInv, NEW f \in Fiber
    PROVE  /\ own \in [Fiber -> Seq(Keys)] /\ own[f] \in Seq(Keys) /\ Len(own[f]) \in Nat
           /\ Gives[f] \in Seq(Keys) /\ Len(Gives[f]) \in Nat
           /\ Len(own[f]) <= Len(Gives[f]) /\ \A i \in 1 .. Len(own[f]) : own[f][i] = Gives[f][i]
<1>1. own \in [Fiber -> Seq(Keys)] /\ own[f] \in Seq(Keys) /\ Gives[f] \in Seq(Keys)
  BY FiberKeys DEF ServicesInv, ServicesTypeOK
<1>2. Len(own[f]) \in Nat /\ Len(Gives[f]) \in Nat
  BY <1>1, LenProperties
<1>3. QED
  BY <1>1, <1>2 DEF ServicesInv, FibersInv, FiberInv

LEMMA ApplyProvidesInv ==
    ASSUME ServicesInv, ApplyProvides
    PROVE  ServicesInv'
<1> DEFINE f == Top.fiber
           k == Gives[f][Len(own[f]) + 1]
           uid == <<f, k>>
           r == Resolve[f][k]
<1>1. /\ Top.op = "apply" /\ frames # <<>> /\ Len(own[f]) < Len(Gives[f])
      /\ own' = [own EXCEPT ![f] = Append(@, k)] /\ Push(k, f, uid, frames)
      /\ SameFibers /\ fiber_state' = fiber_state
  BY DEF ApplyProvides, Running
<1>2. f \in Fiber
  BY <1>1, TopFacts, FrameKinds DEF FiberFrame
<1>3. Handles(Top, f) /\ fiber_state[f] = "RELOADING" /\ Busy(frames, f)
  BY <1>1, TopFacts DEF Handles, FrameOK
<1> HIDE DEF f
<1>4. /\ own \in [Fiber -> Seq(Keys)] /\ own[f] \in Seq(Keys) /\ Len(own[f]) \in Nat
      /\ Gives[f] \in Seq(Keys) /\ Len(Gives[f]) \in Nat
      /\ Len(own[f]) <= Len(Gives[f]) /\ \A i \in 1 .. Len(own[f]) : own[f][i] = Gives[f][i]
  BY <1>2, OwnSequence
<1>5. k \in Keys /\ f \in DOMAIN Resolve
  <2>1. Len(own[f]) + 1 \in 1 .. Len(Gives[f])
    BY <1>1, <1>4
  <2>2. QED
    BY <1>2, <1>4, <2>1, ElementOfSeq, FiberKeys
<1>6. /\ StackTypes /\ StoreInv(providers, store, frames) /\ StacksInv(providers, own, dropped)
  BY StackFacts
<1>7. FramesInv(frames, fiber_state, revived)
  BY <1>1, TopFacts
<1>8. uid \in Bindings /\ r \in Realms
  BY <1>2, <1>5, RealmOf DEF Bindings
<1> HIDE DEF uid
<1>9. /\ StackTypes' /\ Grown(r, uid) /\ FramesInv(frames', fiber_state, revived)
      /\ StoreInv(providers', store', frames')
      /\ \A g : Busy(frames, g) => Busy(frames', g)
  BY <1>1, <1>5, <1>6, <1>7, <1>8, PushInv
<1>10. dropped' = dropped \ {uid}
  BY <1>1 DEF Push
<1> DEFINE ow == Append(own[f], k)
<1> HIDE DEF k, r
<1>11. /\ ow \in Seq(Keys) /\ ow # <<>> /\ ToSet(ow) = ToSet(own[f]) \cup {k}
       /\ Len(ow) = Len(own[f]) + 1 /\ \A i \in 1 .. Len(own[f]) : ow[i] = own[f][i]
       /\ ow[Len(own[f]) + 1] = k
  BY <1>4, <1>5, Appended, AppendProperties
<1> HIDE DEF ow
<1>12. own' \in [Fiber -> Seq(Keys)] /\ own'[f] = ow /\ \A g \in Fiber : g # f => own'[g] = own[g]
  BY <1>1, <1>2, <1>4, <1>11 DEF ow
<1>13. StacksInv(providers', own', dropped')
  <2> SUFFICES ASSUME NEW g \in Fiber, NEW l \in Keys
               PROVE  /\ \A q \in Realms : <<g, l>> \in ToSet(providers'[q]) => Resolve[g][l] = q /\ l \in ToSet(own'[g])
                      /\ l \in ToSet(own'[g]) => <<g, l>> \in ToSet(providers'[Resolve[g][l]]) \cup dropped'
    BY DEF StacksInv
  <2>1. /\ \A q \in Realms : <<g, l>> \in ToSet(providers[q]) => Resolve[g][l] = q /\ l \in ToSet(own[g])
        /\ l \in ToSet(own[g]) => <<g, l>> \in ToSet(providers[Resolve[g][l]]) \cup dropped
    BY <1>6 DEF StacksInv
  <2>2. Resolve[g][l] \in Realms
    BY FiberKeys, RealmOf
  <2>3. <<g, l>> = uid <=> g = f /\ l = k
    BY DEF uid
  <2>4. /\ \A q \in Realms : q # r => providers'[q] = providers[q]
        /\ ToSet(providers'[r]) = ToSet(providers[r]) \cup {uid}
    BY <1>9 DEF Grown
  <2>5. CASE g = f /\ l = k
    BY <1>11, <1>12, <2>1, <2>2, <2>3, <2>4, <2>5 DEF r
  <2>6. CASE ~ (g = f /\ l = k)
    <3>1. l \in ToSet(own'[g]) <=> l \in ToSet(own[g])
      BY <1>11, <1>12, <2>6
    <3>2. QED
      BY <1>10, <2>1, <2>2, <2>3, <2>4, <2>6, <3>1
  <2>7. QED
    BY <2>5, <2>6
<1>14. FibersInv(fiber_state', own', frames', retired')
  <2> SUFFICES ASSUME NEW g \in Fiber PROVE FiberInv(g, fiber_state'[g], own'[g], frames', retired')
    BY DEF FibersInv
  <2>1. FiberInv(g, fiber_state[g], own[g], frames, retired) /\ retired' = retired
    BY <1>1 DEF ServicesInv, FibersInv, SameFibers
  <2>2. CASE g = f
    <3>1. Busy(frames', f)
      BY <1>3, <1>9
    <3>2. Len(ow) <= Len(Gives[f])
      BY <1>1, <1>4, <1>11
    <3>3. ASSUME NEW i \in 1 .. Len(ow) PROVE ow[i] = Gives[f][i]
      <4>1. CASE i = Len(own[f]) + 1
        BY <1>11, <4>1 DEF k
      <4>2. CASE i \in 1 .. Len(own[f])
        BY <1>4, <1>11, <4>2
      <4>3. QED
        BY <1>4, <1>11, <4>1, <4>2
    <3>4. QED
      BY <1>1, <1>3, <1>12, <2>1, <2>2, <3>1, <3>2, <3>3 DEF FiberInv
  <2>3. CASE g # f
    BY <1>1, <1>9, <1>12, <2>1, <2>3, FiberKept
  <2>4. QED
    BY <2>2, <2>3
<1>15. ServicesTypeOK'
  BY <1>1, <1>9, <1>12 DEF ServicesInv, ServicesTypeOK, StackTypes, SameFibers
<1>16. QED
  BY <1>1, <1>9, <1>13, <1>14, <1>15 DEF ServicesInv, SameFibers

LEMMA UnwindNextInv ==
    ASSUME ServicesInv, UnwindNext
    PROVE  ServicesInv'
<1> DEFINE f == Top.fiber
           k == Last(own[f])
           ow == Front(own[f])
           uid == <<f, k>>
           r == Resolve[f][k]
<1>1. /\ Top.op = "dispose" /\ frames # <<>> /\ own[f] # <<>>
      /\ own' = [own EXCEPT ![f] = ow] /\ Pull(k, f, uid, frames)
      /\ SameFibers /\ fiber_state' = fiber_state /\ dropped' = dropped
  BY DEF UnwindNext, Running
<1>2. f \in Fiber
  BY <1>1, TopFacts, FrameKinds DEF FiberFrame
<1>3. Handles(Top, f) /\ fiber_state[f] \in {"UNLOADING", "FAILED"} /\ Busy(frames, f)
  BY <1>1, TopFacts DEF Handles, FrameOK
<1> HIDE DEF f
<1>4. /\ own \in [Fiber -> Seq(Keys)] /\ own[f] \in Seq(Keys) /\ Len(own[f]) \in Nat
      /\ Gives[f] \in Seq(Keys) /\ Len(Gives[f]) \in Nat
      /\ Len(own[f]) <= Len(Gives[f]) /\ \A i \in 1 .. Len(own[f]) : own[f][i] = Gives[f][i]
  BY <1>2, OwnSequence
<1>5. ow \in Seq(Keys) /\ k \in Keys /\ own[f] = Append(ow, k)
  BY <1>1, <1>4, Split
<1>6. /\ StackTypes /\ StoreInv(providers, store, frames) /\ StacksInv(providers, own, dropped)
      /\ \A g \in Fiber : fiber_state[g] = "ACTIVE" => g \notin retired
  BY StackFacts
<1>7. FramesInv(frames, fiber_state, revived)
  BY <1>1, TopFacts
<1>8. uid \in Bindings /\ r \in Realms /\ f \in DOMAIN Resolve
  BY <1>2, <1>5, RealmOf, FiberKeys DEF Bindings
<1> HIDE DEF uid, ow, k, r
<1>9. /\ StackTypes' /\ Shrunk(r, uid) /\ FramesInv(frames', fiber_state, revived)
      /\ StoreInv(providers', store', frames')
      /\ \A g : Busy(frames, g) => Busy(frames', g)
  BY <1>1, <1>5, <1>6, <1>7, <1>8, PullInv DEF r
<1>10. /\ ToSet(own[f]) = ToSet(ow) \cup {k} /\ Len(ow) \in Nat
       /\ Len(own[f]) = Len(ow) + 1 /\ \A i \in 1 .. Len(ow) : own[f][i] = ow[i]
       /\ own[f][Len(ow) + 1] = k
  BY <1>5, Appended, AppendProperties
<1>11. k \notin ToSet(ow)
  <2> SUFFICES ASSUME k \in ToSet(ow) PROVE FALSE
    OBVIOUS
  <2>1. DOMAIN ow = 1 .. Len(ow) /\ DOMAIN Gives[f] = 1 .. Len(Gives[f])
    BY <1>4, <1>5, LenProperties
  <2>2. PICK i \in 1 .. Len(ow) : ow[i] = k
    BY <2>1 DEF ToSet
  <2>3. /\ i \in DOMAIN Gives[f] /\ Len(ow) + 1 \in DOMAIN Gives[f] /\ i # Len(ow) + 1
        /\ Gives[f][i] = k /\ Gives[f][Len(ow) + 1] = k
    BY <1>4, <1>10, <2>1, <2>2
  <2>4. QED
    BY <1>2, <2>3, FiberKeys
<1>12. own' \in [Fiber -> Seq(Keys)] /\ own'[f] = ow /\ \A g \in Fiber : g # f => own'[g] = own[g]
  BY <1>1, <1>2, <1>4, <1>5
<1>13. StacksInv(providers', own', dropped')
  <2> SUFFICES ASSUME NEW g \in Fiber, NEW l \in Keys
               PROVE  /\ \A q \in Realms : <<g, l>> \in ToSet(providers'[q]) => Resolve[g][l] = q /\ l \in ToSet(own'[g])
                      /\ l \in ToSet(own'[g]) => <<g, l>> \in ToSet(providers'[Resolve[g][l]]) \cup dropped'
    BY DEF StacksInv
  <2>1. /\ \A q \in Realms : <<g, l>> \in ToSet(providers[q]) => Resolve[g][l] = q /\ l \in ToSet(own[g])
        /\ l \in ToSet(own[g]) => <<g, l>> \in ToSet(providers[Resolve[g][l]]) \cup dropped
    BY <1>6 DEF StacksInv
  <2>2. Resolve[g][l] \in Realms
    BY FiberKeys, RealmOf
  <2>3. <<g, l>> = uid <=> g = f /\ l = k
    BY DEF uid
  <2>4. /\ \A q \in Realms : q # r => providers'[q] = providers[q]
        /\ ToSet(providers'[r]) = ToSet(providers[r]) \ {uid}
    BY <1>9 DEF Shrunk
  <2>5. CASE g = f /\ l = k
    BY <1>11, <1>12, <2>1, <2>2, <2>3, <2>4, <2>5 DEF r
  <2>6. CASE ~ (g = f /\ l = k)
    <3>1. l \in ToSet(own'[g]) <=> l \in ToSet(own[g])
      BY <1>10, <1>12, <2>6
    <3>2. QED
      BY <1>1, <2>1, <2>2, <2>3, <2>4, <2>6, <3>1
  <2>7. QED
    BY <2>5, <2>6
<1>14. FibersInv(fiber_state', own', frames', retired')
  <2> SUFFICES ASSUME NEW g \in Fiber PROVE FiberInv(g, fiber_state'[g], own'[g], frames', retired')
    BY DEF FibersInv
  <2>1. FiberInv(g, fiber_state[g], own[g], frames, retired) /\ retired' = retired
    BY <1>1 DEF ServicesInv, FibersInv, SameFibers
  <2>2. CASE g = f
    <3>1. Busy(frames', f)
      BY <1>3, <1>9
    <3>2. Len(ow) <= Len(Gives[f]) /\ \A i \in 1 .. Len(ow) : ow[i] = Gives[f][i]
      BY <1>4, <1>10
    <3>3. QED
      BY <1>1, <1>3, <1>12, <2>1, <2>2, <3>1, <3>2 DEF FiberInv
  <2>3. CASE g # f
    BY <1>1, <1>9, <1>12, <2>1, <2>3, FiberKept
  <2>4. QED
    BY <2>2, <2>3
<1>15. ServicesTypeOK'
  BY <1>1, <1>9, <1>12 DEF ServicesInv, ServicesTypeOK, StackTypes, SameFibers
<1>16. QED
  BY <1>1, <1>9, <1>13, <1>14, <1>15 DEF ServicesInv, SameFibers

LEMMA DropServiceInv ==
    ASSUME ServicesInv, DropService
    PROVE  ServicesInv'
<1> DEFINE key == Top.key
           r == Resolve[Top.by][key]
           n == Notify(key, TRUE)
<1>1. /\ Top.op = "order" /\ frames # <<>> /\ frames' = Append(Outer, n)
      /\ providers' = [providers EXCEPT ![r] = <<>>]
      /\ store' = [store EXCEPT ![r] = NoValue]
      /\ dropped' = dropped \cup (ToSet(providers[r]) \cap (Fiber \X Keys))
      /\ SameFibers /\ fiber_state' = fiber_state /\ own' = own
  BY DEF DropService, Ordered, Running
<1>2. key \in Keys /\ Top.by \in DOMAIN Resolve
  BY <1>1, TopFacts, FrameKinds DEF OrderFrame
<1>3. r \in Realms
  BY <1>2, RealmOf
<1>4. n \in Frame /\ n.op = "notify"
  BY <1>2, Notifies, FrameKinds
<1> HIDE DEF n
<1>5. /\ FramesInv(Outer, fiber_state, revived) /\ Outer \in Seq(Frame)
      /\ ToSet(frames) = ToSet(Outer) \cup {Top}
      /\ \A g : Busy(frames, g) <=> Busy(Outer, g) \/ Handles(Top, g)
  BY <1>1, TopFacts
<1>6. FramesInv(frames', fiber_state, revived)
  <2>1. FrameOK(n, fiber_state, revived) /\ \A b \in ToSet(Outer) : Apart(b, n)
    BY <1>4 DEF FrameOK, Apart, Handles
  <2>2. QED
    BY <1>1, <1>4, <1>5, <2>1, FramesPushed
<1>7. \A g \in Fiber : Busy(frames, g) => Busy(frames', g)
  <2> SUFFICES ASSUME NEW g \in Fiber, Busy(frames, g) PROVE Busy(frames', g)
    OBVIOUS
  <2>1. Busy(Outer, g)
    BY <1>1, <1>5 DEF Handles
  <2>2. QED
    BY <1>1, <1>4, <1>5, <2>1, BusyAppended
<1>8. ToSet(frames') = ToSet(Outer) \cup {n}
  BY <1>1, <1>4, <1>5, Appended
<1>9. StackTypes /\ StoreInv(providers, store, frames) /\ StacksInv(providers, own, dropped)
  BY StackFacts
<1> HIDE DEF r
<1>10. /\ providers' \in [Realms -> Seq(Bindings)] /\ providers'[r] = <<>>
       /\ \A q \in Realms : q # r => providers'[q] = providers[q]
  BY <1>1, <1>3, <1>9, EmptySeq DEF StackTypes
<1>11. /\ store' \in [Realms -> Bindings \cup {NoValue}] /\ store'[r] = NoValue
       /\ \A q \in Realms : q # r => store'[q] = store[q]
  BY <1>1, <1>3, <1>9 DEF StackTypes
<1>12. StoreInv(providers', store', frames')
  <2> SUFFICES ASSUME NEW q \in Realms
               PROVE  \/ store'[q] = Shown(providers'[q])
                      \/ \E c \in ToSet(frames') : c.op = "order" /\ Resolve[c.by][c.key] = q
    BY DEF StoreInv
  <2>1. CASE q = r
    BY <1>10, <1>11, <2>1 DEF Shown
  <2>2. CASE q # r
    <3>1. Resolve[Top.by][Top.key] # q
      BY <2>2 DEF r
    <3>2. \/ store[q] = Shown(providers[q])
          \/ \E c \in ToSet(frames) : c.op = "order" /\ Resolve[c.by][c.key] = q
      BY <1>9 DEF StoreInv
    <3>3. QED
      BY <1>5, <1>8, <1>10, <1>11, <2>2, <3>1, <3>2
  <2>3. QED
    BY <2>1, <2>2
<1>13. StacksInv(providers', own', dropped')
  <2> SUFFICES ASSUME NEW g \in Fiber, NEW l \in Keys
               PROVE  /\ \A q \in Realms : <<g, l>> \in ToSet(providers'[q]) => Resolve[g][l] = q /\ l \in ToSet(own'[g])
                      /\ l \in ToSet(own'[g]) => <<g, l>> \in ToSet(providers'[Resolve[g][l]]) \cup dropped'
    BY DEF StacksInv
  <2>1. /\ \A q \in Realms : <<g, l>> \in ToSet(providers[q]) => Resolve[g][l] = q /\ l \in ToSet(own[g])
        /\ l \in ToSet(own[g]) => <<g, l>> \in ToSet(providers[Resolve[g][l]]) \cup dropped
    BY <1>9 DEF StacksInv
  <2>2. Resolve[g][l] \in Realms /\ <<g, l>> \in Fiber \X Keys
    BY FiberKeys, RealmOf
  <2>3. ToSet(<<>>) = {}
    BY DEF ToSet
  <2>4. QED
    BY <1>1, <1>10, <2>1, <2>2, <2>3
<1>14. FibersInv(fiber_state', own', frames', retired')
  BY <1>1, <1>7, FiberKept DEF ServicesInv, FibersInv, SameFibers
<1>15. ServicesTypeOK'
  <2>1. frames' \in Seq(Frame)
    BY <1>6 DEF FramesInv
  <2>2. dropped' \subseteq Fiber \X Keys
    BY <1>1, <1>9 DEF StackTypes
  <2>3. QED
    BY <1>1, <1>10, <1>11, <2>1, <2>2 DEF ServicesInv, ServicesTypeOK, SameFibers
<1>16. QED
  BY <1>1, <1>6, <1>12, <1>13, <1>14, <1>15 DEF ServicesInv, SameFibers

LEMMA ServicesStart ==
    ASSUME ServicesInit
    PROVE  ServicesInv
<1>1. ToSet(<<>>) = {} /\ <<>> \in Seq(Bindings) /\ <<>> \in Seq(Keys) /\ <<>> \in Seq(Frame)
  BY EmptySeq DEF ToSet
<1>2. ServicesTypeOK
  BY <1>1 DEF ServicesInit, ServicesTypeOK
<1>3. FramesInv(frames, fiber_state, revived)
  BY NoFrames DEF ServicesInit
<1>4. FibersInv(fiber_state, own, frames, retired)
  <2> SUFFICES ASSUME NEW f \in Fiber PROVE FiberInv(f, fiber_state[f], own[f], frames, retired)
    BY DEF FibersInv
  <2>1. fiber_state[f] = "INACTIVE" /\ own[f] = <<>> /\ Len(own[f]) = 0
    BY EmptySeq DEF ServicesInit
  <2>2. Len(Gives[f]) \in Nat
    BY FiberKeys, LenProperties
  <2>3. QED
    BY <2>1, <2>2 DEF FiberInv
<1>5. StacksInv(providers, own, dropped)
  <2> SUFFICES ASSUME NEW f \in Fiber, NEW k \in Keys
               PROVE  /\ \A r \in Realms : <<f, k>> \notin ToSet(providers[r])
                      /\ k \notin ToSet(own[f])
    BY DEF StacksInv
  <2>1. QED
    BY <1>1 DEF ServicesInit
<1>6. StoreInv(providers, store, frames)
  BY DEF StoreInv, Shown, ServicesInit
<1>7. QED
  BY <1>2, <1>3, <1>4, <1>5, <1>6 DEF ServicesInv

LEMMA ServicesStep ==
    ASSUME ServicesInv, [ServicesNext]_servicesVars
    PROVE  ServicesInv'
<1>1. CASE \E p \in DOMAIN Providers : Provide(p) \/ Withdraw(p)
  BY <1>1, RootServices
<1>2. CASE \E f \in Fiber : ActivateFiber(f) \/ DeactivateFiber(f) \/ Retire(f) \/ Break(f)
  BY <1>2, FiberOperations
<1>3. CASE NotifyNext \/ NotifyEnds \/ Visit \/ VisitReturns \/ DeactivateNext
  BY <1>3, NotifyNextInv, NotifyEndsInv, VisitsInv, DeactivateNextInv
<1>4. CASE ApplyProvides \/ ApplyFails \/ ApplyReturns
  BY <1>4, ApplyProvidesInv, ApplyFailsInv, ApplyReturnsInv
<1>5. CASE UnwindNext \/ UnwindEnds \/ DropService
  BY <1>5, UnwindNextInv, UnwindEndsInv, DropServiceInv
<1>6. CASE UNCHANGED servicesVars
  BY <1>6 DEF servicesVars, ServicesInv, ServicesTypeOK, FramesInv, FrameOK, Apart, Handles,
              FibersInv, FiberInv, Busy, StacksInv, StoreInv
<1>7. QED
  BY <1>1, <1>2, <1>3, <1>4, <1>5, <1>6 DEF ServicesNext

LEMMA ServicesAlways == ServicesSpec => []ServicesInv
<1>1. ServicesInv /\ [ServicesNext]_servicesVars => ServicesInv'
  BY ServicesStep
<1>2. QED
  BY <1>1, ServicesStart, PTL DEF ServicesSpec

\* Providers, store, fibers, calls and histories keep their types.
THEOREM ServicesTypesHold == ServicesSpec => []ServicesTypeOK
<1>1. ServicesInv => ServicesTypeOK
  BY DEF ServicesInv
<1>2. QED
  BY <1>1, ServicesAlways, PTL

\* Between operations the store shows the tops of the provider stacks, and the
\* services on them are those of the active fibers, but for the discarded ones.
THEOREM ServicesAreOfActive == ServicesSpec => []ServicesOfActive
<1>1. ServicesInv => ServicesOfActive
  <2> SUFFICES ASSUME ServicesInv, frames = <<>> PROVE ServicesOfActive
    BY DEF ServicesOfActive
  <2>1. StoreInv(providers, store, frames) /\ StacksInv(providers, own, dropped) /\ \A g : ~ Busy(frames, g)
    BY IdleFrames DEF ServicesInv
  <2>2. \A r \in Realms : store[r] = IF providers[r] = <<>> THEN NoValue ELSE Last(providers[r])
    BY <2>1 DEF StoreInv, Shown, ToSet
  <2>3. ASSUME NEW f \in Fiber, NEW k \in ToSet(Gives[f])
        PROVE  /\ OnStack(f, k) => fiber_state[f] = "ACTIVE"
               /\ fiber_state[f] = "ACTIVE" => OnStack(f, k) \/ <<f, k>> \in dropped
    <3>1. k \in Keys /\ Resolve[f][k] \in Realms
      BY FiberKeys, SetOfSeq, RealmOf
    <3>2. /\ OnStack(f, k) => k \in ToSet(own[f])
          /\ k \in ToSet(own[f]) => OnStack(f, k) \/ <<f, k>> \in dropped
      BY <2>1, <3>1 DEF StacksInv, OnStack
    <3>3. FiberInv(f, fiber_state[f], own[f], frames, retired)
      BY DEF ServicesInv, FibersInv
    <3>4. k \in ToSet(own[f]) => fiber_state[f] = "ACTIVE"
      BY <2>1, <3>3 DEF FiberInv, ToSet
    <3>5. fiber_state[f] = "ACTIVE" => k \in ToSet(own[f])
      <4>1. /\ own[f] \in Seq(Keys) /\ Gives[f] \in Seq(Keys)
            /\ \A i \in 1 .. Len(own[f]) : own[f][i] = Gives[f][i]
        BY OwnSequence
      <4>2. DOMAIN own[f] = 1 .. Len(own[f]) /\ DOMAIN Gives[f] = 1 .. Len(Gives[f])
        BY <4>1, LenProperties
      <4>3. fiber_state[f] = "ACTIVE" => Len(own[f]) = Len(Gives[f])
        BY <3>3 DEF FiberInv
      <4>4. QED
        BY <4>1, <4>2, <4>3 DEF ToSet
    <3>6. QED
      BY <3>2, <3>4, <3>5
  <2>4. QED
    BY <2>2, <2>3 DEF ServicesOfActive
<1>2. QED
  BY <1>1, ServicesAlways, PTL

-----------------------------------------------------------------------------
(* Active fibers find their dependencies *)

\* No two keys resolve to one realm, as they do when isolate is given no name.
KeysApart ==
    \A c, d \in DOMAIN Resolve : \A k, l \in Keys : Resolve[c][k] = Resolve[d][l] => k = l

LEMMA SatisfiedKept ==
    ASSUME \A q \in Realms : store[q] # NoValue => store'[q] # NoValue
    PROVE  \A f \in Fiber : Satisfied(f) => Satisfied(f)'
<1> SUFFICES ASSUME NEW f \in Fiber, Satisfied(f) PROVE Satisfied(f)'
  OBVIOUS
<1>1. \A k \in Needs[f] : Resolve[f][k] \in Realms
  BY FiberKeys, RealmOf
<1>2. QED
  BY <1>1 DEF Satisfied

LEMMA PushSatisfies ==
    ASSUME ServicesInv, NEW key, NEW by, NEW uid \in Bindings, NEW outer, Push(key, by, uid, outer)
    PROVE  \A f \in Fiber : Satisfied(f) => Satisfied(f)'
<1>1. store' = [store EXCEPT ![Resolve[by][key]] = uid] /\ store \in [Realms -> Bindings \cup {NoValue}]
  BY DEF Push, ServicesInv, ServicesTypeOK
<1>2. uid # NoValue
  BY ServicesAssumption
<1>3. \A q \in Realms : store[q] # NoValue => store'[q] # NoValue
  BY <1>1, <1>2
<1>4. QED
  BY <1>3, SatisfiedKept

\* What keeps the chase: nobody new is active, but for the stale, a dependency
\* goes only where it is announced, and an announcement stays until it is met.
LEMMA ChaseKept ==
    ASSUME ChaseInv,
           \A f \in Fiber : fiber_state'[f] = "ACTIVE" /\ f \notin stale' =>
               \/ fiber_state[f] = "ACTIVE" /\ f \notin stale
               \/ Satisfied(f)',
           \A f \in Fiber : Satisfied(f) => Satisfied(f)',
           \A f \in Fiber : fiber_state'[f] = "ACTIVE" /\ f \in revived /\ Chased(f, frames)
                                => f \in revived' /\ Chased(f, frames')
    PROVE  ChaseInv'
<1> SUFFICES ASSUME NEW f \in Fiber, fiber_state'[f] = "ACTIVE", f \notin stale'
             PROVE  Satisfied(f)' \/ (f \in revived' /\ Chased(f, frames'))
  BY DEF ChaseInv
<1>1. QED
  BY DEF ChaseInv

LEMMA NobodyChased ==
    ASSUME NEW f
    PROVE  ~ Chased(f, <<>>)
BY DEF Chased, ToSet

LEMMA ChasedOn ==
    ASSUME NEW f, NEW cs, NEW ds, Chased(f, cs),
           \A c \in ToSet(cs) : c.op = "notify" => c \in ToSet(ds)
    PROVE  Chased(f, ds)
BY DEF Chased

LEMMA AppendedAny ==
    ASSUME NEW S, NEW s \in Seq(S), NEW x
    PROVE  Append(s, x) \in Seq(S \cup {x}) /\ ToSet(Append(s, x)) = ToSet(s) \cup {x}
<1> DEFINE T == S \cup {x}
<1>1. s \in Seq(T)
  <2> DEFINE n == Len(s)
  <2>1. n \in Nat /\ s \in [1 .. n -> S]
    BY LenProperties
  <2>2. s \in [1 .. n -> T]
    BY <2>1
  <2> HIDE DEF T, n
  <2>3. Seq(T) = UNION {[1 .. m -> T] : m \in Nat}
    BY SeqDef
  <2>4. QED
    BY <2>1, <2>2, <2>3, Zenon
<1>2. x \in T
  OBVIOUS
<1> HIDE DEF T
<1>3. Append(s, x) \in Seq(T) /\ ToSet(Append(s, x)) = ToSet(s) \cup {x}
  BY <1>1, <1>2, Appended
<1>4. QED
  BY <1>3 DEF T

LEMMA SameSatisfied ==
    ASSUME store' = store
    PROVE  \A f \in Fiber : Satisfied(f) => Satisfied(f)'
BY DEF Satisfied

LEMMA PullSatisfies ==
    ASSUME ServicesInv, NEW key \in Keys, NEW by \in DOMAIN Resolve, NEW uid \in Bindings, NEW rev,
           FramesInv(frames, fiber_state, rev), Pull(key, by, uid, frames), dropped' = dropped
    PROVE  \A f \in Fiber : Satisfied(f) => Satisfied(f)'
<1>1. store' = store \/ (\A f \in Fiber : Satisfied(f) => Satisfied(f)')
  BY StackFacts, PullInv
<1>2. QED
  BY <1>1, SameSatisfied

LEMMA RootChase ==
    ASSUME ServicesInv, ChaseInv,
           \/ \E p \in DOMAIN Providers : Provide(p) \/ Withdraw(p)
           \/ \E f \in Fiber : ActivateFiber(f) \/ DeactivateFiber(f) \/ Retire(f) \/ Break(f)
    PROVE  ChaseInv'
<1>1. frames = <<>> /\ stale' = stale
  BY DEF Provide, Withdraw, ActivateFiber, DeactivateFiber, Retire, Break, Idle
<1>2. \A f \in Fiber : ~ Chased(f, frames)
  BY <1>1, NobodyChased
<1>3. \A f \in Fiber : fiber_state'[f] = "ACTIVE" => fiber_state[f] = "ACTIVE"
  <2> SUFFICES ASSUME NEW g \in Fiber PROVE fiber_state'[g] = "ACTIVE" => fiber_state[g] = "ACTIVE"
    OBVIOUS
  <2>1. fiber_state \in [Fiber -> States]
    BY DEF ServicesInv, ServicesTypeOK, States
  <2>2. \/ fiber_state' = fiber_state
        \/ \E f \in Fiber : fiber_state' = [fiber_state EXCEPT ![f] = "RELOADING"]
        \/ \E f \in Fiber : fiber_state' = [fiber_state EXCEPT ![f] = "UNLOADING"]
    BY DEF Provide, Withdraw, ActivateFiber, DeactivateFiber, Retire, Break, Activate, Deactivate
  <2>3. QED
    BY <2>1, <2>2
<1>4. \A f \in Fiber : Satisfied(f) => Satisfied(f)'
  <2>1. CASE \E p \in DOMAIN Providers : Provide(p) \/ Withdraw(p)
    <3>1. PICK p \in DOMAIN Providers : Provide(p) \/ Withdraw(p)
      BY <2>1
    <3>2. p \in Bindings /\ Providers[p].by \in DOMAIN Resolve /\ Providers[p].key \in Keys
      BY StackFacts
    <3>3. CASE Provide(p)
      BY <3>2, <3>3, PushSatisfies DEF Provide
    <3>4. CASE Withdraw(p)
      <4>1. Pull(Providers[p].key, Providers[p].by, p, frames) /\ dropped' = dropped
        BY <1>1, <3>4 DEF Withdraw
      <4>2. FramesInv(frames, fiber_state, revived)
        BY DEF ServicesInv
      <4>3. QED
        BY <3>2, <4>1, <4>2, PullSatisfies
    <3>5. QED
      BY <3>1, <3>3, <3>4
  <2>2. CASE \E f \in Fiber : ActivateFiber(f) \/ DeactivateFiber(f) \/ Retire(f) \/ Break(f)
    BY <2>2, SameSatisfied DEF ActivateFiber, DeactivateFiber, Retire, Break
  <2>3. QED
    BY <2>1, <2>2
<1>5. QED
  BY <1>1, <1>2, <1>3, <1>4, ChaseKept

\* An announced fiber is stopped when its turn comes.
LEMMA NotifyNextChase ==
    ASSUME ServicesInv, ChaseInv, NotifyNext
    PROVE  ChaseInv'
<1> DEFINE i == Earliest(Top.due)
           f == Fibers[i]
           u == [Top EXCEPT !.due = Top.due \ {i}]
           o == Append(Outer, u)
<1>1. /\ Top.op = "notify" /\ frames # <<>> /\ Top.due # {}
      /\ \/ fiber_state[f] = "ACTIVE" /\ Deactivate(f, o)
         \/ fiber_state[f] # "ACTIVE" /\ Activate(f, o)
         \/ fiber_state' = fiber_state /\ frames' = o
      /\ Top.withdrawn /\ f \notin retired /\ fiber_state[f] = "ACTIVE" => Deactivate(f, o)
      /\ store' = store /\ stale' = stale /\ revived' = revived
  BY DEF NotifyNext, Running, SameServices, SameFibers
<1>2. Top \in NotifyFrame /\ Top.due \subseteq Slots
  BY <1>1, TopFacts, FrameKinds DEF NotifyFrame
<1>3. i \in Slots /\ f \in Fiber
  BY <1>1, <1>2, EarliestIn, SlotsAreNumbers, SlotFiber
<1>4. u \in Frame /\ u.op = "notify" /\ u.withdrawn = Top.withdrawn /\ u.due = Top.due \ {i}
  <2>1. Top.due \ {i} \in SUBSET Slots
    BY <1>2
  <2>2. QED
    BY <1>2, <2>1, Lessened, FrameKinds
<1> HIDE DEF u
<1>5. Outer \in Seq(Frame) /\ ToSet(frames) = ToSet(Outer) \cup {Top}
  BY <1>1, TopFacts
<1>6. ToSet(o) = ToSet(Outer) \cup {u} /\ o \in Seq(Frame)
  BY <1>4, <1>5, Appended
<1> HIDE DEF o
<1>7. ToSet(o) \subseteq ToSet(frames')
  <2>1. ASSUME NEW c PROVE ToSet(o) \subseteq ToSet(Append(o, c))
    <3>1. ToSet(Append(o, c)) = ToSet(o) \cup {c}
      BY <1>6, AppendedAny
    <3>2. QED
      BY <3>1
  <2>2. \/ frames' = o
        \/ frames' = Append(o, [op |-> "apply", fiber |-> f])
        \/ frames' = Append(o, [op |-> "dispose", fiber |-> f])
    BY <1>1 DEF Activate, Deactivate
  <2>3. QED
    BY <2>1, <2>2
<1> HIDE DEF f
<1>8. fiber_state \in [Fiber -> States]
  BY DEF ServicesInv, ServicesTypeOK, States
<1>9. \A g \in Fiber : fiber_state'[g] = "ACTIVE" => fiber_state[g] = "ACTIVE"
  BY <1>1, <1>3, <1>8 DEF Activate, Deactivate
<1>10. ASSUME NEW g \in Fiber, fiber_state'[g] = "ACTIVE", Chased(g, frames)
       PROVE  Chased(g, frames')
  <2>1. PICK c \in ToSet(frames) : c.op = "notify" /\ c.withdrawn /\ \E j \in c.due : Fibers[j] = g
    BY <1>10 DEF Chased
  <2>2. CASE c \in ToSet(Outer)
    BY <1>6, <1>7, <2>1, <2>2 DEF Chased
  <2>3. CASE c = Top
    <3>1. PICK j \in Top.due : Fibers[j] = g
      BY <2>1, <2>3
    <3>2. g # f
      <4> SUFFICES ASSUME g = f PROVE FALSE
        OBVIOUS
      <4>1. fiber_state[f] = "ACTIVE" /\ f \notin retired
        BY <1>3, <1>9, <1>10, ActiveNotRetired
      <4>2. Deactivate(f, o)
        BY <1>1, <2>1, <2>3, <4>1 DEF f, o
      <4>3. QED
        BY <1>3, <1>8, <1>10, <4>1, <4>2 DEF Deactivate
    <3>3. j \in u.due
      BY <1>4, <3>1, <3>2 DEF f
    <3>4. u \in ToSet(frames') /\ u.op = "notify" /\ u.withdrawn
      BY <1>4, <1>6, <1>7, <2>1, <2>3
    <3>5. QED
      BY <3>1, <3>3, <3>4 DEF Chased
  <2>4. QED
    BY <1>5, <2>2, <2>3
<1>11. \A g \in Fiber : Satisfied(g) => Satisfied(g)'
  BY <1>1, SameSatisfied
<1>12. QED
  BY <1>1, <1>9, <1>10, <1>11, ChaseKept

\* The steps of the innermost call but NotifyNext and DropService keep the
\* announcements, and take no dependency away.
LEMMA InnerChase ==
    ASSUME ServicesInv, ChaseInv,
           \/ NotifyEnds \/ ApplyProvides \/ ApplyFails \/ ApplyReturns \/ UnwindNext \/ UnwindEnds
           \/ Visit \/ VisitReturns \/ DeactivateNext
    PROVE  ChaseInv'
<1>1. frames # <<>> /\ (Top.op = "notify" => NotifyEnds)
  BY DEF NotifyEnds, ApplyProvides, ApplyFails, ApplyReturns, UnwindNext, UnwindEnds, Visit,
         VisitReturns, DeactivateNext, Ordered, Running
<1>2. /\ frames \in Seq(Frame) /\ Outer \in Seq(Frame) /\ ToSet(frames) = ToSet(Outer) \cup {Top}
      /\ FramesInv(frames, fiber_state, revived)
  BY <1>1, TopFacts DEF FramesInv
<1>3. fiber_state \in [Fiber -> States]
  BY DEF ServicesInv, ServicesTypeOK, States
<1>4. ToSet(Outer) \subseteq ToSet(frames')
  <2>1. CASE NotifyEnds \/ ApplyReturns \/ UnwindEnds
    BY <2>1 DEF NotifyEnds, ApplyReturns, UnwindEnds
  <2>2. CASE ApplyProvides \/ UnwindNext
    <3>1. PICK c : frames' = Append(frames, c)
      BY <2>2 DEF ApplyProvides, UnwindNext, Push, Pull
    <3>2. ToSet(Append(frames, c)) = ToSet(frames) \cup {c}
      BY <1>2, AppendedAny
    <3>3. QED
      BY <1>2, <3>1, <3>2
  <2>3. CASE ApplyFails \/ Visit \/ VisitReturns
    <3>1. PICK c : frames' = Append(Outer, c)
      BY <2>3 DEF ApplyFails, Visit, VisitReturns
    <3>2. ToSet(Append(Outer, c)) = ToSet(Outer) \cup {c}
      BY <1>2, AppendedAny
    <3>3. QED
      BY <1>2, <3>1, <3>2
  <2>4. CASE DeactivateNext
    <3>1. PICK c : frames' = Append(Outer, c) \/ \E d : frames' = Append(Append(Outer, c), d)
      BY <2>4 DEF DeactivateNext, Deactivate
    <3>2. Append(Outer, c) \in Seq(Frame \cup {c}) /\ ToSet(Append(Outer, c)) = ToSet(Outer) \cup {c}
      BY <1>2, AppendedAny
    <3> DEFINE a == Append(Outer, c)
               S == Frame \cup {c}
    <3>3. a \in Seq(S)
      BY <3>2
    <3> HIDE DEF S, a
    <3>4. ASSUME NEW d PROVE ToSet(Append(a, d)) = ToSet(a) \cup {d}
      BY <3>3, AppendedAny
    <3>5. QED
      BY <3>1, <3>2, <3>4 DEF a
  <2>5. QED
    BY <2>1, <2>2, <2>3, <2>4
<1>5. ASSUME NEW g, Chased(g, frames) PROVE Chased(g, frames')
  <2>1. PICK c \in ToSet(frames) : c.op = "notify" /\ c.withdrawn /\ \E j \in c.due : Fibers[j] = g
    BY <1>5 DEF Chased
  <2>2. c # Top
    BY <1>1, <2>1 DEF NotifyEnds
  <2>3. QED
    BY <1>2, <1>4, <2>1, <2>2 DEF Chased
<1>6. \A g \in Fiber : Satisfied(g) => Satisfied(g)'
  <2>1. CASE ApplyProvides
    <3> DEFINE f == Top.fiber
               k == Gives[f][Len(own[f]) + 1]
    <3>1. Push(k, f, <<f, k>>, frames) /\ Top.op = "apply" /\ Len(own[f]) < Len(Gives[f])
      BY <2>1 DEF ApplyProvides, Running
    <3>2. f \in Fiber
      BY <1>1, <3>1, TopFacts, FrameKinds DEF FiberFrame
    <3> HIDE DEF f
    <3>3. Len(own[f]) + 1 \in 1 .. Len(Gives[f]) /\ Gives[f] \in Seq(Keys)
      BY <3>1, <3>2, OwnSequence
    <3>4. k \in Keys
      BY <3>3, ElementOfSeq
    <3>5. <<f, k>> \in Bindings
      BY <3>2, <3>4 DEF Bindings
    <3>6. QED
      BY <3>1, <3>5, PushSatisfies
  <2>2. CASE UnwindNext
    <3> DEFINE f == Top.fiber
               k == Last(own[f])
    <3>1. Pull(k, f, <<f, k>>, frames) /\ Top.op = "dispose" /\ own[f] # <<>> /\ dropped' = dropped
      BY <2>2 DEF UnwindNext, Running
    <3>2. f \in Fiber
      BY <1>1, <3>1, TopFacts, FrameKinds DEF FiberFrame
    <3> HIDE DEF f
    <3>3. k \in Keys /\ f \in DOMAIN Resolve
      BY <3>1, <3>2, OwnSequence, Split, FiberKeys
    <3>4. <<f, k>> \in Bindings
      BY <3>2, <3>3 DEF Bindings
    <3>5. QED
      BY <1>2, <3>1, <3>3, <3>4, PullSatisfies
  <2>3. CASE store' = store
    BY <2>3, SameSatisfied
  <2>4. QED
    BY <2>1, <2>2, <2>3 DEF NotifyEnds, ApplyFails, ApplyReturns, UnwindEnds, Visit,
                            VisitReturns, DeactivateNext, SameServices
<1>7. ASSUME NEW g \in Fiber, fiber_state'[g] = "ACTIVE", g \notin stale'
      PROVE  (fiber_state[g] = "ACTIVE" /\ g \notin stale) \/ Satisfied(g)'
  <2>1. CASE ApplyReturns
    <3>1. /\ fiber_state' = [fiber_state EXCEPT ![Top.fiber] = "ACTIVE"]
          /\ stale' = IF Satisfied(Top.fiber) THEN stale \ {Top.fiber} ELSE stale \cup {Top.fiber}
      BY <2>1 DEF ApplyReturns
    <3>2. CASE g = Top.fiber
      BY <1>6, <1>7, <3>1, <3>2
    <3>3. CASE g # Top.fiber
      BY <1>3, <1>7, <3>1, <3>3
    <3>4. QED
      BY <3>2, <3>3
  <2>2. CASE ~ ApplyReturns
    <3>1. stale' = stale
      BY <2>2 DEF NotifyEnds, ApplyProvides, ApplyFails, UnwindNext, UnwindEnds, Visit,
                  VisitReturns, DeactivateNext, SameFibers
    <3>2. \/ fiber_state' = fiber_state
          \/ \E f, x : x # "ACTIVE" /\ fiber_state' = [fiber_state EXCEPT ![f] = x]
          \/ \E f : fiber_state' = [fiber_state EXCEPT ![f] = IF @ = "FAILED" THEN @ ELSE "INACTIVE"]
      <4>1. CASE ApplyFails
        BY <4>1 DEF ApplyFails
      <4>2. CASE UnwindEnds
        BY <4>2 DEF UnwindEnds
      <4>3. CASE DeactivateNext
        BY <4>3 DEF DeactivateNext, Deactivate
      <4>4. CASE NotifyEnds \/ ApplyProvides \/ UnwindNext \/ Visit \/ VisitReturns
        BY <4>4 DEF NotifyEnds, ApplyProvides, UnwindNext, Visit, VisitReturns
      <4>5. QED
        BY <2>2, <4>1, <4>2, <4>3, <4>4
    <3>3. QED
      BY <1>3, <1>7, <3>1, <3>2
  <2>3. QED
    BY <2>1, <2>2
<1>8. revived \subseteq revived'
  BY DEF NotifyEnds, ApplyProvides, ApplyFails, ApplyReturns, UnwindNext, UnwindEnds, Visit,
         VisitReturns, DeactivateNext, SameFibers
<1>9. QED
  BY <1>5, <1>6, <1>7, <1>8, ChaseKept

\* A withdrawal has stopped who was active when it began; who came back since
\* is on the list of the notification that follows.
LEMMA DropServiceChase ==
    ASSUME ServicesInv, ChaseInv, KeysApart, DropService
    PROVE  ChaseInv'
<1> DEFINE r == Resolve[Top.by][Top.key]
           n == Notify(Top.key, TRUE)
<1>1. /\ Top.op = "order" /\ frames # <<>> /\ frames' = Append(Outer, n)
      /\ Reached = {} /\ Top.path = <<>> /\ Top.order = <<>>
      /\ store' = [store EXCEPT ![r] = NoValue]
      /\ fiber_state' = fiber_state /\ stale' = stale /\ revived' = revived
  BY DEF DropService, Ordered, Running, SameFibers
<1>2. Top.key \in Keys /\ Top.by \in DOMAIN Resolve
  BY <1>1, TopFacts, FrameKinds DEF OrderFrame
<1>3. n.op = "notify" /\ n.withdrawn = TRUE /\ n.due = Dependents({Top.key})
  BY <1>2, Notifies
<1> HIDE DEF n
<1>4. ToSet(frames') = ToSet(Outer) \cup {n} /\ ToSet(frames) = ToSet(Outer) \cup {Top}
  <2>1. Outer \in Seq(Frame) /\ ToSet(frames) = ToSet(Outer) \cup {Top}
    BY <1>1, TopFacts
  <2>2. ToSet(Append(Outer, n)) = ToSet(Outer) \cup {n}
    BY <2>1, AppendedAny
  <2>3. QED
    BY <1>1, <2>1, <2>2
<1>5. ASSUME NEW f \in Fiber, fiber_state[f] = "ACTIVE", f \notin stale, ~ Satisfied(f)'
      PROVE  f \in revived /\ Chased(f, frames')
  <2>1. CASE ~ Satisfied(f)
    <3>1. f \in revived /\ Chased(f, frames)
      BY <1>5, <2>1 DEF ChaseInv
    <3>2. \A c \in ToSet(frames) : c.op = "notify" => c \in ToSet(frames')
      BY <1>1, <1>4
    <3>3. QED
      BY <3>1, <3>2, ChasedOn
  <2>2. CASE Satisfied(f)
    <3>1. PICK k \in Needs[f] : store[Resolve[f][k]] # NoValue /\ store'[Resolve[f][k]] = NoValue
      BY <1>5, <2>2 DEF Satisfied
    <3>2. k \in Keys /\ f \in DOMAIN Resolve
      BY FiberKeys
    <3>3. Resolve[f][k] = r
      BY <1>1, <3>1 DEF ServicesInv, ServicesTypeOK
    <3>4. k = Top.key
      BY <1>2, <3>2, <3>3 DEF KeysApart
    <3>5. PICK i \in Slots : Fibers[i] = f
      BY FiberSlot
    <3>6. i \in Dependents({Top.key})
      BY <3>4, <3>5 DEF Dependents
    <3>7. Chased(f, frames')
      BY <1>3, <1>4, <3>5, <3>6 DEF Chased
    <3>8. f \in revived
      <4> SUFFICES ASSUME f \notin revived PROVE FALSE
        OBVIOUS
      <4>1. i \in Top.act /\ (i \in Top.visited => i \in ToSet(Top.path) \cup ToSet(Top.order))
        BY <1>1, <1>5, <3>5, TopFacts DEF FrameOK
      <4>2. ToSet(<<>>) = {}
        BY DEF ToSet
      <4>3. i \in Reached
        BY <1>1, <3>6, <4>1, <4>2 DEF Reached
      <4>4. QED
        BY <1>1, <4>3
    <3>9. QED
      BY <3>7, <3>8
  <2>3. QED
    BY <2>1, <2>2
<1>6. QED
  BY <1>1, <1>5 DEF ChaseInv

LEMMA ChaseAlways == KeysApart => (ServicesSpec => []ChaseInv)
<1> SUFFICES ASSUME KeysApart PROVE ServicesSpec => []ChaseInv
  OBVIOUS
<1>1. ServicesInit => ChaseInv
  BY DEF ServicesInit, ChaseInv
<1>2. ServicesInv /\ ChaseInv /\ [ServicesNext]_servicesVars => ChaseInv'
  <2> SUFFICES ASSUME ServicesInv, ChaseInv, [ServicesNext]_servicesVars PROVE ChaseInv'
    OBVIOUS
  <2>1. CASE \/ \E p \in DOMAIN Providers : Provide(p) \/ Withdraw(p)
             \/ \E f \in Fiber : ActivateFiber(f) \/ DeactivateFiber(f) \/ Retire(f) \/ Break(f)
    BY <2>1, RootChase
  <2>2. CASE NotifyNext
    BY <2>2, NotifyNextChase
  <2>3. CASE \/ NotifyEnds \/ ApplyProvides \/ ApplyFails \/ ApplyReturns \/ UnwindNext
             \/ UnwindEnds \/ Visit \/ VisitReturns \/ DeactivateNext
    BY <2>3, InnerChase
  <2>4. CASE DropService
    BY <2>4, DropServiceChase
  <2>5. CASE UNCHANGED servicesVars
    BY <2>5 DEF servicesVars, ChaseInv, Satisfied, Chased
  <2>6. QED
    BY <2>1, <2>2, <2>3, <2>4, <2>5 DEF ServicesNext
<1>3. QED
  BY <1>1, <1>2, ServicesAlways, PTL DEF ServicesSpec

\* Between operations every active fiber finds its dependencies, unless it
\* became active without them.
THEOREM ActiveAreSatisfied == KeysApart => (ServicesSpec => []ActiveSatisfied)
<1>1. ChaseInv => ActiveSatisfied
  BY NobodyChased DEF ChaseInv, ActiveSatisfied
<1>2. QED
  BY <1>1, ChaseAlways, PTL

\* A fiber is stopped before a service it depends on goes, unless it became
\* active within the operation or without the service.
THEOREM ServicesAreWithdrawnLast == KeysApart => (ServicesSpec => WithdrawnLast)
<1>1. ChaseInv => [\A f \in Fiber : fiber_state[f] = "ACTIVE" /\ fiber_state'[f] = "UNLOADING"
                     => Satisfied(f) \/ f \in revived \/ f \in stale]_servicesVars
  BY DEF ChaseInv
<1>2. QED
  BY <1>1, ChaseAlways, PTL DEF WithdrawnLast

=============================================================================
