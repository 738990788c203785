--------------------------- MODULE MCTransaction ---------------------------
(***************************************************************************)
(* Instances of Transaction for TLC: plans of three actions over three     *)
(* facts, and the ways calls, managers and workspaces can be related.      *)
(***************************************************************************)
EXTENDS Transaction, TLC

CONSTANTS t1, t2, t3, m1, m2, w1, w2, p, q, g

T(f) == <<f, TRUE>>
F(f) == <<f, FALSE>>

Do(pre, eff, side, ver) ==
  [pre |-> pre, eff |-> eff, side |-> side, ver |-> ver, exec |-> TRUE]
Undo(pre, eff, ver) ==
  [spec |-> TRUE, valid |-> TRUE, pre |-> pre, eff |-> eff, ver |-> ver]
NoUndo ==
  [spec |-> FALSE, valid |-> FALSE, pre |-> {}, eff |-> {}, ver |-> {}]

\* install sets p; probe has no effects; swap sets q and clears g.  The undo of
\* install may only run while p is believed to hold.
MCN == 3
Install == Do({F(p)}, {T(p)}, {}, {T(p)})
Probe   == Do({}, {}, {}, {})
Swap    == Do({T(p)}, {T(q), F(g)}, {}, {T(q), F(g)})
MCCap   == <<Install, Probe, Swap>>
MCComp  ==
  <<Undo({T(p)}, {F(p)}, {F(p)}), NoUndo, Undo({}, {F(q), T(g)}, {F(q), T(g)})>>

\* install also carries a verifier for the opposite polarity of its own effect.
PolarityCap == <<[Install EXCEPT !.ver = {T(p), F(p)}], Probe, Swap>>

\* swap may also remove what install put in place, which it does not declare.
SideEffectCap == <<Install, Probe, [Swap EXCEPT !.side = {F(p)}]>>

MCCriteria == {T(p), T(q)}
MCSnapshot == (p :> "VERIFIED_FALSE") @@ (q :> "MISSING") @@ (g :> "VERIFIED_TRUE")

OneManager == [t \in Tx |-> m1]
OneWorkspace == [m \in Manager |-> w1]
OwnWorkspace == (m1 :> w1) @@ (m2 :> w2)
EachItsManager == (t1 :> m1) @@ (t2 :> m2)
\* t1 and t2 are calls of one manager, one after the other; t3 is another's.
ThreeCalls == (t1 :> m1) @@ (t2 :> m1) @@ (t3 :> m2)

=============================================================================
