--------------------------- MODULE SessionStates ---------------------------
(***************************************************************************)
(* The states of a PlanningSession and the table of legal transitions that *)
(* PlanningSession.transition_to consults (src/plan_mode/session.py).  The *)
(* table is shared by every module that moves a session.                   *)
(***************************************************************************)

SessionState ==
  {"DRAFT", "IR_VALID", "FEASIBILITY", "SELECTED", "AUTHORIZED", "EXECUTING",
   "COMMITTED", "DIAGNOSING", "COMPENSATING", "ROLLED_BACK",
   "CONTAINMENT_FAILED", "FAILED"}

ValidTransitions ==
  [DRAFT              |-> {"IR_VALID", "FAILED"},
   IR_VALID           |-> {"FEASIBILITY", "DRAFT", "FAILED"},
   FEASIBILITY        |-> {"SELECTED", "DRAFT", "FAILED"},
   SELECTED           |-> {"AUTHORIZED", "FEASIBILITY", "DRAFT", "FAILED"},
   AUTHORIZED         |-> {"EXECUTING", "SELECTED", "DRAFT", "FAILED"},
   EXECUTING          |-> {"COMMITTED", "DIAGNOSING", "COMPENSATING", "FAILED"},
   DIAGNOSING         |-> {"COMPENSATING", "DRAFT", "FAILED"},
   COMPENSATING       |-> {"ROLLED_BACK", "CONTAINMENT_FAILED", "FAILED"},
   ROLLED_BACK        |-> {"DRAFT", "FAILED"},
   CONTAINMENT_FAILED |-> {"FAILED"},
   COMMITTED          |-> {"DRAFT"},
   FAILED             |-> {"DRAFT"}]

\* transition_to(target) succeeds from s exactly when the table allows it;
\* otherwise it raises InvalidStateTransitionError and assigns nothing.
CanMove(s, target) == target \in ValidTransitions[s]

=============================================================================
