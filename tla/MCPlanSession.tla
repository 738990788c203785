--------------------------- MODULE MCPlanSession ---------------------------
(***************************************************************************)
(* A small PlanSession for TLC: two plan contents, two worlds (one with    *)
(* facts that expire), two registries, two versions, three certificates.   *)
(***************************************************************************)
EXTENDS PlanSession, TLC

CONSTANTS a, b, w1, w2, r1, r2

\* Plan a passes in w1 and plan b in w2; r2 changes what the validator can tell.
MCVerdict ==
  [x \in Plan \X World \X Registry |->
     IF x[1] = a /\ x[2] = w1 THEN "PASS"
     ELSE IF x[1] = b /\ x[2] = w2 /\ x[3] = r1 THEN "PASS"
     ELSE IF x[3] = r2 THEN "UNKNOWN" ELSE "FAIL"]
MCFits == {<<a, r1>>, <<a, r2>>, <<b, r1>>}
MCMeets == {<<a, w2>>, <<b, w2>>}

=============================================================================
