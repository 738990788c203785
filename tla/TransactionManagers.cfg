SPECIFICATION Spec
CONSTANTS
  None = None
  t1 = t1  t2 = t2  t3 = t3  m1 = m1  m2 = m2  w1 = w1  w2 = w2
  p = p  q = q  g = g
  Tx = {t1, t2, t3}
  Manager = {m1, m2}
  Workspace = {w1, w2}
  ManagerOf <- ThreeCalls
  WorkspaceOf <- OwnWorkspace
  Owned = {m1}
  Fact = {p, q, g}
  N <- MCN
  Cap <- MCCap
  Comp <- MCComp
  Criteria <- MCCriteria
  Snapshot <- MCSnapshot
  Disturbances = {"registry", "workspace", "ledger"}
INVARIANTS
  CommitFinal
  SummarySettles
  WorkspaceExclusive
\* A call that has returned stays returned.
CHECK_DEADLOCK FALSE
