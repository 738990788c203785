SPECIFICATION Spec
CONSTANTS
  None = None
  t1 = t1  t2 = t2  t3 = t3  m1 = m1  m2 = m2  w1 = w1  w2 = w2
  p = p  q = q  g = g
  Tx = {t1}
  Manager = {m1}
  Workspace = {w1, w2}
  ManagerOf <- OneManager
  WorkspaceOf <- OneWorkspace
  Owned = {m1}
  Fact = {p, q, g}
  N <- MCN
  Cap <- SideEffectCap
  Comp <- MCComp
  Criteria <- MCCriteria
  Snapshot <- MCSnapshot
  Disturbances = {}
INVARIANTS
  CommittedCriteria
\* A call that has returned stays returned.
CHECK_DEADLOCK FALSE
