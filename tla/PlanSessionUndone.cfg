SPECIFICATION Spec
CONSTANTS
  None = None
  a = a  b = b  w1 = w1  w2 = w2  r1 = r1  r2 = r2
  Plan = {a, b}
  World = {w1, w2}
  Registry = {r1, r2}
  Policy = {"policy"}
  Perishable = {w2}
  Verdict <- MCVerdict
  Fits <- MCFits
  Meets <- MCMeets
  Edits = "undone"
  MaxVersion = 2
  MaxCert = 2
INVARIANTS
  AuthorizedIsJudged
\* A session may stop for good.
CHECK_DEADLOCK FALSE
