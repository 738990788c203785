SPECIFICATION Spec
CONSTANTS
  None = None
  Summary = Summary
  x = x  y = y  p = p  q = q
  Caller = {x, y}
  Planners = {x}
  Judges = {y}
  Holders = {y}
  Text = {p, q}
  Score <- MCScore
  Sound = {p}
  MinScore = 1
  MaxRounds = {1, 2}
  RoundBound = 3
  JudgeBound = 2
  CheckpointBound = 1
INVARIANTS
  TypeOK
  KeepsPlans
  CommitJudged
PROPERTIES
  FinishIsReleased
CONSTRAINT
  Narrow
