SPECIFICATION Spec
CONSTANTS
  None = None
  Summary = Summary
  x = x  y = y  p = p  q = q
  Caller = {x, y}
  Planners = {x, y}
  Judges = {}
  Holders = {}
  Text = {p, q}
  Score <- MCScore
  Sound = {p}
  MinScore = 1
  MaxRounds = {2}
  RoundBound = 3
  JudgeBound = 1
  CheckpointBound = 1
PROPERTIES
  RoundsSurvive
