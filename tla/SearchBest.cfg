SPECIFICATION SearchSpec
CONSTANTS
 R = R
 A = A
 B = B
 C = C
 Texts = {R, A, B, C}
 Value <- MCValue
 Penalty <- MCPenalty
 Roots = {R}
 Modes = {"mcts"}
 JudgeEvals = FALSE
 Scale = 20
 Width = 2
 Depth = 4
 BeamWidth = 1
 MaxNodes = 10
 Iterations = 3
 PruneMargin = 3
 MaxSearches = 1
 Nil = Nil
 MaxSeeds = 1
INVARIANT BestReturned
CHECK_DEADLOCK FALSE
