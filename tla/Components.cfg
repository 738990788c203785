SPECIFICATION SpecAll
CONSTANTS
  t1 = t1  t2 = t2  s1 = s1  e1 = e1  e2 = e2  plan = plan
  Order <- Orders  Deps <- TaskDeps  Sub = {s1}  SubOf <- SubContexts
  Eff = {e1, e2}  On <- EffectsOn  Disposable = {t1}  MaxSteps <- EffectSteps
  PlanCtx = plan  Nobody = Nobody
  F = F  G = G  H = H  p1 = p1  p2 = p2
  Fibers <- ServiceFibers  Needs <- FiberNeeds  Gives <- FiberGives
  Resolve <- Realm  Providers <- Provided  NoValue = NoValue
  None = None
  Facts <- BothFacts  ActionCatalog <- Actions  Constraints <- KeptUp
  SuccessCriteria <- Wanted  MaxActions = 3  Lifetimes <- Lasting
  Forever = Forever  Absent = Absent
  Props = {"up"}  Files = {"out.txt", "out.md"}  Stem <- Stems
  TaskCatalog <- CausalTasks  Ids = {1, 2, 3}  MaxTasks = 3  MinTasks = 2
  Outputs <- GateOutputs  Audited <- GateAudited  Commands <- GateCommands
  Criteria <- GateCriteria  Evidence <- Submitted
  Budget = 2  Timeout = 2  MaxReplaced = 1
  Places <- IsolationPlaces  Agents = {"a", "b"}  MaxRecords = 3
  Callers = {"a", "b"}  Paths = {"p", "q"}  Contents = {"x"}  MaxEdits = 2
  Counts = {0, 1, 2}  NoFile = NoFile
  Flaws = {"none", "unregistered", "no_command"}  MaxExecuted = 2  MaxRollbacks = 2
  Moments = {1, 2, 3}  Status <- StatusAt  Evaluations = 1  Pivots = 1
  CriteriaCount = 1  MaxCalls = 4  Scores = {1, 2}  Unset = Unset
  Texts = {"R", "A", "B"}  Scale = 4  Value <- TextValue  Penalty <- TextPenalty
  Roots = {"R"}  JudgeEvals = FALSE  Modes = {"mcts", "beam", "ast"}
  Width = 1  Depth = 2  BeamWidth = 1  MaxNodes = 3  Iterations = 1
  PruneMargin = 0  MaxSeeds = 1  MaxSearches = 2  Nil = Nil
INVARIANTS
  Types
  UndoneOnceInReverse
  LaterUndoneFirst
  RecoveredUndone
  ActiveSatisfied
  ServicesOfActive
  PassHolds
  CausalVerdict
  PassedOnSight
  PassedOnOneStory
  ConflictsExact
  Recoverable
  RolledBackClean
  TreeSound
  CertifiedSelection
PROPERTIES
  WithdrawnLast
  PlanSettles
\* Each component may come to its end, or to a bound.
CHECK_DEADLOCK FALSE
