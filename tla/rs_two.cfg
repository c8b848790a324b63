SPECIFICATION ImplementSpec
CONSTANTS
  NumTasks = 2
  DependsOn <- Chain
  ParallelSafe <- All
  Mentions <- SameId
  MaxParallel = 2
  Starts = {r1, r2}
  Cancellable = {}
  Edits = {}
  MaxRestarts = 0
  NoRun = NoRun
  RunTasks = {"p1", "p2"}
  MaxRuns = 1
  MaxReads = 2
  MaxBehind = 0
  Exts = {"wf", "kit"}
  SharedExts = {"kit"}
  LocalExts = {"wf"}
  ExtInstalls = {"both", "one"}
  Wanted <- MCWanted
  ExtRemovals = {"r1"}
  RemovalOf <- MCRemovalOf
  NoRegistry = NoRegistry
SYMMETRY RunSymmetry
INVARIANTS CompletedIsEarned PageSettles ExtensionsAgree
PROPERTIES DependenciesResolvedFirst
CONSTRAINT Telling
CHECK_DEADLOCK FALSE
