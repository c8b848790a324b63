SPECIFICATION FairSpec
CONSTANTS
  NumTasks = 3
  DependsOn <- NoDeps
  ParallelSafe <- AllButOne
  Mentions <- SameId
  MaxParallel = 2
  Starts = {r1}
  Cancellable = {r1}
  Edits = {}
  MaxRestarts = 0
  NoRun = NoRun
INVARIANT SlotRules
PROPERTIES LaunchedOncePerRun EveryStartEnds
CHECK_DEADLOCK FALSE
