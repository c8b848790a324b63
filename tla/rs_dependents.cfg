SPECIFICATION FairSpec
CONSTANTS
  NumTasks = 2
  DependsOn <- Chain
  ParallelSafe <- All
  Mentions <- SameId
  MaxParallel = 2
  Starts = {r1}
  Cancellable = {r1}
  Edits = {}
  MaxRestarts = 0
  NoRun = NoRun
INVARIANT DependentsDispatched
CHECK_DEADLOCK FALSE
