SPECIFICATION StagesSpec
CONSTANTS
  NumTasks = 3
  DependsOn <- Backwards
  ParallelSafe <- All
  Mentions <- SameId
  MaxParallel = 2
  Starts = {r1}
  Cancellable = {}
  Edits = {e1, e2}
  MaxRestarts = 1
  NoRun = NoRun
  Slots = {"c1", "c2"}
  MaxTasks = 2
  MaxNotes = 1
  MaxCalls = 4
  MaxTroubles = 1
INVARIANTS TypeOK VerdictHonest FailureBlocksDownstream WorkflowIsGated
CHECK_DEADLOCK FALSE
SYMMETRY EditSymmetry
