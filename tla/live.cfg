SPECIFICATION LiveSpec
CONSTANTS
  Parts = {"turns", "approvals", "login", "runners"}
  Turns = {t1}
  Deletes = {}
  Overlapping = FALSE
  MaxUpdates = 1
  MaxRestarts = 1
  NoTurn = NoTurn
  Streams = {s1}
  Requests = {r1, r2}
  Runtimes = {k1}
  Uses <- MCUses
  None = None
  Flows = {f1, f2}
  Codes = {f1}
  Cancels = {f1}
  AgentRuns = {"a"}
INVARIANTS LiveTypeOK RecordMatchesAnswer CredentialsLeaveDisk ChildrenAreGone
PROPERTIES TurnsAndStreamsEnd ImplementsPromise EveryRequestAnswered ChildrenAreStopped
CHECK_DEADLOCK FALSE
