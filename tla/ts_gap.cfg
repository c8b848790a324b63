SPECIFICATION StreamSpec
CONSTANTS
  Turns = {t1}
  Deletes = {}
  Overlapping = FALSE
  MaxUpdates = 2
  MaxRestarts = 0
  NoTurn = NoTurn
  Streams = {s1}
INVARIANT GapFree
CHECK_DEADLOCK FALSE
