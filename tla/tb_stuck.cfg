SPECIFICATION Spec
CONSTANTS
  Turns = {t1, t2}
  Deletes = {}
  Overlapping = FALSE
  MaxUpdates = 0
  MaxRestarts = 1
  NoTurn = NoTurn
SYMMETRY TurnSymmetry
INVARIANTS NoStuckRunning
CHECK_DEADLOCK FALSE
