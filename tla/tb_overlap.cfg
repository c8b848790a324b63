SPECIFICATION Spec
CONSTANTS
  Turns = {t1, t2}
  Deletes = {}
  Overlapping = TRUE
  MaxUpdates = 0
  MaxRestarts = 0
  NoTurn = NoTurn
SYMMETRY TurnSymmetry
INVARIANTS OneTurnInFlight
CHECK_DEADLOCK FALSE
