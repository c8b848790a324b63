SPECIFICATION TurnsSpec
CONSTANTS
  Turns = {t1, t2}
  Deletes = {d1}
  Overlapping = FALSE
  MaxUpdates = 1
  MaxRestarts = 1
  NoTurn = NoTurn
  Chats = {"x", "y"}
  Cut = {"x"}
  Sends = {"s1", "s2"}
  MaxLoads = 2
  NoChat = "none"
  NoSend = "no"
  PageSteps = {"a", "b"}
  MaxSessions = 3
  MaxVisits = 3
  MaxClicks = 2
INVARIANTS
  TurnsTypeOK
  OneTurnInFlight
  ChildrenAreTended
  TurnEndsOnce
  ChatIsComplete
  SessionsAreShown
CHECK_DEADLOCK FALSE
