SPECIFICATION FairSpec
CONSTANTS
  NumRoles = 1
  CeoRole = 1
  Tasks = {brief}
  Tickets = {}
  RoleOf <- OnlyTask
  MaxRuntimes = 2
  MaxRefires = 1
  MaxAlerts = 0
  NoTask = NoTask
  brief = brief
  ticket = ticket
PROPERTY PickedUpAtStart
CHECK_DEADLOCK FALSE
