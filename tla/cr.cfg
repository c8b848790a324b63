SPECIFICATION OwnedSpec
CONSTANTS
  NumRoles = 2
  CeoRole = 1
  Tasks = {brief, ticket}
  Tickets = {ticket}
  RoleOf <- CeoTasks
  MaxRuntimes = 2
  MaxRefires = 1
  MaxAlerts = 2
  NoTask = NoTask
  brief = brief
  ticket = ticket
  QueueFiles = {"q1"}
  MaxCompanies = 2
  MaxClock = 2
  Limit = 2
  Agents = {"dev", "ceo"}
  Lasting = {"ceo"}
  AgentSpecs <- MCAgentSpecs
  SecretKeys = {"ops", "key"}
  OpsKey = "ops"
  MaxBoots = 2
  MaxSpecEdits = 2
  Remotes = {"A", "B"}
  OpenTo = {"A"}
  NoRemote = "null"
  Connects = {"k1", "k2"}
  ConnectTo <- MCConnectTo
  WithToken = {"k1"}
  Disconnects = {"d1"}
  Pushes = {"p1", "p2"}
  Pulls = {"l1"}
  MaxGitCalls = 2
  Changes = {"c1"}
  Folders = {"aide", "crew"}
  Manifests <- MCManifests
  Bundled <- MCBundled
  Angles = {"<feature>", "<role>.md"}
  Numbers = {"NNN.md"}
  Related <- MCRelated
  Wordless = {"create"}
  Files <- MCFiles
  NoManifest = NoManifest
  NoBody = NoBody
  MaxChanges = 1
  MaxRequests = 3
INVARIANTS
  OwnedTypeOK
  NoTaskLost
  NoDoubleDispatch
  WorkIsFollowed
  HistoryIsTrue
  ContainersAreCurrent
  RepositoryKeepsStep
  WorkflowsAgree
CHECK_DEADLOCK FALSE
