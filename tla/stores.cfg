SPECIFICATION StoresSpec
CONSTANTS
  Parts = {"companies", "members", "drafts", "extensions", "projects", "steps", "llm", "accounts", "access"}
  Companies = {c1, c2}
  SlugOf <- OneSlug
  Roles = {ceo}
  Starts = {s1, s2}
  Stops = {q1}
  Nobody = Nobody
  Users = {"ann", "bob", "cem"}
  Creator = "ann"
  OrgCalls = {o1, o2}
  Invites = {"ia", "im"}
  InvitedRole <- MCRoles
  Drafts = {"d1", "d2"}
  Saves = {"v1", "v2"}
  Authors = {"ann"}
  AuthorOf <- MCAuthorOf
  SaverOf <- MCSaverOf
  MaxEdits <- MCEdits
  MaxRetries = 1
  NoDraft = NoDraft
  Adds = {a1, a2, a3}
  Removals = {m1}
  ExtSlugs = {"git"}
  MaxExtensions = 2
  NoAdd = NoAdd
  Creates = {p1, p2}
  ProjectDeletes = {g1, g2}
  SecretWrites = {w1}
  NoProject = NoProject
  StepRequests = {"touch", "complete", "auto", "reopen"}
  KindOf <- MCKindOf
  NoFile = NoFile
  Keys = {"ua", "oo"}
  KeyOwner <- MCKeyOwner
  KeyProvider <- MCKeyProvider
  OAuthKeys = {"ua"}
  Providers = {"anthropic", "openai"}
  ProfileSaves <- MCProfileSaves
  Launches = {r1}
  NoKey = "null"
  People = {"ann", "bob"}
  EnvAdmins = {"ann"}
  InDomain = {"bob"}
  NumVisits = 3
  Members = {"ann", "bob"}
  Asks <- MCAsks
  GrantCalls <- MCGrantCalls
  NoMember = "none"
  MaxProjects = 2
  MaxMoves = 2
INVARIANTS
  StoresTypeOK
  CompaniesAreWhole
  ExtensionsAreInstalled
  KeysAreRouted
  FilesAreKept
  PeopleAreKept
CHECK_DEADLOCK FALSE
