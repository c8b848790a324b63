----------------------------- MODULE ProjectAccess -----------------------------
(***************************************************************************)
(* Who may do what in an organisation: project_memberships and             *)
(* middleware/project-access.ts, which every project request passes, and   *)
(* org_member_permissions of org-permissions-store.ts.                     *)
(*                                                                         *)
(* One project slug; a project that is deleted and created again has a new *)
(* id.  Memberships change in one step here (OrgMembers has how).  Every   *)
(* query is an action: READ COMMITTED, no transaction spans two.           *)
(***************************************************************************)
EXTENDS Naturals, FiniteSets

CONSTANTS
  Members,       \* users who are, or were, or will be in the organisation
  Asks,        \* requests to the project: [who, whom]
  GrantCalls,    \* requests to grant manage_extensions: [who, whom]
  NoMember,
  MaxProjects, MaxMoves   \* projects of the slug; changes of memberships (bound the model)
ASSUME AccessAssumption ==
  /\ NoMember \notin Members /\ MaxProjects \in Nat \ {0} /\ MaxMoves \in Nat
  /\ Asks \cup GrantCalls \subseteq [who : Members, whom : Members]

VARIABLES
  orgRole,     \* org_memberships: "none", "member", "admin"
  project,     \* projects: the id, or 0
  projects,    \* ids so far
  creator,     \* who is to be listed in the newest project, or NoMember
  listed,      \* project_memberships: <<id, user>>
  granted,     \* org_member_permissions
  ask,       \* the requests: [at, role, id, seen]
  grantAt,     \* where a grant request is
  moves,
  wasIn,       \* history: requests whose user was a member at some moment of the request
  wasEntitled  \* history: and an admin, or listed for the project there was
accessTables == <<orgRole, project, projects, creator, listed, granted>>
accessVars == <<accessTables, ask, grantAt, moves, wasIn, wasEntitled>>

Active(v) == ask[v].at \notin {"idle", "refused", "done"}
GoAsk(v, place) == ask' = [ask EXCEPT ![v].at = place]

AccessInit ==
  /\ orgRole \in [Members -> {"none", "member", "admin"}] /\ \E u \in Members : orgRole[u] = "admin"
  /\ project = 1 /\ projects = 1 /\ creator = NoMember
  /\ \E them \in SUBSET Members : listed = {1} \X them
  /\ granted = {}
  /\ \E askers \in BOOLEAN :   \* projects and permissions read none of each other's rows
       /\ ask = [v \in Asks |-> [at |-> IF askers THEN "done" ELSE "idle", role |-> "none", id |-> 0, seen |-> 0]]
       /\ grantAt = [g \in GrantCalls |-> IF askers THEN "idle" ELSE "over"]
  /\ moves = 0
  /\ wasIn = {} /\ wasEntitled = {}

-------------------------------------------------------------------------------
\* Members come, go and change; a permission goes with its membership (ON DELETE
\* CASCADE), what lists them in projects does not.
MoveMember(u, role) ==
  /\ moves < MaxMoves /\ moves' = moves + 1 /\ role # orgRole[u]
  /\ orgRole' = [orgRole EXCEPT ![u] = role]
  /\ granted' = IF role = "none" THEN granted \ {u} ELSE granted
  /\ UNCHANGED <<project, projects, creator, listed, ask, grantAt>>
\* projects.post.ts: the row, then its creator is listed; when all retries fail, the
\* answer has a warning.
CreateAgain(u) ==
  /\ project = 0 /\ projects < MaxProjects /\ orgRole[u] = "admin"
  /\ projects' = projects + 1 /\ project' = projects + 1 /\ creator' = u
  /\ UNCHANGED <<orgRole, listed, granted, ask, grantAt, moves>>
ListCreator ==
  /\ creator # NoMember /\ creator' = NoMember
  /\ listed' \in {listed, IF project = projects THEN listed \cup {<<project, creator>>} ELSE listed}
  /\ UNCHANGED <<orgRole, project, projects, granted, ask, grantAt, moves>>
DeleteProject ==
  /\ project # 0 /\ project' = 0 /\ listed' = {}
  /\ UNCHANGED <<orgRole, projects, creator, granted, ask, grantAt, moves>>

\* The middleware.
ReadMembership(v) ==
  /\ ask[v].at = "idle"
  /\ ask' = [ask EXCEPT ![v].role = orgRole[v.who],
                            ![v].at = IF orgRole[v.who] = "none" THEN "refused" ELSE "member"]
  /\ UNCHANGED <<accessTables, grantAt, moves>>
ReadProject(v) ==
  /\ ask[v].at = "member"
  /\ ask' = [ask EXCEPT ![v].id = project,
                            ![v].at = CASE project = 0 -> "refused"
                                        [] project # 0 /\ ask[v].role = "admin" -> "admitted"
                                        [] OTHER -> "checking"]
  /\ UNCHANGED <<accessTables, grantAt, moves>>
\* canUserAccessProject looks the project up for itself.
ReadProjectAgain(v) ==
  /\ ask[v].at = "checking"
  /\ ask' = [ask EXCEPT ![v].seen = project, ![v].at = IF project = 0 THEN "refused" ELSE "admin?"]
  /\ UNCHANGED <<accessTables, grantAt, moves>>
ReadAdminRow(v) ==
  /\ ask[v].at = "admin?" /\ GoAsk(v, IF orgRole[v.who] = "admin" THEN "admitted" ELSE "listed?")
  /\ UNCHANGED <<accessTables, grantAt, moves>>
\* A mutant of ReadMemberRow: every member of the organisation will do.
ReadMemberRowAny(v) ==
  /\ ask[v].at = "listed?" /\ GoAsk(v, IF orgRole[v.who] # "none" THEN "admitted" ELSE "refused")
  /\ UNCHANGED <<accessTables, grantAt, moves>>
ReadMemberRow(v) ==
  /\ ask[v].at = "listed?" /\ GoAsk(v, IF <<ask[v].seen, v.who>> \in listed THEN "admitted" ELSE "refused")
  /\ UNCHANGED <<accessTables, grantAt, moves>>

\* The handler.  Those of members serve who was an admin when the middleware looked.
OnlyAdmins(v) ==
  /\ ask[v].at = "admitted"
  /\ \/ GoAsk(v, "done")
     \/ ask[v].role = "admin" /\ \E does \in {"list", "unlist"} : GoAsk(v, does)
  /\ UNCHANGED <<accessTables, grantAt, moves>>
FindMember(v) ==
  /\ ask[v].at = "list" /\ GoAsk(v, IF orgRole[v.whom] = "none" THEN "done" ELSE "listing")
  /\ UNCHANGED <<accessTables, grantAt, moves>>
AddProjectMember(v) ==
  /\ ask[v].at = "listing" /\ GoAsk(v, "done")
  /\ listed' = IF ask[v].id = project THEN listed \cup {<<project, v.whom>>} ELSE listed
  /\ UNCHANGED <<orgRole, project, projects, creator, granted, grantAt, moves>>
RemoveProjectMember(v) ==
  /\ ask[v].at = "unlist" /\ GoAsk(v, "done")
  /\ listed' = listed \ {<<ask[v].id, v.whom>>}
  /\ UNCHANGED <<orgRole, project, projects, creator, granted, grantAt, moves>>

\* grantPermission, after requireOrgAdmin; revokePermission.
GoGrant(g, place) == grantAt' = [grantAt EXCEPT ![g] = place]
RequireOrgAdmin(g) ==
  /\ grantAt[g] = "idle" /\ GoGrant(g, IF orgRole[g.who] = "admin" THEN "admin" ELSE "over")
  /\ UNCHANGED <<accessTables, ask, moves>>
FindGrantee(g) ==
  /\ grantAt[g] = "admin" /\ GoGrant(g, IF orgRole[g.whom] = "none" THEN "over" ELSE "found")
  /\ UNCHANGED <<accessTables, ask, moves>>
\* A mutant of GrantPermission: the table has no foreign key.
GrantPermissionLoose(g) ==
  /\ grantAt[g] = "found" /\ GoGrant(g, "over") /\ granted' = granted \cup {g.whom}
  /\ UNCHANGED <<orgRole, project, projects, creator, listed, ask, moves>>
\* Without its membership the insert violates the foreign key.
GrantPermission(g) ==
  /\ grantAt[g] = "found" /\ GoGrant(g, "over")
  /\ granted' = IF orgRole[g.whom] = "none" THEN granted ELSE granted \cup {g.whom}
  /\ UNCHANGED <<orgRole, project, projects, creator, listed, ask, moves>>
RevokePermission(u) ==
  /\ u \in granted /\ \E a \in Members : orgRole[a] = "admin"
  /\ granted' = granted \ {u}
  /\ UNCHANGED <<orgRole, project, projects, creator, listed, ask, grantAt, moves>>

AskStep(v) ==
  \/ ReadMembership(v) \/ ReadProject(v) \/ ReadProjectAgain(v) \/ ReadAdminRow(v) \/ ReadMemberRow(v)
  \/ OnlyAdmins(v) \/ FindMember(v) \/ AddProjectMember(v) \/ RemoveProjectMember(v)
AccessStep ==
  \/ ListCreator
  \/ \E u \in Members : CreateAgain(u) \/ RevokePermission(u)
  \/ \E u \in Members, r \in {"none", "member", "admin"} : MoveMember(u, r)
  \/ DeleteProject \/ \E v \in Asks : AskStep(v)
  \/ \E g \in GrantCalls : RequireOrgAdmin(g) \/ FindGrantee(g) \/ GrantPermission(g)
\* Judged after each step, while a request is under way.
Under(v) == ask'[v].at \notin {"idle", "refused", "done"}
AccessNext ==
  /\ AccessStep
  /\ wasIn' = {v \in Asks : v \in wasIn \/ (Under(v) /\ orgRole'[v.who] # "none")}
  /\ wasEntitled' = {v \in Asks : v \in wasEntitled \/
                      (Under(v) /\ (orgRole'[v.who] = "admin" \/ <<project', v.who>> \in listed'))}
AccessSpec == AccessInit /\ [][AccessNext]_accessVars

-------------------------------------------------------------------------------
AskPlaces == {"idle", "member", "checking", "admin?", "listed?", "admitted", "list", "listing", "unlist",
            "refused", "done"}
AccessTypeOK ==
  /\ orgRole \in [Members -> {"none", "member", "admin"}]
  /\ project \in 0..MaxProjects /\ creator \in Members \cup {NoMember} /\ projects \in 1..MaxProjects
  /\ listed \subseteq (1..MaxProjects) \X Members /\ granted \subseteq Members
  /\ ask \in [Asks -> [at : AskPlaces, role : {"none", "member", "admin"},
                           id : 0..MaxProjects, seen : 0..MaxProjects]]
  /\ grantAt \in [GrantCalls -> {"idle", "admin", "found", "over"}] /\ moves \in 0..MaxMoves

\* A permission never outlives the membership it was granted to, also when the
\* member is removed while it is being granted: who comes back has none.
PermissionsFollowMembership == \A u \in granted : orgRole[u] # "none"
\* Who is let in was, at moments of this request, a member of the organisation, and
\* an admin of it or listed for the project, whatever became of roles, lists and
\* the project between the five queries.
AdmittedAreEntitled ==
  \A v \in Asks : ask[v].at \in {"admitted", "list", "listing", "unlist"} => v \in wasIn \cap wasEntitled
AccessIsEarned == PermissionsFollowMembership /\ AdmittedAreEntitled
===============================================================================
