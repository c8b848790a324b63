------------------------------- MODULE MCStores -------------------------------
(***************************************************************************)
(* An instance for the run of the components that keep something in the    *)
(* database, on disk or in docker: companies, members, drafts,             *)
(* extensions, projects, access, steps, credentials, accounts.  They share *)
(* no variable, so they are explored one at a time: `part` says which one  *)
(* moves, while the others stay in one initial state.                      *)
(***************************************************************************)
EXTENDS CompanyManager, OrgMembers, SpecDraft, OrgExtensions, ProjectLife, StepProgress, LlmRouting,
        Accounts, ProjectAccess

CONSTANTS Parts

VARIABLE part
fileVars == <<draftVars, extensionVars, projectVars, stepVars>>
userVars == <<routingVars, accountVars, accessVars>>
storesVars == <<part, managerVars, orgVars, fileVars, userVars>>

\* Two organisations have a project of one slug.
OneSlug == [c \in Companies |-> "shop"]
MCRoles == [i \in Invites |-> IF i = "ia" THEN "admin" ELSE "member"]
MCAuthorOf == [d \in Drafts |-> "ann"]
MCSaverOf == [a \in Saves |-> "ann"]
MCEdits == [d \in Drafts |-> IF d = "d1" THEN 1 ELSE 0]
MCKindOf == [q \in StepRequests |-> q]
MCKeyOwner == [k \in Keys |-> IF k = "ua" THEN "user" ELSE "org"]
MCKeyProvider == [k \in Keys |-> IF k = "ua" THEN "anthropic" ELSE "openai"]
\* An admin, and somebody the admin lists.
MCAsks == {[who |-> "bob", whom |-> "bob"], [who |-> "ann", whom |-> "bob"]}
MCGrantCalls == {[who |-> "ann", whom |-> "bob"]}
\* The last one has a credential of another owner.
MCProfileSaves ==
  {[owner |-> "user", provider |-> "anthropic", key |-> "ua"],
   [owner |-> "org", provider |-> "openai", key |-> "oo"],
   [owner |-> "user", provider |-> "openai", key |-> "oo"]}

StoresInit ==
  /\ part \in Parts
  /\ ManagerInit /\ (part # "companies" => calm /\ about = [h \in Handlers |-> CHOOSE c \in Companies : TRUE])
  /\ OrgInit /\ (part # "members" => membership = [u \in Users |-> "admin"])
  /\ DraftInit /\ (part # "drafts" => calmly)
  /\ ExtensionInit /\ ProjectInit /\ StepInit /\ RoutingInit
  /\ AccessInit /\ (part # "access" => listed = {} /\ orgRole = [u \in Members |-> "admin"] /\ \A g \in GrantCalls : grantAt[g] = "over")
  /\ AccountInit /\ (part # "accounts" => \A p \in People : user[p].exists /\ ~user[p].blocked /\ user[p].admin)

\* Bounds: a draft that is not edited is not saved either; one save at a time is
\* waited for, and a calm browser has left one PATCH behind; "v1" is taken first.
FewSaves ==
  LET edited == {d \in Drafts : MaxEdits[d] > 0}
      astray == {a \in Saves : save'[a].at = "astray"}
      waiting == {a \in Saves : save'[a].at # "idle"} \ astray IN
  /\ {save'[a].draft : a \in Saves} \subseteq edited \cup {NoDraft}
  /\ Cardinality(waiting) <= 1 /\ Cardinality(astray) <= (IF calmly THEN 1 ELSE 0)
  /\ save'["v2"].at = IF \A a \in Saves : save[a].at = "idle" THEN "idle" ELSE save'["v2"].at

StoresNext ==
  /\ UNCHANGED part
  /\ \/ part = "companies" /\ ManagerNext /\ UNCHANGED <<orgVars, fileVars, userVars>>
     \/ part = "members" /\ OrgNext /\ UNCHANGED <<managerVars, fileVars, userVars>>
     \/ part = "drafts" /\ DraftNext /\ FewSaves
        /\ UNCHANGED <<managerVars, orgVars, extensionVars, projectVars, stepVars, userVars>>
     \/ part = "extensions" /\ ExtensionNext
        /\ UNCHANGED <<managerVars, orgVars, draftVars, projectVars, stepVars, userVars>>
     \/ part = "projects" /\ ProjectNext
        /\ UNCHANGED <<managerVars, orgVars, draftVars, extensionVars, stepVars, userVars>>
     \/ part = "steps" /\ StepsNext
        /\ UNCHANGED <<managerVars, orgVars, draftVars, extensionVars, projectVars, userVars>>
     \/ part = "llm" /\ RoutingNext /\ UNCHANGED <<managerVars, orgVars, fileVars, accountVars, accessVars>>
     \/ part = "accounts" /\ AccountNext /\ UNCHANGED <<managerVars, orgVars, fileVars, routingVars, accessVars>>
     \/ part = "access" /\ AccessNext /\ UNCHANGED <<managerVars, orgVars, fileVars, routingVars, accountVars>>
StoresSpec == StoresInit /\ [][StoresNext]_storesVars

StoresTypeOK ==
  /\ part = "companies" => ManagerTypeOK
  /\ part = "members" => OrgTypeOK
  /\ part = "drafts" => DraftTypeOK
  /\ part = "extensions" => ExtensionTypeOK
  /\ part = "projects" => ProjectTypeOK
  /\ part = "steps" => StepTypeOK
  /\ part = "llm" => RoutingTypeOK
  /\ part = "accounts" => AccountTypeOK
  /\ part = "access" => AccessTypeOK

\* What handlers that overlap, fail half-way and die leave on disk: drafts, projects, steps.
FilesAreKept == DraftsAreKept /\ ProjectsAreWhole /\ StepsAreKept

\* What people may do: the owner administers, accounts keep their rights, access is earned.
PeopleAreKept == OwnerStaysAdmin /\ AccountsAreKept /\ AccessIsEarned
===============================================================================
