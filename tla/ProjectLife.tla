------------------------------ MODULE ProjectLife ------------------------------
(***************************************************************************)
(* Creating and deleting the project of one organisation and slug:         *)
(* server/shared/utils/project-creation.ts, project-store.ts,              *)
(* projects.post.ts, [projSlug].delete.ts, and the secrets that are keyed  *)
(* by the slug (secrets-store.ts).                                         *)
(*                                                                         *)
(* A project, its directories and its secrets carry the name of the create *)
(* request they stem from.  An action is one await of a handler.           *)
(***************************************************************************)
CONSTANTS
  Creates, ProjectDeletes, SecretWrites,   \* requests
  NoProject
ASSUME ProjectAssumption == NoProject \notin Creates

VARIABLES
  creating,     \* where a create request is
  deleting,     \* where a delete request is
  writing,      \* a request to set a secret: [at, for]
  projectRow,   \* the row of (organisation, slug)
  root,         \* whose files are in the project's directory
  artifacts,    \* whose files are in the artifacts' directory
  secrets,      \* of which projects there are secrets
  member,       \* projects whose creator has been made a member
  begun,        \* history: projects whose deletion has begun
  overlap       \* history: a create, or a delete, overlapped with another request
projectVars == <<creating, deleting, writing, projectRow, root, artifacts, secrets, member, begun, overlap>>

Make(c, from, to) == creating[c] = from /\ creating' = [creating EXCEPT ![c] = to]
Drop(q, from, to) == deleting[q] = from /\ deleting' = [deleting EXCEPT ![q] = to]
Ended == {"idle", "ok", "failed"}
AnyRuns == \/ \E c \in Creates : creating[c] \notin Ended
           \/ \E q \in ProjectDeletes : deleting[q] \notin Ended
           \/ \E w \in SecretWrites : writing[w].at \notin Ended
MajorRuns == \/ \E c \in Creates : creating[c] \notin Ended
             \/ \E q \in ProjectDeletes : deleting[q] \notin Ended

ProjectInit ==
  /\ creating = [c \in Creates |-> "idle"] /\ deleting = [q \in ProjectDeletes |-> "idle"]
  /\ writing = [w \in SecretWrites |-> [at |-> "idle", for |-> NoProject]]
  /\ projectRow = NoProject /\ root = NoProject /\ artifacts = NoProject
  /\ secrets = {} /\ member = {} /\ begun = {} /\ overlap = FALSE

-------------------------------------------------------------------------------
\* createProjectRecord: 409 if the row is there, else leftovers are wiped.
CheckRow(c) ==
  /\ Make(c, "idle", IF projectRow # NoProject THEN "failed" ELSE "checked")
  /\ overlap' = (overlap \/ AnyRuns)
  /\ UNCHANGED <<deleting, writing, projectRow, root, artifacts, secrets, member, begun>>
WipeArtifacts(c) ==
  /\ Make(c, "checked", "wiping") /\ artifacts' = NoProject
  /\ UNCHANGED <<deleting, writing, projectRow, root, secrets, member, begun, overlap>>
WipeRoot(c) ==
  /\ Make(c, "wiping", "wiped") /\ root' = NoProject
  /\ UNCHANGED <<deleting, writing, projectRow, artifacts, secrets, member, begun, overlap>>
\* specify init makes the directory and fails if there is one; when it fails,
\* for whatever reason, ensureDir makes sure of it.
SpecifyInit(c) ==
  /\ Make(c, "wiped", "rooted") /\ root' = IF root = NoProject THEN c ELSE root
  /\ UNCHANGED <<deleting, writing, projectRow, artifacts, secrets, member, begun, overlap>>
\* git init, the guidance and the catalogue; any of them may fail.
Equip(c) ==
  /\ \/ root # NoProject /\ Make(c, "rooted", "equipped")
     \/ Make(c, "rooted", "failed")
  /\ UNCHANGED <<deleting, writing, projectRow, root, artifacts, secrets, member, begun, overlap>>
\* ArtifactStore.createProject throws if the directory exists.
CreateArtifacts(c) ==
  /\ \/ artifacts = NoProject /\ artifacts' = c /\ Make(c, "equipped", "stored")
     \/ Make(c, "equipped", "failed") /\ artifacts' \in {artifacts, IF artifacts = NoProject THEN c ELSE artifacts}
  /\ UNCHANGED <<deleting, writing, projectRow, root, secrets, member, begun, overlap>>
\* recordProjectOwnership, under a unique index; 500 if it fails.
RecordRow(c) ==
  /\ \/ projectRow = NoProject /\ projectRow' = c /\ Make(c, "stored", "recorded")
     \/ Make(c, "stored", "failed") /\ UNCHANGED projectRow
  /\ UNCHANGED <<deleting, writing, root, artifacts, secrets, member, begun, overlap>>
\* Three attempts, and a warning if they all fail.
AddCreator(c) ==
  /\ Make(c, "recorded", "ok") /\ member' \in {member, member \cup {c}}
  /\ UNCHANGED <<deleting, writing, projectRow, root, artifacts, secrets, begun, overlap>>

-------------------------------------------------------------------------------
\* [projSlug].delete.ts, once the middleware has found the row.
FindProject(q) ==
  /\ projectRow # NoProject /\ Drop(q, "idle", "found") /\ begun' = begun \cup {projectRow}
  /\ overlap' = (overlap \/ AnyRuns)
  /\ UNCHANGED <<creating, writing, projectRow, root, artifacts, secrets, member>>
\* A directory that cannot be removed is reported, and the deletion goes on.
RemoveArtifacts(q) ==
  /\ Drop(q, "found", "unstored") /\ artifacts' \in {artifacts, NoProject}
  /\ UNCHANGED <<creating, writing, projectRow, root, secrets, member, begun, overlap>>
RemoveRoot(q) ==
  /\ Drop(q, "unstored", "unrooted") /\ root' \in {root, NoProject}
  /\ UNCHANGED <<creating, writing, projectRow, artifacts, secrets, member, begun, overlap>>
\* A mutant of DeleteSecrets: a failure is logged.
DeleteSecretsAnyway(q) ==
  /\ Drop(q, "unrooted", "bare") /\ secrets' \in {secrets, {}}
  /\ UNCHANGED <<creating, writing, projectRow, root, artifacts, member, begun, overlap>>

\* If the secrets cannot be deleted, the row stays.
DeleteSecrets(q) ==
  /\ \/ Drop(q, "unrooted", "bare") /\ secrets' = {}
     \/ Drop(q, "unrooted", "failed") /\ UNCHANGED secrets
  /\ UNCHANGED <<creating, writing, projectRow, root, artifacts, member, begun, overlap>>
DeleteRow(q) ==
  /\ Drop(q, "bare", "ok") /\ projectRow' \in {projectRow, NoProject}
  /\ UNCHANGED <<creating, writing, root, artifacts, secrets, member, begun, overlap>>

\* The handler that sets a secret: access to the row, then an upsert by slug.
FindForSecret(w) ==
  /\ writing[w].at = "idle" /\ projectRow # NoProject
  /\ writing' = [writing EXCEPT ![w] = [at |-> "found", for |-> projectRow]]
  /\ overlap' = (overlap \/ MajorRuns)
  /\ UNCHANGED <<creating, deleting, projectRow, root, artifacts, secrets, member, begun>>
SetSecret(w) ==
  /\ writing[w].at = "found" /\ writing' = [writing EXCEPT ![w].at = "ok"]
  /\ secrets' \in {secrets, secrets \cup {writing[w].for}}
  /\ UNCHANGED <<creating, deleting, projectRow, root, artifacts, member, begun, overlap>>

\* The server dies with all its requests.
CrashProjects ==
  /\ creating' = [c \in Creates |-> IF creating[c] \in Ended THEN creating[c] ELSE "failed"]
  /\ deleting' = [q \in ProjectDeletes |-> IF deleting[q] \in Ended THEN deleting[q] ELSE "failed"]
  /\ writing' = [w \in SecretWrites |-> IF writing[w].at \in Ended THEN writing[w]
                                        ELSE [writing[w] EXCEPT !.at = "failed"]]
  /\ UNCHANGED <<projectRow, root, artifacts, secrets, member, begun, overlap>>

ProjectNext ==
  \/ \E c \in Creates :
       \/ CheckRow(c) \/ WipeArtifacts(c) \/ WipeRoot(c) \/ SpecifyInit(c) \/ Equip(c)
       \/ CreateArtifacts(c) \/ RecordRow(c) \/ AddCreator(c)
  \/ \E q \in ProjectDeletes :
       FindProject(q) \/ RemoveArtifacts(q) \/ RemoveRoot(q) \/ DeleteSecrets(q) \/ DeleteRow(q)
  \/ \E w \in SecretWrites : FindForSecret(w) \/ SetSecret(w)
  \/ CrashProjects
ProjectSpec == ProjectInit /\ [][ProjectNext]_projectVars

-------------------------------------------------------------------------------
ProjectTypeOK ==
  /\ creating \in [Creates -> Ended \cup {"checked", "wiping", "wiped", "rooted", "equipped", "stored", "recorded"}]
  /\ deleting \in [ProjectDeletes -> Ended \cup {"found", "unstored", "unrooted", "bare"}]
  /\ writing \in [SecretWrites -> [at : Ended \cup {"found"}, for : Creates \cup {NoProject}]]
  /\ {projectRow, root, artifacts} \subseteq Creates \cup {NoProject}
  /\ secrets \subseteq Creates /\ member \subseteq Creates /\ begun \subseteq Creates /\ overlap \in BOOLEAN

\* A project that is listed has its own directories and inherits no secret of an
\* earlier project of its name, however creates and deletes before it failed,
\* at whatever step; unless requests overlapped or its own deletion has begun.
ProjectsAreWhole ==
  ~overlap /\ projectRow # NoProject =>
    /\ projectRow \in begun \/ (root = projectRow /\ artifacts = projectRow)
    /\ secrets \subseteq {projectRow}
===============================================================================
