------------------------------ MODULE StoreProofs ------------------------------
(* Theorems about the components with rows, files and containers, for every *)
(* set of users, members and requests: what is kept (StepProgress,         *)
(* ProjectLife, SpecDraft, OrgExtensions, LlmRouting, CompanyManager), and *)
(* who may do what (OrgMembers, Accounts, ProjectAccess).                  *)
EXTENDS MCStores, TLAPS

-----------------------------------------------------------------------------
(* StepProgress: a completion is kept and on its way to the remote         *)

(* What a request is about to write of a completion says complete.         *)
CompletersSayComplete ==
  \A q \in StepRequests :
    Completing(q) /\ doing[q] \in {"writing", "renaming"} => sees[q].status = "complete"

(* A .tmp file that says otherwise has its writer before its rename, or    *)
(* nobody will rename it before it is written again.                       *)
StrayTmpIsHeld ==
  tmpFile # NoFile /\ tmpFile.status # "complete" =>
    \/ \E p \in StepRequests : ~Completing(p) /\ doing[p] = "renaming"
    \/ \A q \in StepRequests : doing[q] # "renaming"

(* While a completion is settled, nothing else is under way.               *)
SettledIsAlone == settled => \A p \in StepRequests : ~Unsettling(p)

StepInv ==
  /\ StepTypeOK /\ CompletersSayComplete /\ StrayTmpIsHeld /\ SettledIsAlone
  /\ StepsAreKept

LEMMA StepTypeStep ==
  ASSUME StepTypeOK, [StepsNext]_stepVars
  PROVE  StepTypeOK'
<1> USE DEF StepTypeOK, Proceed, StepState
<1>1. ASSUME NEW q \in StepRequests, FirstLook(q)
      PROVE  StepTypeOK'
  BY <1>1 DEF FirstLook
<1>2. ASSUME NEW q \in StepRequests, SetStatus(q)
      PROVE  StepTypeOK'
  <2>1. KindOf[q] \in Kinds
    BY StepAssumption
  <2>2. PICK given \in BOOLEAN :
          sees' = [sees EXCEPT ![q] =
            CASE KindOf[q] = "touch" -> [status |-> "in_progress", session |-> TRUE]
              [] KindOf[q] = "reopen" -> [status |-> IF sees[q].session THEN "in_progress" ELSE "untouched",
                                          session |-> stepFile.session]
              [] Completing(q) -> [status |-> "complete", session |-> given]]
    BY <1>2 DEF SetStatus
  <2> DEFINE new == CASE KindOf[q] = "touch" -> [status |-> "in_progress", session |-> TRUE]
              [] KindOf[q] = "reopen" -> [status |-> IF sees[q].session THEN "in_progress" ELSE "untouched",
                                          session |-> stepFile.session]
              [] Completing(q) -> [status |-> "complete", session |-> given]
  <2>3. new \in StepState
    <3>1. CASE KindOf[q] = "touch"
      BY <3>1 DEF Completing
    <3>2. CASE KindOf[q] = "reopen"
      BY <3>2 DEF Completing
    <3>3. CASE Completing(q)
      BY <3>3 DEF Completing
    <3>4. QED
      BY <2>1, <3>1, <3>2, <3>3 DEF Kinds, Completing
  <2> HIDE DEF new
  <2>4. sees' \in [StepRequests -> StepState]
    BY <2>2, <2>3 DEF new
  <2>5. QED
    BY <1>2, <2>4 DEF SetStatus
<1>3. ASSUME NEW q \in StepRequests, WriteTmp(q)
      PROVE  StepTypeOK'
  BY <1>3 DEF WriteTmp
<1>4. ASSUME NEW q \in StepRequests, RenameTmp(q)
      PROVE  StepTypeOK'
  BY <1>4 DEF RenameTmp
<1>5. ASSUME NEW q \in StepRequests, RenameFails(q) \/ AppendEvent(q) \/ AppendFails(q)
      PROVE  StepTypeOK'
  <2>1. /\ doing' = [doing EXCEPT ![q] = "over"] /\ UNCHANGED <<sees, stepFile, tmpFile, settled, crashed>>
        /\ UNCHANGED <<pushTimer, unpushed>> \/ (pushTimer' = TRUE /\ unpushed' = unpushed \cup {q})
    BY <1>5 DEF RenameFails, AppendEvent, AppendFails
  <2>2. QED
    BY <2>1
<1>6. CASE BeginPush \/ CrashSteps
  BY <1>6 DEF BeginPush, CrashSteps
<1>7. CASE UNCHANGED stepVars
  BY <1>7 DEF stepVars
<1>8. QED
  BY <1>1, <1>2, <1>3, <1>4, <1>5, <1>6, <1>7 DEF StepsNext

LEMMA StepInvStep ==
  ASSUME StepInv, [StepsNext]_stepVars
  PROVE  StepInv'
<1>0. StepTypeOK'
  BY StepTypeStep DEF StepInv
<1> DEFINE Kept == (CompletersSayComplete /\ StrayTmpIsHeld /\ SettledIsAlone /\ StepsAreKept)'
<1> USE <1>0 DEF StepInv, StepTypeOK, CompletersSayComplete, StrayTmpIsHeld, SettledIsAlone, StepsAreKept,
                 CompletionStays, PushIsScheduled, Proceed, Unsettling, Completing
<1>1. ASSUME NEW q \in StepRequests, FirstLook(q)
      PROVE  Kept
  <2>1. KindOf[q] # "complete" /\ KindOf[q] \in Kinds
    BY <1>1, StepAssumption DEF FirstLook
  <2>2. /\ \A p \in StepRequests \ {q} : sees'[p] = sees[p] /\ doing'[p] = doing[p]
        /\ doing[q] = "idle" /\ doing'[q] \in {"looked", "over"}
        /\ settled' = (settled /\ KindOf[q] # "reopen")
        /\ doing'[q] = "looked" => stepFile.status # "complete" \/ KindOf[q] = "reopen"
        /\ UNCHANGED <<stepFile, tmpFile, pushTimer, unpushed, crashed>>
    BY <1>1 DEF FirstLook
  <2>3. CompletersSayComplete' /\ StrayTmpIsHeld'
    BY <2>1, <2>2
  <2>4. SettledIsAlone'
    <3>1. settled' => settled /\ stepFile.status = "complete" /\ KindOf[q] # "reopen"
      BY <2>2
    <3>2. settled' => doing'[q] = "over"
      BY <2>2, <3>1
    <3>3. QED
      BY <2>2, <3>1, <3>2
  <2>5. StepsAreKept'
    BY <2>2
  <2>6. QED
    BY <2>3, <2>4, <2>5
<1>2. ASSUME NEW q \in StepRequests, SetStatus(q)
      PROVE  Kept
  <2>1. /\ \A p \in StepRequests \ {q} : sees'[p] = sees[p] /\ doing'[p] = doing[p]
        /\ doing'[q] = "writing" /\ doing[q] \notin {"renaming", "over"}
        /\ KindOf[q] # "complete" => doing[q] = "looked"
        /\ UNCHANGED <<stepFile, tmpFile, pushTimer, unpushed, settled, crashed>>
    BY <1>2 DEF SetStatus
  <2>2. Completing(q) => sees'[q].status = "complete"
    BY <1>2 DEF SetStatus
  <2>3. QED
    BY <2>1, <2>2
<1>3. ASSUME NEW q \in StepRequests, WriteTmp(q)
      PROVE  Kept
  BY <1>3 DEF WriteTmp
<1>4. ASSUME NEW q \in StepRequests, RenameTmp(q)
      PROVE  Kept
  <2>1. /\ \A p \in StepRequests \ {q} : doing'[p] = doing[p]
        /\ doing[q] = "renaming" /\ doing'[q] \in {"over", "logging"}
        /\ tmpFile # NoFile /\ tmpFile' = NoFile /\ stepFile' = tmpFile
        /\ settled' = IF Completing(q) THEN ~\E p \in StepRequests : Unsettling(p) ELSE settled
        /\ UNCHANGED <<sees, pushTimer, unpushed, crashed>>
    BY <1>4 DEF RenameTmp
  <2>2. settled' => stepFile'.status = "complete" /\ \A p \in StepRequests : ~Unsettling(p)
    BY <2>1
  <2>3. SettledIsAlone'
    <3> SUFFICES ASSUME settled', NEW p \in StepRequests
                 PROVE  ~Unsettling(p)'
      OBVIOUS
    <3>1. CASE p = q
      BY <2>1, <2>2, <3>1
    <3>2. QED
      BY <2>1, <2>2, <3>1
  <2>4. CompletersSayComplete' /\ StrayTmpIsHeld'
    BY <2>1
  <2>5. QED
    BY <2>1, <2>2, <2>3, <2>4
<1>5. ASSUME NEW q \in StepRequests, RenameFails(q) \/ AppendEvent(q) \/ AppendFails(q)
      PROVE  Kept
  BY <1>5 DEF RenameFails, AppendEvent, AppendFails
<1>6. CASE BeginPush \/ CrashSteps
  BY <1>6 DEF BeginPush, CrashSteps
<1>7. CASE UNCHANGED stepVars
  BY <1>7 DEF stepVars
<1>8. QED
  BY <1>1, <1>2, <1>3, <1>4, <1>5, <1>6, <1>7 DEF StepsNext

(* A step that was completed stays complete, and its completion is on the  *)
(* way to the remote (step-state.js, repository-autosync.ts), whichever    *)
(* requests share the .tmp file and wherever the server dies.              *)
THEOREM CompletionsKept == StepsSpec => [](StepTypeOK /\ StepsAreKept)
<1>1. StepInit => StepInv
  <2> SUFFICES ASSUME StepInit
               PROVE  StepInv
    OBVIOUS
  <2>1. StepTypeOK
    BY DEF StepInit, StepTypeOK, StepState, Untouched
  <2>2. CompletersSayComplete
    BY DEF StepInit, CompletersSayComplete
  <2>3. StrayTmpIsHeld /\ SettledIsAlone /\ StepsAreKept
    BY DEF StepInit, StrayTmpIsHeld, SettledIsAlone, StepsAreKept, CompletionStays, PushIsScheduled
  <2>4. QED
    BY <2>1, <2>2, <2>3 DEF StepInv
<1>2. StepInv /\ [StepsNext]_stepVars => StepInv'
  BY StepInvStep
<1>3. StepInv => StepTypeOK /\ StepsAreKept
  BY DEF StepInv
<1>4. QED
  BY <1>1, <1>2, <1>3, PTL DEF StepsSpec

-----------------------------------------------------------------------------
(* ProjectLife: what is listed is whole                                    *)

CreatePlaces == Ended \cup {"checked", "wiping", "wiped", "rooted", "equipped", "stored", "recorded"}
Creating(c) == creating[c] \notin Ended
Deleting(q) == deleting[q] \notin Ended

(* Without overlap one create or delete runs, and no secret is set then.   *)
OneAtATime ==
  /\ \A c, d \in Creates : Creating(c) /\ Creating(d) => c = d
  /\ \A q, p \in ProjectDeletes : Deleting(q) /\ Deleting(p) => q = p
  /\ \A c \in Creates, q \in ProjectDeletes : ~(Creating(c) /\ Deleting(q))
  /\ MajorRuns => \A w \in SecretWrites : writing[w].at \in Ended

(* How far a create is says what it has made.                              *)
MadeSoFar ==
  \A c \in Creates :
    /\ Creating(c) /\ creating[c] # "recorded" => projectRow = NoProject
    /\ creating[c] \in {"wiping", "wiped", "rooted", "equipped"} => artifacts = NoProject
    /\ creating[c] = "wiped" => root = NoProject
    /\ creating[c] \in {"rooted", "equipped", "stored"} => root = c
    /\ creating[c] = "stored" => artifacts = c

(* Whose row a deletion found, and a secret is for.                        *)
FoundRow ==
  /\ \A q \in ProjectDeletes : /\ Deleting(q) => projectRow # NoProject /\ projectRow \in begun
                               /\ deleting[q] = "bare" => secrets = {}
  /\ \A w \in SecretWrites : writing[w].at = "found" => writing[w].for = projectRow /\ projectRow # NoProject

(* A request that sets a secret has a project to set it for.               *)
SecretsAreForSome == \A w \in SecretWrites : writing[w].at = "found" => writing[w].for # NoProject

(* A slug without a project has no secrets.                                *)
NoSecretsLeft == projectRow = NoProject => secrets = {}

ProjectInv ==
  /\ ProjectTypeOK /\ SecretsAreForSome
  /\ ~overlap => OneAtATime /\ MadeSoFar /\ FoundRow /\ NoSecretsLeft
  /\ ProjectsAreWhole

LEMMA ProjectTypeStep ==
  ASSUME ProjectTypeOK, SecretsAreForSome, [ProjectNext]_projectVars
  PROVE  ProjectTypeOK' /\ SecretsAreForSome'
<1> DEFINE Kept == ProjectTypeOK' /\ SecretsAreForSome'
<1>0. AnyRuns \in BOOLEAN /\ MajorRuns \in BOOLEAN
  BY DEF AnyRuns, MajorRuns
<1> USE DEF ProjectTypeOK, SecretsAreForSome, Make, Drop, Ended
<1>1. ASSUME NEW c \in Creates,
             CheckRow(c) \/ WipeArtifacts(c) \/ WipeRoot(c) \/ SpecifyInit(c)
      PROVE  Kept
  BY <1>0, <1>1 DEF CheckRow, WipeArtifacts, WipeRoot, SpecifyInit
<1>2. ASSUME NEW c \in Creates, Equip(c) \/ CreateArtifacts(c) \/ RecordRow(c) \/ AddCreator(c)
      PROVE  Kept
  BY <1>2 DEF Equip, CreateArtifacts, RecordRow, AddCreator
<1>3. ASSUME NEW q \in ProjectDeletes,
             FindProject(q) \/ RemoveArtifacts(q) \/ RemoveRoot(q) \/ DeleteSecrets(q) \/ DeleteRow(q)
      PROVE  Kept
  BY <1>0, <1>3 DEF FindProject, RemoveArtifacts, RemoveRoot, DeleteSecrets, DeleteRow
<1>4. ASSUME NEW w \in SecretWrites, FindForSecret(w)
      PROVE  Kept
  BY <1>0, <1>4 DEF FindForSecret
<1>5. ASSUME NEW w \in SecretWrites, SetSecret(w)
      PROVE  Kept
  BY <1>5 DEF SetSecret
<1>6. CASE CrashProjects
  BY <1>6 DEF CrashProjects
<1>7. CASE UNCHANGED projectVars
  BY <1>7 DEF projectVars
<1>8. QED
  BY <1>1, <1>2, <1>3, <1>4, <1>5, <1>6, <1>7 DEF ProjectNext

LEMMA ProjectInvStep ==
  ASSUME ProjectInv, [ProjectNext]_projectVars
  PROVE  ProjectInv'
<1>0. ProjectTypeOK' /\ SecretsAreForSome'
  BY ProjectTypeStep DEF ProjectInv
<1> SUFFICES ASSUME ~overlap'
             PROVE  (OneAtATime /\ MadeSoFar /\ FoundRow /\ NoSecretsLeft /\ ProjectsAreWhole)'
  BY <1>0 DEF ProjectInv, ProjectsAreWhole
<1> DEFINE Kept == (OneAtATime /\ MadeSoFar /\ FoundRow /\ NoSecretsLeft /\ ProjectsAreWhole)'
<1> USE <1>0, ProjectAssumption
    DEF ProjectInv, ProjectTypeOK, OneAtATime, MadeSoFar, FoundRow, NoSecretsLeft, ProjectsAreWhole,
        Creating, Deleting, Make, Drop, Ended, MajorRuns
<1>1. ASSUME NEW c \in Creates, CheckRow(c)
      PROVE  Kept
  <2>1. ~overlap /\ ~AnyRuns
    BY <1>1 DEF CheckRow
  <2>2. QED
    BY <1>1, <2>1 DEF CheckRow, AnyRuns
<1>2. ASSUME NEW c \in Creates, WipeArtifacts(c) \/ WipeRoot(c)
      PROVE  Kept
  BY <1>2 DEF WipeArtifacts, WipeRoot
<1>3. ASSUME NEW c \in Creates, SpecifyInit(c)
      PROVE  Kept
  BY <1>3 DEF SpecifyInit
<1>4. ASSUME NEW c \in Creates, Equip(c)
      PROVE  Kept
  BY <1>4 DEF Equip
<1>5. ASSUME NEW c \in Creates, CreateArtifacts(c)
      PROVE  Kept
  BY <1>5 DEF CreateArtifacts
<1>6. ASSUME NEW c \in Creates, RecordRow(c)
      PROVE  Kept
  BY <1>6 DEF RecordRow
<1>7. ASSUME NEW c \in Creates, AddCreator(c)
      PROVE  Kept
  BY <1>7 DEF AddCreator
<1>8. ASSUME NEW q \in ProjectDeletes, FindProject(q)
      PROVE  Kept
  <2>1. ~overlap /\ ~AnyRuns
    BY <1>8 DEF FindProject
  <2>2. QED
    BY <1>8, <2>1 DEF FindProject, AnyRuns
<1>9. ASSUME NEW q \in ProjectDeletes, RemoveArtifacts(q) \/ RemoveRoot(q)
      PROVE  Kept
  BY <1>9 DEF RemoveArtifacts, RemoveRoot
<1>10. ASSUME NEW q \in ProjectDeletes, DeleteSecrets(q) \/ DeleteRow(q)
       PROVE  Kept
  BY <1>10 DEF DeleteSecrets, DeleteRow
<1>11. ASSUME NEW w \in SecretWrites, FindForSecret(w)
       PROVE  Kept
  <2>1. ~overlap /\ ~MajorRuns
    BY <1>11 DEF FindForSecret
  <2>2. QED
    BY <1>11, <2>1 DEF FindForSecret, MajorRuns
<1>12. ASSUME NEW w \in SecretWrites, SetSecret(w)
       PROVE  Kept
  BY <1>12 DEF SetSecret
<1>13. CASE CrashProjects
  BY <1>13 DEF CrashProjects
<1>14. CASE UNCHANGED projectVars
  BY <1>14 DEF projectVars
<1>15. QED
  BY <1>1, <1>2, <1>3, <1>4, <1>5, <1>6, <1>7, <1>8, <1>9, <1>10, <1>11, <1>12, <1>13, <1>14
     DEF ProjectNext

(* A project that is listed has its own directories and no secret of an    *)
(* earlier project of its name (project-creation.ts, [projSlug].delete.ts, *)
(* secrets-store.ts), whatever failed or died before, where requests did   *)
(* not overlap.                                                            *)
THEOREM ProjectsWhole == ProjectSpec => [](ProjectTypeOK /\ ProjectsAreWhole)
<1>1. ProjectInit => ProjectInv
  <2> SUFFICES ASSUME ProjectInit
               PROVE  ProjectInv
    OBVIOUS
  <2>1. ProjectTypeOK
    BY DEF ProjectInit, ProjectTypeOK, Ended
  <2>0. SecretsAreForSome
    BY DEF ProjectInit, SecretsAreForSome
  <2>2. OneAtATime /\ MadeSoFar /\ FoundRow
    BY DEF ProjectInit, OneAtATime, MadeSoFar, FoundRow, Creating, Deleting, Ended
  <2>3. NoSecretsLeft /\ ProjectsAreWhole
    BY DEF ProjectInit, NoSecretsLeft, ProjectsAreWhole
  <2>4. QED
    BY <2>0, <2>1, <2>2, <2>3 DEF ProjectInv
<1>2. ProjectInv /\ [ProjectNext]_projectVars => ProjectInv'
  BY ProjectInvStep
<1>3. ProjectInv => ProjectTypeOK /\ ProjectsAreWhole
  BY DEF ProjectInv
<1>4. QED
  BY <1>1, <1>2, <1>3, PTL DEF ProjectSpec

-----------------------------------------------------------------------------
(* SpecDraft: versions are what was published, and a save that was told    *)
(* is on the server                                                        *)

SaveRecord == [draft : Drafts \cup {NoDraft}, files : Nat, rev : Nat,
               at : {"idle", "sending", "stored", "refused", "astray"}, tries : 0..MaxRetries + 1]
LoadRecord == [draft : Drafts \cup {NoDraft}, files : Nat]

(* A content of a draft is one of its edits.                               *)
ContentsAreSound ==
  /\ edits \in [Drafts -> Nat] /\ stored \in [Drafts -> Nat]
  /\ \A d \in Drafts : edits[d] <= MaxEdits[d] /\ stored[d] <= edits[d]

(* A browser shows, loads and saves drafts of its author, with a content   *)
(* the draft has had.                                                      *)
SessionsAreSound ==
  /\ session \in [Authors -> [draft : Drafts \cup {NoDraft}, files : Nat, rev : Nat]]
  /\ \A u \in Authors : LET d == session[u].draft IN
       d # NoDraft => AuthorOf[d] = u /\ session[u].files <= edits[d]
LoadsAreSound ==
  /\ loading \in [Authors -> LoadRecord]
  /\ \A u \in Authors : LET d == loading[u].draft IN
       loading[u] # Nothing => d \in Drafts /\ AuthorOf[d] = u /\ loading[u].files <= edits[d]
SavesAreSound ==
  /\ save \in [Saves -> SaveRecord]
  /\ \A a \in Saves : LET d == save[a].draft IN
       save[a].at # "idle" => d \in Drafts /\ AuthorOf[d] = SaverOf[a] /\ save[a].files <= edits[d]

PublicIsSound ==
  /\ calmly \in BOOLEAN /\ torn \in BOOLEAN
  /\ pendingSave \subseteq Authors /\ belated \subseteq Drafts /\ lock \in Drafts \cup {NoDraft}
  /\ baseVersion \in [Drafts -> Nat] /\ draftStatus \in [Drafts -> {"none", "draft", "published", "deleted"}]
  /\ publishing \in [Drafts -> {"no", "asked", "locked", "writing", "written"}]
  /\ history \in Seq([draft : Drafts, base : Nat, edits : Nat])

DraftTypes == ContentsAreSound /\ SessionsAreSound /\ LoadsAreSound /\ SavesAreSound /\ PublicIsSound

(* The types of the server's side.                                         *)
LEMMA PublicTypeStep ==
  ASSUME DraftTypes, [DraftNext]_draftVars
  PROVE  PublicIsSound'
<1> USE DraftAssumption DEF DraftTypes, PublicIsSound
<1>1. ASSUME NEW d \in Drafts, CreateDraft(d)
      PROVE  PublicIsSound'
  <2>1. \A v \in 0..Version : v \in Nat
    BY DEF Version
  <2>2. QED
    BY <1>1, <2>1 DEF CreateDraft, browserVars, publicVars
<1>2. ASSUME NEW d \in Drafts, DeleteDraft(d) \/ LockAndCompare(d) \/ BeginWrite(d) \/ EndWrite(d)
      PROVE  PublicIsSound'
  BY <1>2 DEF DeleteDraft, LockAndCompare, BeginWrite, EndWrite, browserVars, rowVars, publicVars
<1>3. ASSUME NEW d \in Drafts, CommitPublish(d)
      PROVE  PublicIsSound'
  <2>1. [draft |-> d, base |-> baseVersion[d], edits |-> stored[d]] \in [draft : Drafts, base : Nat, edits : Nat]
    BY DEF ContentsAreSound
  <2>2. history' \in Seq([draft : Drafts, base : Nat, edits : Nat])
    BY <1>3, <2>1 DEF CommitPublish
  <2>3. QED
    BY <1>3, <2>2 DEF CommitPublish, browserVars
<1>4. ASSUME NEW d \in Drafts, RollBackPublish(d)
      PROVE  PublicIsSound'
  BY <1>4 DEF RollBackPublish, browserVars, rowVars
<1>5. ASSUME NEW u \in Authors, LoadDraft(u) \/ Edit(u) \/ Reload(u)
      PROVE  PublicIsSound'
  BY <1>5 DEF LoadDraft, Edit, Reload, rowVars, publicVars
<1>6. ASSUME NEW u \in Authors, NEW d \in Drafts, OpenDraft(u, d) \/ Publish(u, d)
      PROVE  PublicIsSound'
  BY <1>6 DEF OpenDraft, Publish, browserVars, rowVars, publicVars
<1>7. ASSUME NEW a \in Saves, CommitTurn(a) \/ PatchDraft(a) \/ SaveSucceeds(a) \/ SaveFails(a) \/ RetrySave(a)
      PROVE  PublicIsSound'
  BY <1>7 DEF CommitTurn, PatchDraft, SaveSucceeds, SaveFails, RetrySave, rowVars, publicVars
<1>8. CASE UNCHANGED draftVars
  BY <1>8 DEF draftVars, browserVars, rowVars, publicVars
<1>9. ASSUME NEW a \in Saves, PatchLate(a)
      PROVE  PublicIsSound'
  <2>1. save[a].draft \in Drafts
    BY <1>9 DEF PatchLate, SavesAreSound
  <2>2. QED
    BY <1>9, <2>1 DEF PatchLate, publicVars
<1>10. QED
  BY <1>1, <1>2, <1>3, <1>4, <1>5, <1>6, <1>7, <1>8, <1>9 DEF DraftNext, DraftStep, BrowserStep

(* A PATCH that is left behind is one of what its save sent.               *)
LEMMA AstrayIsSound ==
  ASSUME NEW a \in Saves, SavesAreSound, save[a].at # "idle"
  PROVE  /\ Astray(a) \in SaveRecord /\ Astray(a).draft = save[a].draft /\ Astray(a).files = save[a].files
         /\ Astray(a).at = "astray"
<1>1. save[a].draft \in Drafts /\ save[a].files \in Nat
  BY DEF SavesAreSound, SaveRecord
<1>2. QED
  BY <1>1, DraftAssumption DEF SaveRecord, Astray

(* Saves stay sound that are what saves of the same browser were.          *)
LEMMA SavesStaySound ==
  ASSUME SavesAreSound, edits' = edits, save' \in [Saves -> SaveRecord],
         \A a \in Saves : save'[a].at # "idle" =>
           \E b \in Saves : /\ SaverOf[b] = SaverOf[a] /\ save[b].at # "idle"
                           /\ save'[a].draft = save[b].draft /\ save'[a].files = save[b].files
  PROVE  SavesAreSound'
BY DEF SavesAreSound

(* The types of the browsers' side.                                        *)
BrowsersAreSound == ContentsAreSound /\ SessionsAreSound /\ LoadsAreSound /\ SavesAreSound
LEMMA BrowserTypeStep ==
  ASSUME DraftTypes, [DraftNext]_draftVars
  PROVE  BrowsersAreSound'
<1> USE DraftAssumption DEF DraftTypes, BrowsersAreSound
<1> USE DEF ContentsAreSound, SessionsAreSound, LoadsAreSound, SavesAreSound
<1>1. CASE UNCHANGED <<session, loading, save, edits, stored>>
  BY <1>1
<1>2. ASSUME NEW d \in Drafts, DraftStep(d)
      PROVE  BrowsersAreSound'
  BY <1>1, <1>2 DEF DraftStep, CreateDraft, DeleteDraft, LockAndCompare, BeginWrite, EndWrite, CommitPublish,
                    RollBackPublish, browserVars, rowVars, publicVars
<1>3. ASSUME NEW u \in Authors, NEW d \in Drafts, OpenDraft(u, d)
      PROVE  BrowsersAreSound'
  <2>1. /\ \A x \in Authors \ {u} : loading'[x] = loading[x]
        /\ loading'[u].draft = d /\ loading'[u].files = stored[d] /\ AuthorOf[d] = u
        /\ loading' \in [Authors -> LoadRecord]
        /\ UNCHANGED <<session, save, edits, stored>>
    BY <1>3 DEF OpenDraft, LoadRecord
  <2>2. LoadsAreSound'
    BY <2>1
  <2>3. QED
    BY <2>1, <2>2
<1>4. ASSUME NEW u \in Authors, LoadDraft(u)
      PROVE  BrowsersAreSound'
  <2> DEFINE l == loading[u]
             new == [draft |-> l.draft, files |-> l.files, rev |-> 0]
  <2>1. /\ l # Nothing /\ l.draft \in Drafts /\ AuthorOf[l.draft] = u /\ l.files <= edits[l.draft] /\ l.files \in Nat
        /\ loading' = [loading EXCEPT ![u] = Nothing] /\ session' = [session EXCEPT ![u] = new]
        /\ UNCHANGED <<save, edits, stored>>
    BY <1>4 DEF LoadDraft, rowVars, LoadRecord
  <2>2. Nothing \in LoadRecord
    BY DEF Nothing, LoadRecord
  <2>3. LoadsAreSound'
    BY <2>1, <2>2
  <2>4. new \in [draft : Drafts \cup {NoDraft}, files : Nat, rev : Nat] /\ new.draft = l.draft /\ new.files = l.files
    BY <2>1
  <2> HIDE DEF new, l
  <2>5. SessionsAreSound'
    BY <2>1, <2>4
  <2>6. QED
    BY <2>1, <2>3, <2>5
<1>5. ASSUME NEW u \in Authors, Edit(u)
      PROVE  BrowsersAreSound'
  <2> DEFINE d == session[u].draft
  <2>1. /\ d \in Drafts /\ edits[d] < MaxEdits[d] /\ edits' = [edits EXCEPT ![d] = @ + 1]
        /\ session' = [session EXCEPT ![u].files = edits[d] + 1, ![u].rev = @ + 1]
        /\ UNCHANGED <<loading, save, stored>>
    BY <1>5 DEF Edit, rowVars
  <2>2. /\ session' \in [Authors -> [draft : Drafts \cup {NoDraft}, files : Nat, rev : Nat]]
        /\ \A x \in Authors : session'[x].draft = session[x].draft
        /\ \A x \in Authors \ {u} : session'[x] = session[x]
        /\ session'[u].files = edits[d] + 1
    BY <2>1
  <2>3. /\ edits' \in [Drafts -> Nat] /\ edits'[d] = edits[d] + 1
        /\ \A x \in Drafts : edits[x] <= edits'[x] /\ edits'[x] <= MaxEdits[x]
    BY <2>1
  <2> HIDE DEF d
  <2>4. SessionsAreSound'
    <3>1. ASSUME NEW x \in Authors, session'[x].draft # NoDraft
          PROVE  AuthorOf[session'[x].draft] = x /\ session'[x].files <= edits'[session'[x].draft]
      <4>1. CASE x = u
        BY <2>1, <2>2, <2>3, <3>1, <4>1 DEF d
      <4>2. CASE x # u
        <5>1. session'[x] = session[x] /\ session[x].draft \in Drafts
          BY <2>2, <3>1, <4>2
        <5>2. /\ session[x].files \in Nat /\ edits[session[x].draft] \in Nat /\ edits'[session[x].draft] \in Nat
              /\ session[x].files <= edits[session[x].draft] /\ AuthorOf[session[x].draft] = x
          BY <2>3, <3>1, <5>1
        <5>3. QED
          BY <2>3, <5>1, <5>2
      <4>3. QED
        BY <4>1, <4>2
    <3>2. QED
      BY <2>2, <3>1
  <2>5. LoadsAreSound'
    BY <2>1, <2>3 DEF LoadRecord
  <2>6. SavesAreSound'
    BY <2>1, <2>3 DEF SaveRecord
  <2>7. ContentsAreSound'
    BY <2>1, <2>3
  <2>8. QED
    BY <2>4, <2>5, <2>6, <2>7
<1>6. ASSUME NEW u \in Authors, Reload(u)
      PROVE  BrowsersAreSound'
  <2>1. NoSave \in SaveRecord /\ NoSave.at = "idle" /\ Nothing \in LoadRecord
    BY DEF NoSave, SaveRecord, Nothing, LoadRecord
  <2>2. UNCHANGED <<edits, stored>>
    BY <1>6 DEF Reload, rowVars
  <2>3. SavesAreSound'
    <3>1. PICK late \in SUBSET {a \in Saves : SaverOf[a] = u /\ save[a].at = "sending"} :
            save' = [a \in Saves |-> IF SaverOf[a] # u \/ save[a].at = "astray" THEN save[a]
                                    ELSE IF a \in late THEN Astray(a) ELSE NoSave]
      BY <1>6 DEF Reload
    <3>2. \A a \in Saves : save'[a] = save[a] \/ save'[a] = NoSave \/ (a \in late /\ save'[a] = Astray(a))
      BY <3>1
    <3>3. ASSUME NEW a \in Saves
          PROVE  /\ save'[a] \in SaveRecord
                 /\ save'[a].at # "idle" => /\ save[a].at # "idle" /\ save'[a].draft = save[a].draft
                                           /\ save'[a].files = save[a].files
      <4>1. a \in late => save[a].at = "sending"
        OBVIOUS
      <4>2. QED
        BY <2>1, <3>2, <4>1, AstrayIsSound
    <3>4. save' \in [Saves -> SaveRecord]
      BY <3>1, <3>3
    <3>5. QED
      BY <2>2, <3>3, <3>4, SavesStaySound
  <2>4. LoadsAreSound'
    BY <1>6, <2>1, <2>2 DEF Reload
  <2>5. SessionsAreSound'
    BY <1>6, <2>2 DEF Reload
  <2>6. QED
    BY <2>2, <2>3, <2>4, <2>5
<1>7. ASSUME NEW u \in Authors, NEW d \in Drafts, Publish(u, d)
      PROVE  BrowsersAreSound'
  BY <1>1, <1>7 DEF Publish, browserVars, rowVars
<1>8. ASSUME NEW a \in Saves, CommitTurn(a)
      PROVE  BrowsersAreSound'
  <2> DEFINE u == SaverOf[a]
             new == [draft |-> session[u].draft, files |-> session[u].files, rev |-> session[u].rev,
                     at |-> "sending", tries |-> 1]
  <2>1. /\ u \in Authors /\ session[u].draft # NoDraft
        /\ save' = [save EXCEPT ![a] = new]
        /\ UNCHANGED <<session, loading, edits, stored>>
    BY <1>8, Zenon DEF CommitTurn, rowVars
  <2>2. /\ new \in SaveRecord /\ new.draft \in Drafts /\ AuthorOf[new.draft] = SaverOf[a]
        /\ new.files <= edits[new.draft]
    BY <2>1 DEF SaveRecord
  <2> HIDE DEF new, u
  <2>3. SavesAreSound'
    BY <2>1, <2>2
  <2>4. QED
    BY <2>1, <2>3
<1>9. ASSUME NEW a \in Saves, PatchDraft(a)
      PROVE  BrowsersAreSound'
  <2>0. PICK place \in {"stored", "refused"} : save' = [save EXCEPT ![a].at = place]
    BY <1>9 DEF PatchDraft
  <2>4. save[a].at = "sending" /\ UNCHANGED <<session, loading, edits>>
    BY <1>9 DEF PatchDraft
  <2>1. /\ save' \in [Saves -> SaveRecord]
        /\ \A b \in Saves : /\ save'[b].draft = save[b].draft /\ save'[b].files = save[b].files
                            /\ save'[b].at # "idle" => save[b].at # "idle"
        /\ UNCHANGED <<session, loading, edits>>
    BY <2>0, <2>4 DEF SaveRecord
  <2>2. stored' \in [Drafts -> Nat] /\ \A d \in Drafts : stored'[d] <= edits[d]
    <3>1. save[a] \in SaveRecord /\ save[a].files \in Nat
      BY DEF SaveRecord
    <3>2. CASE stored' = stored
      BY <3>2
    <3>3. CASE stored' = [stored EXCEPT ![save[a].draft] = save[a].files]
      BY <2>4, <3>1, <3>3
    <3>4. QED
      BY <1>9, <3>2, <3>3 DEF PatchDraft
  <2>3. QED
    BY <2>1, <2>2
<1>10. ASSUME NEW a \in Saves, SaveSucceeds(a) \/ SaveFails(a)
       PROVE  BrowsersAreSound'
  <2>1. NoSave \in SaveRecord /\ NoSave.at = "idle"
    BY DEF NoSave, SaveRecord
  <2>2. /\ save' = [save EXCEPT ![a] = NoSave] \/ (save[a].at = "sending" /\ save' = [save EXCEPT ![a] = Astray(a)])
        /\ UNCHANGED <<session, loading, edits, stored>>
    BY <1>10 DEF SaveSucceeds, SaveFails, rowVars
  <2>3. /\ save' \in [Saves -> SaveRecord]
        /\ \A b \in Saves : save'[b].at # "idle" =>
             save[b].at # "idle" /\ save'[b].draft = save[b].draft /\ save'[b].files = save[b].files
    <3>1. CASE save' = [save EXCEPT ![a] = NoSave]
      BY <2>1, <3>1
    <3>2. CASE save[a].at = "sending" /\ save' = [save EXCEPT ![a] = Astray(a)]
      <4>1. /\ Astray(a) \in SaveRecord /\ Astray(a).draft = save[a].draft
            /\ Astray(a).files = save[a].files
        BY <3>2, AstrayIsSound
      <4>2. QED
        BY <3>2, <4>1
    <3>3. QED
      BY <2>2, <3>1, <3>2
  <2>4. SavesAreSound'
    BY <2>2, <2>3, SavesStaySound
  <2>5. QED
    BY <2>2, <2>4
<1>11. ASSUME NEW a \in Saves, RetrySave(a)
       PROVE  BrowsersAreSound'
  <2>1. UNCHANGED <<session, loading, edits, stored>>
    BY <1>11 DEF RetrySave, rowVars
  <2>2. CASE save' = [save EXCEPT ![a].at = "sending", ![a].tries = @ + 1]
    <3>1. /\ save' \in [Saves -> SaveRecord]
          /\ \A b \in Saves : /\ save'[b].draft = save[b].draft /\ save'[b].files = save[b].files
                              /\ save'[b].at # "idle" => save[b].at # "idle"
      BY <1>11, <2>2 DEF RetrySave, SaveRecord
    <3>2. QED
      BY <2>1, <3>1
  <2>3. ASSUME NEW b \in Saves, save[a].at = "sending", save[b].at = "idle", SaverOf[b] = SaverOf[a],
               save' = [save EXCEPT ![a].tries = @ + 1, ![b] = Astray(a)]
        PROVE  BrowsersAreSound'
    <3>1. /\ \A c \in Saves \ {a, b} : save'[c] = save[c]
          /\ save'[b] = Astray(a) /\ save'[a] = [save[a] EXCEPT !.tries = @ + 1]
      BY <2>3
    <3>2. /\ save'[a] \in SaveRecord /\ save'[a].draft = save[a].draft /\ save'[a].files = save[a].files
          /\ save[a].at # "idle"
      BY <1>11, <2>3, <3>1 DEF RetrySave, SaveRecord
    <3>3. /\ Astray(a) \in SaveRecord /\ Astray(a).draft = save[a].draft /\ Astray(a).files = save[a].files
      BY <2>3, AstrayIsSound
    <3>4. save' \in [Saves -> SaveRecord]
      BY <2>3, <3>2, <3>3
    <3>5. SavesAreSound'
      <4>1. \A c \in Saves \ {a, b} : save'[c].draft = save[c].draft /\ save'[c].files = save[c].files
                                     /\ save'[c].at = save[c].at
        BY <3>1
      <4>2. save'[b].draft = save[a].draft /\ save'[b].files = save[a].files
        BY <3>1, <3>3
      <4>3. ASSUME NEW c \in Saves, save'[c].at # "idle"
            PROVE  \E e \in Saves : /\ SaverOf[e] = SaverOf[c] /\ save[e].at # "idle"
                                   /\ save'[c].draft = save[e].draft /\ save'[c].files = save[e].files
        <5>1. CASE c \in {a, b}
          BY <2>3, <3>2, <4>2, <5>1
        <5>2. CASE c \notin {a, b}
          BY <4>1, <4>3, <5>2
        <5>3. QED
          BY <5>1, <5>2
      <4> HIDE DEF SavesAreSound
      <4>4. QED
        BY <2>1, <3>4, <4>3, SavesStaySound DEF DraftTypes
    <3>6. QED
      BY <2>1, <3>5
  <2>4. QED
    BY <1>11, <2>2, <2>3 DEF RetrySave
<1>12. CASE UNCHANGED draftVars
  BY <1>1, <1>12 DEF draftVars, browserVars, rowVars
<1>13. ASSUME NEW a \in Saves, PatchLate(a)
       PROVE  BrowsersAreSound'
  <2>1. NoSave \in SaveRecord /\ NoSave.at = "idle" /\ save[a].files \in Nat
    BY DEF NoSave, SaveRecord
  <2>2. /\ save[a].at # "idle" /\ save' = [save EXCEPT ![a] = NoSave] /\ UNCHANGED <<session, loading, edits>>
        /\ stored' = stored \/ stored' = [stored EXCEPT ![save[a].draft] = save[a].files]
    BY <1>13 DEF PatchLate
  <2>3. stored' \in [Drafts -> Nat] /\ \A d \in Drafts : stored'[d] <= edits[d]
    <3>1. save[a].draft \in Drafts /\ save[a].files <= edits[save[a].draft]
      BY <2>2
    <3>2. CASE stored' = stored
      BY <3>2
    <3>3. CASE stored' = [stored EXCEPT ![save[a].draft] = save[a].files]
      BY <2>1, <3>1, <3>3
    <3>4. QED
      BY <2>2, <3>2, <3>3
  <2>4. SavesAreSound'
    BY <2>1, <2>2, SavesStaySound
  <2>5. QED
    BY <2>2, <2>3, <2>4
<1>14. QED
  BY <1>2, <1>3, <1>4, <1>5, <1>6, <1>7, <1>8, <1>9, <1>10, <1>11, <1>12, <1>13 DEF DraftNext, BrowserStep

(* A publish that has the lock is the one that compared, writes and        *)
(* commits; what it locked stays a draft of the current version.           *)
Held == {"locked", "writing", "written"}
LockIsHeld ==
  /\ \A d \in Drafts : publishing[d] \in Held <=> lock = d
  /\ lock # NoDraft => draftStatus[lock] = "draft" /\ baseVersion[lock] = Version
  /\ lock # NoDraft /\ publishing[lock] = "written" => specs = <<lock, stored[lock]>>

TrailInv == LockIsHeld /\ PublicStateIsTrail

LEMMA VersionsAreDrafts ==
  ASSUME DraftTypes
  PROVE  Version \in Nat /\ \A v \in 1..Version : history[v].draft \in Drafts
<1> DEFINE Entry == [draft : Drafts, base : Nat, edits : Nat]
<1>1. history \in Seq(Entry)
  BY DEF DraftTypes, PublicIsSound
<1>2. \A e \in Entry : e.draft \in Drafts
  OBVIOUS
<1> HIDE DEF Entry
<1>3. Len(history) \in Nat /\ \A v \in 1..Len(history) : history[v] \in Entry
  BY <1>1
<1>4. QED
  BY <1>2, <1>3 DEF Version

(* Steps that leave alone what is published and what is locked.            *)
LEMMA TrailStays ==
  ASSUME DraftTypes, TrailInv, UNCHANGED <<history, lock, specs, torn>>,
         \A d \in Drafts : \/ publishing'[d] = publishing[d]
                           \/ publishing[d] \notin Held /\ publishing'[d] \notin Held,
         \A d \in Drafts : draftStatus[d] = "published" => draftStatus'[d] = "published" /\ stored'[d] = stored[d],
         lock # NoDraft => UNCHANGED <<draftStatus[lock], baseVersion[lock], stored[lock]>>
  PROVE  TrailInv'
<1>0. lock \in Drafts \cup {NoDraft} /\ lock' = lock /\ history' = history /\ Version' = Version /\ Public' = Public
  BY DEF DraftTypes, PublicIsSound, Version, Public
<1>1. \A v \in 1..Version : history[v].draft \in Drafts
  BY VersionsAreDrafts
<1>2. LockIsHeld'
  BY <1>0, DraftAssumption DEF TrailInv, LockIsHeld
<1>3. PublicStateIsTrail'
  BY <1>0, <1>1 DEF TrailInv, PublicStateIsTrail, LockIsHeld, Held
<1>4. QED
  BY <1>2, <1>3 DEF TrailInv

LEMMA TrailStep ==
  ASSUME DraftTypes, TrailInv, [DraftNext]_draftVars
  PROVE  TrailInv'
<1>0. DraftTypes'
  BY PublicTypeStep, BrowserTypeStep DEF DraftTypes, BrowsersAreSound
<1> USE <1>0, DraftAssumption
<1>1. CASE UNCHANGED <<publishing, lock, history, specs, torn, draftStatus, baseVersion, stored>>
  BY <1>1, TrailStays
<1>2. ASSUME NEW d \in Drafts, CreateDraft(d)
      PROVE  TrailInv'
  <2>1. /\ UNCHANGED <<history, lock, specs, torn, publishing, stored>> /\ draftStatus[d] = "none"
        /\ draftStatus' = [draftStatus EXCEPT ![d] = "draft"]
        /\ \A e \in Drafts \ {d} : baseVersion'[e] = baseVersion[e]
    BY <1>2 DEF CreateDraft, publicVars, DraftTypes, PublicIsSound
  <2>2. lock # d
    BY <2>1 DEF TrailInv, LockIsHeld
  <2>3. lock # NoDraft => UNCHANGED <<draftStatus[lock], baseVersion[lock], stored[lock]>>
    BY <2>1, <2>2 DEF DraftTypes, PublicIsSound
  <2>4. QED
    BY <2>1, <2>3, TrailStays DEF DraftTypes, PublicIsSound
<1>3. ASSUME NEW d \in Drafts, DeleteDraft(d)
      PROVE  TrailInv'
  <2>1. /\ UNCHANGED <<history, lock, specs, torn, publishing, stored, baseVersion>> /\ draftStatus[d] = "draft"
        /\ draftStatus' = [draftStatus EXCEPT ![d] = "deleted"] /\ lock # d
    BY <1>3 DEF DeleteDraft, publicVars, RowLocked
  <2>2. QED
    BY <2>1, TrailStays DEF DraftTypes, PublicIsSound
<1>4. ASSUME NEW d \in Drafts, LockAndCompare(d)
      PROVE  TrailInv'
  <2>1. /\ publishing[d] = "asked" /\ lock = NoDraft
        /\ UNCHANGED <<baseVersion, draftStatus, stored, history, specs, torn>>
    BY <1>4 DEF LockAndCompare, rowVars
  <2>2. CASE draftStatus[d] = "draft" /\ baseVersion[d] = Version
    <3>1. lock' = d /\ publishing' = [publishing EXCEPT ![d] = "locked"]
      BY <1>4, <2>2 DEF LockAndCompare
    <3>2. /\ publishing'[d] = "locked" /\ Version' = Version /\ Public' = Public
          /\ \A e \in Drafts \ {d} : publishing'[e] = publishing[e] /\ publishing[e] \notin Held
      BY <2>1, <3>1 DEF DraftTypes, PublicIsSound, TrailInv, LockIsHeld, Version, Public
    <3>3. LockIsHeld'
      BY <2>1, <2>2, <3>1, <3>2 DEF LockIsHeld, Held
    <3>4. PublicStateIsTrail'
      BY <2>1, <3>1, <3>2 DEF TrailInv, PublicStateIsTrail
    <3>5. QED
      BY <3>3, <3>4 DEF TrailInv
  <2>3. CASE ~(draftStatus[d] = "draft" /\ baseVersion[d] = Version)
    <3>1. lock' = lock /\ publishing' = [publishing EXCEPT ![d] = "no"]
      BY <1>4, <2>3 DEF LockAndCompare
    <3>2. QED
      BY <2>1, <3>1, TrailStays DEF DraftTypes, PublicIsSound, Held
  <2>4. QED
    BY <2>2, <2>3
<1>5. ASSUME NEW d \in Drafts, BeginWrite(d) \/ EndWrite(d)
      PROVE  TrailInv'
  <2>1. /\ UNCHANGED <<baseVersion, draftStatus, stored, history, torn, lock>> /\ publishing[d] \in Held
        /\ publishing'[d] \in {"writing", "written"} /\ (publishing'[d] = "written" => specs' = <<d, stored[d]>>)
        /\ \A e \in Drafts \ {d} : publishing'[e] = publishing[e]
    BY <1>5 DEF BeginWrite, EndWrite, rowVars, DraftTypes, PublicIsSound, Held
  <2>2. lock = d /\ Version' = Version /\ Public' = Public
    BY <2>1 DEF TrailInv, LockIsHeld, Version, Public
  <2>3. LockIsHeld'
    BY <2>1, <2>2 DEF TrailInv, LockIsHeld, Held
  <2>4. PublicStateIsTrail'
    BY <2>1, <2>2 DEF TrailInv, PublicStateIsTrail
  <2>5. QED
    BY <2>3, <2>4 DEF TrailInv
<1>6. ASSUME NEW d \in Drafts, CommitPublish(d)
      PROVE  TrailInv'
  <2> DEFINE p == [draft |-> d, base |-> baseVersion[d], edits |-> stored[d]]
  <2>1. /\ publishing[d] = "written" /\ publishing' = [publishing EXCEPT ![d] = "no"]
        /\ history' = Append(history, p) /\ draftStatus' = [draftStatus EXCEPT ![d] = "published"]
        /\ lock' = NoDraft /\ torn' = FALSE /\ UNCHANGED <<baseVersion, stored, specs>>
    BY <1>6 DEF CommitPublish
  <2>2. /\ lock = d /\ draftStatus[d] = "draft" /\ baseVersion[d] = Version /\ specs = <<d, stored[d]>>
    BY <2>1 DEF TrailInv, LockIsHeld, Held
  <2>3. p.draft = d /\ p.base = Version /\ p.edits = stored[d] /\ p \in [draft : Drafts, base : Nat, edits : Nat]
    BY <2>2 DEF DraftTypes, ContentsAreSound, PublicIsSound
  <2> HIDE DEF p
  <2>4. /\ Version \in Nat /\ Version' = Version + 1 /\ history'[Version'] = p
        /\ \A v \in 1..Version : history'[v] = history[v]
    BY <2>1, <2>3 DEF DraftTypes, PublicIsSound, Version
  <2>5. \A v \in 1..Version : history[v].draft \in Drafts \ {d}
    BY <2>2, VersionsAreDrafts DEF TrailInv, PublicStateIsTrail
  <2>6. LockIsHeld'
    BY <2>1, <2>2 DEF TrailInv, LockIsHeld, DraftTypes, PublicIsSound, Held
  <2>7. specs' = Public'
    BY <2>1, <2>2, <2>3, <2>4 DEF Public
  <2>8. ASSUME NEW v \in 1..Version'
        PROVE  /\ history'[v].base = v - 1 /\ draftStatus'[history'[v].draft] = "published"
               /\ stored'[history'[v].draft] = history'[v].edits
               /\ \A w \in 1..Version' : history'[w].draft = history'[v].draft => w = v
    <3>1. CASE v = Version'
      <4>1. history'[v] = p /\ draftStatus'[d] = "published"
        BY <2>1, <2>4, <3>1 DEF DraftTypes, PublicIsSound
      <4>2. \A w \in 1..Version' : history'[w].draft = d => w = v
        BY <2>4, <2>5, <3>1
      <4>3. p.base = v - 1
        BY <2>3, <2>4, <3>1
      <4>4. QED
        BY <2>1, <2>3, <4>1, <4>2, <4>3
    <3>2. CASE v \in 1..Version
      <4>1. /\ history'[v] = history[v] /\ history[v].draft \in Drafts \ {d}
            /\ history[v].base = v - 1 /\ draftStatus[history[v].draft] = "published"
            /\ stored[history[v].draft] = history[v].edits
            /\ \A w \in 1..Version : history[w].draft = history[v].draft => w = v
        BY <2>4, <2>5, <3>2 DEF TrailInv, PublicStateIsTrail
      <4>2. QED
        <5>0. \A e \in Drafts \ {d} : draftStatus'[e] = draftStatus[e]
          BY <2>1 DEF DraftTypes, PublicIsSound
        <5>1. draftStatus'[history[v].draft] = "published"
          BY <4>1, <5>0
        <5>2. ASSUME NEW w \in 1..Version', history'[w].draft = history[v].draft
              PROVE  w = v
          <6>1. w # Version'
            BY <2>3, <2>4, <4>1, <5>2
          <6>2. w \in 1..Version /\ history'[w] = history[w]
            BY <2>4, <6>1
          <6>3. QED
            BY <4>1, <5>2, <6>2
        <5>3. QED
          BY <2>1, <4>1, <5>1, <5>2
    <3>3. QED
      BY <2>4, <3>1, <3>2
  <2>9. PublicStateIsTrail'
    BY <2>7, <2>8 DEF PublicStateIsTrail
  <2>10. QED
    BY <2>6, <2>9 DEF TrailInv
<1>7. ASSUME NEW d \in Drafts, RollBackPublish(d)
      PROVE  TrailInv'
  <2>1. /\ lock = d /\ lock' = NoDraft /\ publishing' = [publishing EXCEPT ![d] = "no"]
        /\ (torn' <=> (torn \/ publishing[d] # "locked"))
        /\ UNCHANGED <<baseVersion, draftStatus, stored, history, specs>>
    BY <1>7 DEF RollBackPublish, rowVars
  <2>2. Version' = Version /\ Public' = Public
    BY <2>1 DEF Version, Public
  <2>3. LockIsHeld'
    BY <2>1, <2>2 DEF TrailInv, LockIsHeld, Held, DraftTypes, PublicIsSound
  <2>4. PublicStateIsTrail'
    BY <2>1, <2>2 DEF TrailInv, PublicStateIsTrail
  <2>5. QED
    BY <2>3, <2>4 DEF TrailInv
<1>8. ASSUME NEW u \in Authors, LoadDraft(u) \/ Edit(u) \/ Reload(u)
      PROVE  TrailInv'
  BY <1>1, <1>8 DEF LoadDraft, Edit, Reload, rowVars, publicVars
<1>9. ASSUME NEW u \in Authors, NEW d \in Drafts, OpenDraft(u, d)
      PROVE  TrailInv'
  BY <1>1, <1>9 DEF OpenDraft, publicVars
<1>10. ASSUME NEW u \in Authors, NEW d \in Drafts, Publish(u, d)
       PROVE  TrailInv'
  <2>1. /\ publishing[d] = "no" /\ publishing' = [publishing EXCEPT ![d] = "asked"]
        /\ UNCHANGED <<baseVersion, draftStatus, stored, lock, history, specs, torn>>
    BY <1>10 DEF Publish, rowVars
  <2>2. QED
    BY <2>1, TrailStays DEF DraftTypes, PublicIsSound, Held
<1>11. ASSUME NEW a \in Saves, CommitTurn(a) \/ SaveSucceeds(a) \/ SaveFails(a) \/ RetrySave(a)
       PROVE  TrailInv'
  BY <1>1, <1>11 DEF CommitTurn, SaveSucceeds, SaveFails, RetrySave, rowVars, publicVars
<1>12. ASSUME NEW a \in Saves, PatchDraft(a) \/ PatchLate(a)
       PROVE  TrailInv'
  <2>1. UNCHANGED <<publishing, lock, history, specs, torn, draftStatus, baseVersion>> /\ lock # save[a].draft
    BY <1>12 DEF PatchDraft, PatchLate, publicVars, RowLocked
  <2>2. CASE draftStatus[save[a].draft] = "draft"
    <3>1. stored' = [stored EXCEPT ![save[a].draft] = save[a].files]
      BY <1>12, <2>2 DEF PatchDraft, PatchLate
    <3>2. QED
      BY <2>1, <2>2, <3>1, TrailStays DEF DraftTypes, ContentsAreSound, PublicIsSound
  <2>3. CASE draftStatus[save[a].draft] # "draft"
    BY <1>1, <1>12, <2>1, <2>3 DEF PatchDraft, PatchLate
  <2>4. QED
    BY <2>2, <2>3
<1>13. CASE UNCHANGED draftVars
  BY <1>1, <1>13 DEF draftVars, rowVars, publicVars
<1>14. QED
  BY <1>2, <1>3, <1>4, <1>5, <1>6, <1>7, <1>8, <1>9, <1>10, <1>11, <1>12, <1>13
     DEF DraftNext, DraftStep, BrowserStep

(* Where a browser waits for its saves, one save at a time is of the       *)
(* session's draft; as long as nothing was edited since it began, of the   *)
(* session's content; and a browser that shows nothing pending has edited  *)
(* nothing since.  A PATCH that was left behind is not one of them.        *)
Awaited(a) == save[a].at \notin {"idle", "astray"}
OneSaveEach ==
  \A a, b \in Saves : Awaited(a) /\ Awaited(b) /\ SaverOf[a] = SaverOf[b] => a = b
SavesFollowSessions ==
  \A a \in Saves : LET s == session[SaverOf[a]] IN
    Awaited(a) =>
      /\ save[a].draft = s.draft /\ save[a].rev <= s.rev
      /\ save[a].rev = s.rev => save[a].files = s.files
      /\ save[a].at = "stored" => stored[save[a].draft] = save[a].files \/ save[a].draft \in belated
      /\ SaverOf[a] \in pendingSave \/ save[a].rev = s.rev

(* What is being loaded is another draft, as it is stored.                 *)
LoadsAreFresh ==
  \A u \in Authors : loading[u] # Nothing =>
    /\ loading[u].files = stored[loading[u].draft] \/ loading[u].draft \in belated
    /\ loading[u].draft # session[u].draft

CalmInv == calmly => OneSaveEach /\ SavesFollowSessions /\ LoadsAreFresh /\ SaveIsHonest

LEMMA CalmStep ==
  ASSUME DraftTypes, CalmInv, [DraftNext]_draftVars
  PROVE  CalmInv'
<1> DEFINE Calm == OneSaveEach /\ SavesFollowSessions /\ LoadsAreFresh /\ SaveIsHonest
<1>0. calmly' = calmly
  BY DEF DraftNext, DraftStep, BrowserStep, CreateDraft, DeleteDraft, LockAndCompare, BeginWrite, EndWrite,
         CommitPublish, RollBackPublish, LoadDraft, Edit, Reload, OpenDraft, Publish, CommitTurn, PatchDraft,
         PatchLate, SaveSucceeds, SaveFails, RetrySave, draftVars, browserVars
<1> SUFFICES ASSUME calmly
             PROVE  Calm'
  BY <1>0 DEF CalmInv, SaveIsHonest
<1>01. /\ OneSaveEach /\ SavesFollowSessions /\ LoadsAreFresh
       /\ \A u \in Authors :
            \/ u \in pendingSave \/ session[u].draft = NoDraft
            \/ stored[session[u].draft] = session[u].files \/ session[u].draft \in belated
  BY DEF CalmInv, SaveIsHonest
<1>02. /\ session \in [Authors -> [draft : Drafts \cup {NoDraft}, files : Nat, rev : Nat]]
       /\ save \in [Saves -> SaveRecord] /\ loading \in [Authors -> LoadRecord]
       /\ stored \in [Drafts -> Nat]
       /\ \A u \in Authors : session[u].draft # NoDraft => AuthorOf[session[u].draft] = u
       /\ \A a \in Saves : save[a].at # "idle" => save[a].draft \in Drafts /\ AuthorOf[save[a].draft] = SaverOf[a]
       /\ \A u \in Authors : loading[u] # Nothing =>
            loading[u].draft \in Drafts /\ AuthorOf[loading[u].draft] = u
       /\ SaverOf \in [Saves -> Authors] /\ NoDraft \notin Drafts
  BY DraftAssumption DEF DraftTypes, ContentsAreSound, SessionsAreSound, LoadsAreSound, SavesAreSound
<1>03. NoSave.at = "idle" /\ NoSave \in SaveRecord
  BY DraftAssumption DEF NoSave, SaveRecord
<1> USE <1>01, <1>02 DEF OneSaveEach, SavesFollowSessions, LoadsAreFresh, SaveIsHonest, Awaited
<1>1. CASE UNCHANGED <<session, loading, pendingSave, save, stored, belated>>
  BY <1>1
<1>2. ASSUME NEW d \in Drafts, DraftStep(d)
      PROVE  Calm'
  BY <1>1, <1>2 DEF DraftStep, CreateDraft, DeleteDraft, LockAndCompare, BeginWrite, EndWrite, CommitPublish,
                    RollBackPublish, browserVars, rowVars, publicVars
<1>3. ASSUME NEW u \in Authors, NEW d \in Drafts, OpenDraft(u, d)
      PROVE  Calm'
  <2>1. /\ \A x \in Authors \ {u} : loading'[x] = loading[x]
        /\ loading'[u].draft = d /\ loading'[u].files = stored[d] /\ session[u].draft # d
        /\ AuthorOf[d] = u /\ belated' = belated \ {d} /\ UNCHANGED <<session, pendingSave, save, stored>>
    BY <1>3 DEF OpenDraft
  <2>2. LoadsAreFresh'
    BY <2>1
  <2>3. SavesFollowSessions'
    BY <2>1
  <2>4. SaveIsHonest'
    BY <2>1
  <2>5. QED
    BY <2>1, <2>2, <2>3, <2>4
<1>4. ASSUME NEW u \in Authors, LoadDraft(u)
      PROVE  Calm'
  <2> DEFINE l == loading[u]
             new == [draft |-> l.draft, files |-> l.files, rev |-> 0]
  <2>1. /\ l # Nothing /\ l.draft \in Drafts /\ (l.files = stored[l.draft] \/ l.draft \in belated)
        /\ loading' = [loading EXCEPT ![u] = Nothing] /\ session' = [session EXCEPT ![u] = new]
        /\ pendingSave' = pendingSave \ {u} /\ ~Saving(u)
        /\ UNCHANGED <<save, stored, belated>>
    BY <1>4 DEF LoadDraft, rowVars
  <2>2. new.draft = l.draft /\ new.files = l.files
    OBVIOUS
  <2> HIDE DEF new, l
  <2>3. LoadsAreFresh'
    BY <2>1
  <2>4. SaveIsHonest'
    BY <2>1, <2>2
  <2>5. SavesFollowSessions'
    BY <2>1 DEF Saving
  <2>6. QED
    BY <2>1, <2>3, <2>4, <2>5
<1>5. ASSUME NEW u \in Authors, Edit(u)
      PROVE  Calm'
  <2>1. /\ session' = [session EXCEPT ![u].files = edits[session[u].draft] + 1, ![u].rev = @ + 1]
        /\ pendingSave' = pendingSave \cup {u}
        /\ UNCHANGED <<loading, save, stored, belated>>
    BY <1>5 DEF Edit, rowVars
  <2>2. /\ \A x \in Authors : session'[x].draft = session[x].draft
        /\ \A x \in Authors \ {u} : session'[x] = session[x]
        /\ session'[u].rev = session[u].rev + 1 /\ session[u].rev \in Nat
    BY <2>1
  <2>3. \A a \in Saves : save[a].rev \in Nat
    BY DEF SaveRecord
  <2>4. SavesFollowSessions'
    <3>1. ASSUME NEW a \in Saves, Awaited(a), SaverOf[a] = u
          PROVE  /\ save[a].draft = session'[u].draft /\ save[a].rev < session'[u].rev
                 /\ save[a].at = "stored" => stored[save[a].draft] = save[a].files \/ save[a].draft \in belated
      BY <2>2, <2>3, <3>1
    <3>2. \A x \in Authors : x \in pendingSave => x \in pendingSave'
      BY <2>1
    <3>3. u \in pendingSave' /\ save' = save /\ stored' = stored /\ belated' = belated
      BY <2>1
    <3>4. ASSUME NEW a \in Saves, Awaited(a), SaverOf[a] # u
          PROVE  /\ session'[SaverOf[a]] = session[SaverOf[a]]
                 /\ SaverOf[a] \in pendingSave => SaverOf[a] \in pendingSave'
      BY <2>1, <2>2, <3>2, <3>4, DraftAssumption
    <3>5. ASSUME NEW a \in Saves, Awaited(a)
          PROVE  LET s == session'[SaverOf[a]] IN
                   /\ save[a].draft = s.draft /\ save[a].rev <= s.rev
                   /\ save[a].rev = s.rev => save[a].files = s.files
                   /\ save[a].at = "stored" => stored[save[a].draft] = save[a].files \/ save[a].draft \in belated
                   /\ SaverOf[a] \in pendingSave' \/ save[a].rev = s.rev
      <4>1. CASE SaverOf[a] = u
        BY <2>2, <2>3, <3>1, <3>3, <3>5, <4>1
      <4>2. CASE SaverOf[a] # u
        BY <3>4, <3>5, <4>2
      <4>3. QED
        BY <4>1, <4>2
    <3>6. SavesFollowSessions' <=>
            \A a \in Saves : LET s == session'[SaverOf[a]] IN
              Awaited(a) =>
                /\ save[a].draft = s.draft /\ save[a].rev <= s.rev
                /\ save[a].rev = s.rev => save[a].files = s.files
                /\ save[a].at = "stored" => stored[save[a].draft] = save[a].files \/ save[a].draft \in belated
                /\ SaverOf[a] \in pendingSave' \/ save[a].rev = s.rev
      BY <3>3
    <3>7. QED
      BY <3>5, <3>6
  <2>5. OneSaveEach'
    BY <2>1
  <2>6. LoadsAreFresh'
    BY <2>1, <2>2
  <2>7. SaveIsHonest'
    <3>1. \A x \in Authors \ {u} : x \notin pendingSave' => session'[x] = session[x] /\ x \notin pendingSave
      BY <2>1, <2>2
    <3>2. u \in pendingSave' /\ stored' = stored /\ belated' = belated
      BY <2>1
    <3>3. QED
      BY <3>1, <3>2
  <2>8. QED
    BY <2>4, <2>5, <2>6, <2>7
<1>6. ASSUME NEW u \in Authors, Reload(u)
      PROVE  Calm'
  <2>1. /\ session' = [session EXCEPT ![u].rev = 0] /\ loading' = [loading EXCEPT ![u] = Nothing]
        /\ UNCHANGED <<pendingSave, stored, belated>>
    BY <1>6 DEF Reload, rowVars
  <2>2. /\ \A x \in Authors : session'[x].draft = session[x].draft /\ session'[x].files = session[x].files
        /\ \A x \in Authors \ {u} : session'[x] = session[x] /\ loading'[x] = loading[x]
        /\ loading'[u] = Nothing
    BY <2>1
  <2>3. \A a \in Saves : Awaited(a)' => SaverOf[a] # u /\ save'[a] = save[a]
    <3>1. PICK late \in SUBSET {a \in Saves : SaverOf[a] = u /\ save[a].at = "sending"} :
            save' = [a \in Saves |-> IF SaverOf[a] # u \/ save[a].at = "astray" THEN save[a]
                                    ELSE IF a \in late THEN Astray(a) ELSE NoSave]
      BY <1>6 DEF Reload
    <3>2. \A a \in Saves : Astray(a).at = "astray"
      BY DEF Astray
    <3>3. QED
      BY <1>03, <3>1, <3>2
  <2>4. QED
    BY <2>1, <2>2, <2>3
<1>7. ASSUME NEW u \in Authors, NEW d \in Drafts, Publish(u, d)
      PROVE  Calm'
  BY <1>1, <1>7 DEF Publish, browserVars, rowVars
<1>8. ASSUME NEW a \in Saves, CommitTurn(a)
      PROVE  Calm'
  <2> DEFINE u == SaverOf[a]
             new == [draft |-> session[u].draft, files |-> session[u].files, rev |-> session[u].rev,
                     at |-> "sending", tries |-> 1]
  <2>1. /\ save' = [save EXCEPT ![a] = new] /\ ~Saving(u)
        /\ UNCHANGED <<session, loading, pendingSave, stored, belated>>
    BY <1>8, Zenon DEF CommitTurn, rowVars
  <2>2. /\ new.draft = session[u].draft /\ new.files = session[u].files /\ new.rev = session[u].rev
        /\ new.at = "sending" /\ u \in Authors /\ session[u].rev \in Nat
    OBVIOUS
  <2> HIDE DEF new
  <2>3. save'[a] = new /\ \A b \in Saves \ {a} : save'[b] = save[b]
    BY <2>1
  <2>4. OneSaveEach'
    BY <2>1, <2>3 DEF Saving
  <2>5. SavesFollowSessions'
    BY <2>1, <2>2, <2>3
  <2>6. QED
    BY <2>1, <2>4, <2>5
<1>9. ASSUME NEW a \in Saves, PatchDraft(a)
      PROVE  Calm'
  <2> DEFINE d == save[a].draft
  <2>0. PICK place \in {"stored", "refused"} : save' = [save EXCEPT ![a].at = place]
    BY <1>9 DEF PatchDraft
  <2>1. /\ save[a].at = "sending" /\ UNCHANGED <<session, loading, pendingSave>>
        /\ save'[a].draft = d /\ save'[a].files = save[a].files /\ save'[a].rev = save[a].rev
        /\ save'[a].at = place /\ \A b \in Saves \ {a} : save'[b] = save[b]
    BY <1>9, <2>0 DEF PatchDraft, SaveRecord
  <2>2. CASE draftStatus[d] = "draft"
    <3>1. stored' = [stored EXCEPT ![d] = save[a].files] /\ belated' = belated \ {d}
      BY <1>9, <2>2 DEF PatchDraft
    <3>2. d \in Drafts /\ AuthorOf[d] = SaverOf[a] /\ SaverOf[a] \in Authors /\ d = session[SaverOf[a]].draft
      BY <2>1
    <3>3. /\ stored'[d] = save[a].files /\ belated' = belated \ {d}
          /\ \A e \in Drafts \ {d} : stored'[e] = stored[e]
      BY <3>1, <3>2
    <3> HIDE DEF d
    <3>4. OneSaveEach'
      BY <2>1
    <3>5. SavesFollowSessions'
      <4> SUFFICES ASSUME NEW b \in Saves, b # a, Awaited(b)
                   PROVE  save[b].draft # d
        BY <2>1, <3>3 DEF d
      <4>1. SaverOf[b] # SaverOf[a]
        BY <2>1
      <4>2. AuthorOf[save[b].draft] = SaverOf[b]
        OBVIOUS
      <4>3. QED
        BY <3>2, <4>1, <4>2
    <3>6. LoadsAreFresh'
      BY <2>1, <3>2, <3>3
    <3>7. SaveIsHonest'
      BY <2>1, <3>2, <3>3
    <3>8. QED
      BY <3>4, <3>5, <3>6, <3>7
  <2>3. CASE draftStatus[d] # "draft"
    <3>1. stored' = stored /\ belated' = belated /\ save'[a].at = "refused"
      BY <1>9, <2>3 DEF PatchDraft, SaveRecord
    <3>2. OneSaveEach'
      BY <2>1
    <3>3. SavesFollowSessions'
      BY <2>1, <3>1
    <3>4. LoadsAreFresh' /\ SaveIsHonest'
      BY <2>1, <3>1
    <3>5. QED
      BY <3>2, <3>3, <3>4
  <2>4. QED
    BY <2>2, <2>3
<1>10. ASSUME NEW a \in Saves, SaveSucceeds(a)
       PROVE  Calm'
  <2>1. /\ save[a].at = "stored" /\ save' = [save EXCEPT ![a] = NoSave]
        /\ pendingSave' = IF session[SaverOf[a]].rev = save[a].rev
                          THEN pendingSave \ {SaverOf[a]} ELSE pendingSave
        /\ UNCHANGED <<session, loading, stored, belated>>
    BY <1>10 DEF SaveSucceeds, rowVars
  <2>2. save'[a].at = "idle" /\ \A b \in Saves \ {a} : save'[b] = save[b]
    BY <1>03, <2>1
  <2>3. SaveIsHonest'
    BY <2>1
  <2>4. SavesFollowSessions'
    BY <2>1, <2>2
  <2>5. QED
    BY <2>1, <2>2, <2>3, <2>4
<1>11. ASSUME NEW a \in Saves, SaveFails(a)
       PROVE  Calm'
  <2>1. /\ \/ save' = [save EXCEPT ![a] = NoSave]
           \/ save' = [save EXCEPT ![a] = Astray(a)]
        /\ UNCHANGED <<session, loading, pendingSave, stored, belated>>
    BY <1>11 DEF SaveFails, rowVars
  <2>2. Astray(a).at = "astray"
    BY DEF Astray
  <2>3. save'[a].at \in {"idle", "astray"} /\ \A b \in Saves \ {a} : save'[b] = save[b]
    BY <1>03, <2>1, <2>2
  <2>4. QED
    BY <2>1, <2>3
<1>12. ASSUME NEW a \in Saves, RetrySave(a)
       PROVE  Calm'
  <2>0. Astray(a).at = "astray"
    BY DEF Astray
  <2>1. UNCHANGED <<session, loading, pendingSave, stored, belated>>
    BY <1>12 DEF RetrySave, rowVars
  <2>2. \A b \in Saves : Awaited(b)' =>
          /\ Awaited(b) /\ save'[b].draft = save[b].draft /\ save'[b].files = save[b].files
          /\ save'[b].rev = save[b].rev /\ (save'[b].at = "stored" => save[b].at = "stored")
    <3>1. CASE save' = [save EXCEPT ![a].at = "sending", ![a].tries = @ + 1]
      BY <1>12, <3>1 DEF RetrySave, SaveRecord
    <3>2. ASSUME NEW b \in Saves, save' = [save EXCEPT ![a].tries = @ + 1, ![b] = Astray(a)]
          PROVE  \A c \in Saves : Awaited(c)' =>
                   /\ Awaited(c) /\ save'[c].draft = save[c].draft /\ save'[c].files = save[c].files
                   /\ save'[c].rev = save[c].rev /\ (save'[c].at = "stored" => save[c].at = "stored")
      <4> DEFINE tried == [save EXCEPT ![a].tries = @ + 1]
      <4>1. save \in [Saves -> SaveRecord] /\ save' = [tried EXCEPT ![b] = Astray(a)]
        BY <1>01, <3>2
      <4>2. \A c \in Saves : /\ tried[c].at = save[c].at /\ tried[c].draft = save[c].draft
                             /\ tried[c].files = save[c].files /\ tried[c].rev = save[c].rev
        BY <4>1 DEF SaveRecord
      <4>3. DOMAIN tried = Saves
        BY <4>1
      <4>4. save'[b] = Astray(a) /\ \A c \in Saves \ {b} : save'[c] = tried[c]
        BY <4>1, <4>3
      <4> HIDE DEF tried
      <4>5. QED
        BY <2>0, <4>2, <4>4
    <3>3. QED
      BY <1>12, <3>1, <3>2 DEF RetrySave
  <2>3. OneSaveEach'
    BY <2>2
  <2>4. SavesFollowSessions'
    BY <2>1, <2>2
  <2>5. LoadsAreFresh' /\ SaveIsHonest'
    BY <2>1
  <2>6. QED
    BY <2>3, <2>4, <2>5
<1>13. CASE UNCHANGED draftVars
  BY <1>1, <1>13 DEF draftVars, browserVars, rowVars
<1>14. ASSUME NEW a \in Saves, PatchLate(a)
       PROVE  Calm'
  <2> DEFINE d == save[a].draft
  <2>1. /\ save[a].at = "astray" /\ save' = [save EXCEPT ![a] = NoSave] /\ d \in Drafts
        /\ UNCHANGED <<session, loading, pendingSave>>
    BY <1>14 DEF PatchLate
  <2>2. \/ UNCHANGED <<stored, belated>>
        \/ stored' = [stored EXCEPT ![d] = save[a].files] /\ belated' = belated \cup {d}
    BY <1>14 DEF PatchLate
  <2>3. /\ belated \subseteq belated'
        /\ \A e \in Drafts : stored'[e] = stored[e] \/ e \in belated'
    BY <2>1, <2>2
  <2>4. \A b \in Saves : Awaited(b)' => Awaited(b) /\ save'[b] = save[b]
    BY <1>03, <2>1
  <2> HIDE DEF d
  <2>5. OneSaveEach'
    BY <2>4
  <2>6. SavesFollowSessions'
    BY <2>1, <2>3, <2>4
  <2>7. LoadsAreFresh'
    BY <2>1, <2>3
  <2>8. SaveIsHonest'
    BY <2>1, <2>3
  <2>9. QED
    BY <2>5, <2>6, <2>7, <2>8
<1>15. QED
  BY <1>2, <1>3, <1>4, <1>5, <1>6, <1>7, <1>8, <1>9, <1>10, <1>11, <1>12, <1>13, <1>14
     DEF DraftNext, BrowserStep

DraftInv == DraftTypes /\ TrailInv /\ CalmInv

(* Each published version was forked from the one before and is what its   *)
(* rows and the files say (spec-draft-store.ts, spec-public-state.ts), and *)
(* a browser that shows nothing pending has what it shows on the server    *)
(* (active-session.ts), unless a PATCH that nobody waited for came last:   *)
(* for every set of drafts, authors and saves.                             *)
THEOREM DraftsKept == DraftSpec => [](DraftTypeOK /\ DraftsAreKept)
<1>1. DraftInit => DraftInv
  <2> SUFFICES ASSUME DraftInit
               PROVE  DraftInv
    OBVIOUS
  <2>1. ContentsAreSound /\ SessionsAreSound
    BY DraftAssumption DEF DraftInit, ContentsAreSound, SessionsAreSound
  <2>5. LoadsAreSound
    BY DEF DraftInit, LoadsAreSound, LoadRecord, Nothing
  <2>6. SavesAreSound
    BY DraftAssumption DEF DraftInit, SavesAreSound, NoSave, SaveRecord
  <2>7. PublicIsSound
    <3>1. history \in Seq([draft : Drafts, base : Nat, edits : Nat])
      <4> DEFINE Entry == [draft : Drafts, base : Nat, edits : Nat]
      <4> HIDE DEF Entry
      <4>1. history \in Seq(Entry)
        BY DEF DraftInit
      <4>2. QED
        BY <4>1 DEF Entry
    <3>2. QED
      BY <3>1 DEF DraftInit, PublicIsSound
  <2>2. TrailInv
    <3>1. history = <<>> /\ Version = 0 /\ specs = Public /\ lock = NoDraft
      BY DEF DraftInit, Version
    <3>2. LockIsHeld
      BY <3>1, DraftAssumption DEF DraftInit, LockIsHeld, Held
    <3>3. PublicStateIsTrail
      BY <3>1 DEF PublicStateIsTrail
    <3>4. QED
      BY <3>2, <3>3 DEF TrailInv
  <2>3. CalmInv
    BY DraftAssumption DEF DraftInit, CalmInv, OneSaveEach, SavesFollowSessions, LoadsAreFresh, SaveIsHonest, NoSave,
                           Awaited
  <2>4. QED
    BY <2>1, <2>2, <2>3, <2>5, <2>6, <2>7 DEF DraftInv, DraftTypes
<1>2. DraftInv /\ [DraftNext]_draftVars => DraftInv'
  BY PublicTypeStep, BrowserTypeStep, TrailStep, CalmStep DEF DraftInv, DraftTypes, BrowsersAreSound
<1>3. DraftInv => DraftTypeOK /\ DraftsAreKept
  <2> SUFFICES ASSUME DraftInv
               PROVE  DraftTypeOK /\ DraftsAreKept
    OBVIOUS
  <2>1. DraftTypeOK
    BY DEF DraftInv, DraftTypes, DraftTypeOK, ContentsAreSound, SessionsAreSound, SavesAreSound, SaveRecord,
           PublicIsSound
  <2>2. DraftsAreKept
    BY DEF DraftInv, TrailInv, CalmInv, DraftsAreKept, SaveIsHonest
  <2>3. QED
    BY <2>1, <2>2
<1>4. QED
  BY <1>1, <1>2, <1>3, PTL DEF DraftSpec

(* The three together: what handlers that overlap, fail half-way and die   *)
(* leave on disk, of drafts, projects and steps.                           *)
THEOREM FilesKept == DraftSpec /\ ProjectSpec /\ StepsSpec => []FilesAreKept
<1>1. DraftsAreKept /\ ProjectsAreWhole /\ StepsAreKept => FilesAreKept
  BY DEF FilesAreKept
<1>2. QED
  BY <1>1, DraftsKept, ProjectsWhole, CompletionsKept, PTL

-----------------------------------------------------------------------------
(* OrgExtensions: an extension that was added is installed                 *)

(* A row has the slug of its request's manifest, and is the only one.      *)
RowsAreClaimed ==
  /\ \A a \in Adds : extRow[a] \in ExtSlugs => extRow[a] = manifest[a]
  /\ \A a, b \in Adds : extRow[a] \in ExtSlugs /\ extRow[a] = extRow[b] => a = b

(* What an add has read and reserved where it stands.                      *)
AddsFitPlaces ==
  \A a \in Adds :
    /\ adding[a] \in {"idle", "counted", "cloning"} => extRow[a] \notin ExtSlugs
    /\ adding[a] \in {"cloned", "claimed", "cleared", "moved", "unmoved", "gone"} => manifest[a] \in ExtSlugs
    /\ adding[a] \in {"claimed", "cleared", "moved"} => extRow[a] = manifest[a] \/ manifest[a] \in crossed

(* A removal that is still to take a directory away is of a slug that no   *)
(* row has, or of one that is crossed.                                     *)
RemovalsCross ==
  \A q \in Removals : removing[q].at = "row" =>
    /\ removing[q].slug \in ExtSlugs
    /\ \A a \in Adds : extRow[a] = removing[q].slug => removing[q].slug \in crossed

(* The clone of a row is in its directory from the rename on.              *)
MovedIsInPlace ==
  \A a \in Adds : LET s == extRow[a] IN
    adding[a] \in {"moved", "ok"} /\ s \in ExtSlugs \ crossed => extDir[s] = a

ExtensionInv == ExtensionTypeOK /\ RowsAreClaimed /\ AddsFitPlaces /\ RemovalsCross /\ MovedIsInPlace

LEMMA ExtensionInvStep ==
  ASSUME ExtensionInv, [ExtensionNext]_extensionVars
  PROVE  ExtensionInv'
<1> USE ExtensionAssumption
    DEF ExtensionInv, ExtensionTypeOK, RowsAreClaimed, AddsFitPlaces, RemovalsCross, MovedIsInPlace, Advance, OwnerOf
<1>1. ASSUME NEW a \in Adds, CountRows(a) \/ Reserve(a)
      PROVE  ExtensionInv'
  BY <1>1 DEF CountRows, Reserve
<1>2. ASSUME NEW a \in Adds, CloneExtension(a)
      PROVE  ExtensionInv'
  BY <1>2 DEF CloneExtension
<1>3. ASSUME NEW a \in Adds, ClaimSlug(a)
      PROVE  ExtensionInv'
  <2>1. CASE OwnerOf(manifest[a]) # {}
    BY <1>3, <2>1 DEF ClaimSlug
  <2>2. CASE OwnerOf(manifest[a]) = {}
    BY <1>3, <2>2 DEF ClaimSlug
  <2>3. QED
    BY <2>1, <2>2
<1>4. ASSUME NEW a \in Adds, ClearTarget(a)
      PROVE  ExtensionInv'
  BY <1>4 DEF ClearTarget
<1>5. ASSUME NEW a \in Adds, MoveIntoPlace(a)
      PROVE  ExtensionInv'
  BY <1>5 DEF MoveIntoPlace
<1>6. ASSUME NEW a \in Adds, RereadRow(a)
      PROVE  ExtensionInv'
  BY <1>6 DEF RereadRow
<1>7. ASSUME NEW a \in Adds, Unreserve(a)
      PROVE  ExtensionInv'
  BY <1>7 DEF Unreserve
<1>8. ASSUME NEW a \in Adds, DropTarget(a)
      PROVE  ExtensionInv'
  BY <1>8 DEF DropTarget
<1>9. ASSUME NEW q \in Removals, NEW s \in ExtSlugs, RemoveRow(q, s)
      PROVE  ExtensionInv'
  BY <1>9 DEF RemoveRow
<1>10. ASSUME NEW q \in Removals, RemoveDir(q)
       PROVE  ExtensionInv'
  BY <1>10 DEF RemoveDir
<1>11. CASE CrashExtensions
  BY <1>11 DEF CrashExtensions
<1>12. CASE UNCHANGED extensionVars
  BY <1>12 DEF extensionVars
<1>13. QED
  BY <1>1, <1>2, <1>3, <1>4, <1>5, <1>6, <1>7, <1>8, <1>9, <1>10, <1>11, <1>12 DEF ExtensionNext, AddStep

(* An extension that was added and not removed has its own clone in its    *)
(* directory (org-extensions-store.ts), for every number of adds and       *)
(* removals, whatever they lose, fail or leave when they die.              *)
THEOREM ExtensionsInstalled == ExtensionSpec => [](ExtensionTypeOK /\ ExtensionsAreInstalled)
<1>1. ExtensionInit => ExtensionInv
  BY ExtensionAssumption DEF ExtensionInit, ExtensionInv, ExtensionTypeOK, RowsAreClaimed, AddsFitPlaces,
                             RemovalsCross, MovedIsInPlace
<1>2. ExtensionInv /\ [ExtensionNext]_extensionVars => ExtensionInv'
  BY ExtensionInvStep
<1>3. ExtensionInv => ExtensionTypeOK /\ ExtensionsAreInstalled
  BY DEF ExtensionInv, MovedIsInPlace, ExtensionsAreInstalled
<1>4. QED
  BY <1>1, <1>2, <1>3, PTL DEF ExtensionSpec

-----------------------------------------------------------------------------
(* LlmRouting: agents run on the key of whose they are                     *)

(* A save that passed its check names a key of the owner and provider.     *)
SavesAreJudged ==
  \A s \in ProfileSaves :
    profileSave[s] = "writing" /\ s.key # NoKey => KeyOwner[s.key] = s.owner /\ KeyProvider[s.key] = s.provider

ProfilesAreOwned ==
  \A o \in Owners : LET k == profile[o].key IN
    k # NoKey => Exists(k) /\ KeyOwner[k] = o /\ KeyProvider[k] = profile[o].provider

(* A launch past the resolution has a key of the profile it read.          *)
LaunchesAreResolved ==
  \A r \in Launches : LET k == chosen[r].profile.key IN
    launch[r] \in {"minting", "inserting", "running"} =>
      k # NoKey /\ KeyOwner[k] = chosen[r].owner /\ KeyProvider[k] = chosen[r].profile.provider

(* A token is a running launch's, bound to its key while there is one.     *)
TokensAreBound ==
  \A r \in Launches : LET k == chosen[r].profile.key IN
    /\ token[r] \in Keys => launch[r] = "running" /\ token[r] = k /\ Exists(k)
    /\ launch[r] = "running" /\ Proxied(k) => token[r] \in {k, NoKey}

(* Who is at the organisation's profile had none.                          *)
SharedWereBare == \A r \in Launches : chosen[r].owner = "org" \/ launch[r] = "shared" => r \in bared

RoutingInv ==
  /\ RoutingTypeOK /\ SavesAreJudged /\ ProfilesAreOwned /\ LaunchesAreResolved /\ TokensAreBound
  /\ SharedWereBare

(* Creating, authorizing, expiring and switching take no key away.         *)
LEMMA KeysStay ==
  ASSUME RoutingInv, UNCHANGED <<profile, profileSave, launch, chosen, token, bared>>,
         key' \in [Keys -> {"unborn", "pending", "ready", "expired", "deleted"}], enabled' \subseteq Keys,
         \A k \in Keys : Exists(k) => Exists(k)'
  PROVE  RoutingInv'
<1>1. RoutingTypeOK'
  BY DEF RoutingInv, RoutingTypeOK
<1>2. \A o \in Owners : profile[o].key \in Keys \cup {NoKey}
  BY DEF RoutingInv, RoutingTypeOK, Profiles, NoProfile
<1>3. \A r \in Launches : chosen[r].profile.key \in Keys \cup {NoKey}
  BY DEF RoutingInv, RoutingTypeOK, Profiles, NoProfile
<1>4. ProfilesAreOwned' /\ SavesAreJudged'
  BY <1>2 DEF RoutingInv, ProfilesAreOwned, SavesAreJudged
<1>5. LaunchesAreResolved' /\ SharedWereBare'
  BY DEF RoutingInv, LaunchesAreResolved, SharedWereBare
<1>6. TokensAreBound'
  BY <1>3 DEF RoutingInv, TokensAreBound, Proxied
<1>7. QED
  BY <1>1, <1>4, <1>5, <1>6 DEF RoutingInv

LEMMA RoutingInvStep ==
  ASSUME RoutingInv, [RoutingNext]_routingVars
  PROVE  RoutingInv'
<1>0. /\ key \in [Keys -> {"unborn", "pending", "ready", "expired", "deleted"}] /\ enabled \subseteq Keys
      /\ profile \in [Owners -> Profiles] /\ chosen \in [Launches -> [owner : Owners, profile : Profiles]]
      /\ token \in [Launches -> Keys \cup {NoKey, "none"}] /\ bared \subseteq Launches
      /\ profileSave \in [ProfileSaves -> {"idle", "writing", "saved", "refused"}]
      /\ launch \in [Launches -> {"idle", "shared", "resolving", "minting", "inserting", "running", "refused"}]
      /\ \A p \in Profiles : p.key \in Keys \cup {NoKey}
      /\ NoProfile \in Profiles /\ NoProfile.key = NoKey /\ NoKey \notin Keys /\ "none" \notin Keys
  BY RoutingAssumption DEF RoutingInv, RoutingTypeOK, Profiles, NoProfile
<1> USE <1>0
<1>1. ASSUME NEW k \in Keys, CreateKey(k) \/ AuthorizeKey(k) \/ KeyExpires(k) \/ SwitchKey(k)
      PROVE  RoutingInv'
  BY <1>1, KeysStay DEF CreateKey, AuthorizeKey, KeyExpires, SwitchKey, Exists
<1>2. ASSUME NEW k \in Keys, DeleteKey(k)
      PROVE  RoutingInv'
  <2>1. /\ key' = [key EXCEPT ![k] = "deleted"] /\ enabled' = enabled \ {k}
        /\ profile' = [o \in Owners |-> IF profile[o].key = k THEN [profile[o] EXCEPT !.key = NoKey] ELSE profile[o]]
        /\ token' = [r \in Launches |-> IF token[r] = k THEN NoKey ELSE token[r]]
        /\ UNCHANGED <<profileSave, launch, chosen, bared>>
    BY <1>2 DEF DeleteKey
  <2>2. \A o \in Owners : /\ profile'[o] \in Profiles
                          /\ \/ profile'[o] = profile[o] /\ profile[o].key # k
                             \/ profile'[o].key = NoKey
    BY <2>1 DEF Profiles, NoProfile
  <2>3. \A j \in Keys \ {k} : Exists(j)' = Exists(j)
    BY <2>1 DEF Exists
  <2>4. RoutingTypeOK'
    BY <2>1, <2>2 DEF RoutingTypeOK
  <2>5. ProfilesAreOwned'
    BY <2>2, <2>3 DEF RoutingInv, ProfilesAreOwned
  <2>6. TokensAreBound'
    BY <2>1, <2>3 DEF RoutingInv, TokensAreBound, Proxied
  <2>7. SavesAreJudged' /\ LaunchesAreResolved' /\ SharedWereBare'
    BY <2>1 DEF RoutingInv, SavesAreJudged, LaunchesAreResolved, SharedWereBare
  <2>8. QED
    BY <2>4, <2>5, <2>6, <2>7 DEF RoutingInv
<1>3. ASSUME NEW s \in ProfileSaves, JudgeProfile(s)
      PROVE  RoutingInv'
  <2>1. PICK place \in {"writing", "refused"} :
          /\ profileSave' = [profileSave EXCEPT ![s] = place]
          /\ place = "writing" => s.key = NoKey \/ Usable(s.owner, s, s.key)
    BY <1>3 DEF JudgeProfile
  <2>2. UNCHANGED <<key, enabled, profile, launch, chosen, token, bared>>
    BY <1>3 DEF JudgeProfile
  <2>3. SavesAreJudged'
    BY <2>1 DEF RoutingInv, SavesAreJudged, Usable
  <2>4. RoutingTypeOK'
    BY <2>1, <2>2 DEF RoutingTypeOK
  <2>5. ProfilesAreOwned' /\ LaunchesAreResolved' /\ TokensAreBound' /\ SharedWereBare'
    BY <2>2 DEF RoutingInv, ProfilesAreOwned, LaunchesAreResolved, TokensAreBound, SharedWereBare, Exists, Proxied
  <2>6. QED
    BY <2>3, <2>4, <2>5 DEF RoutingInv
<1>4. ASSUME NEW s \in ProfileSaves, WriteProfile(s)
      PROVE  RoutingInv'
  <2> DEFINE new == [provider |-> s.provider, key |-> s.key]
  <2>0. UNCHANGED <<key, enabled, launch, chosen, token, bared>>
    BY <1>4 DEF WriteProfile
  <2>1. new \in Profiles /\ new.key = s.key /\ new.provider = s.provider /\ s.owner \in Owners
    BY RoutingAssumption DEF Profiles
  <2>2. PICK place \in {"refused", "saved"} :
          /\ profileSave' = [profileSave EXCEPT ![s] = place] /\ profileSave[s] = "writing"
          /\ \/ profile' = profile
             \/ profile' = [profile EXCEPT ![s.owner] = new] /\ (s.key = NoKey \/ Exists(s.key))
    BY <1>4 DEF WriteProfile
  <2> HIDE DEF new
  <2>3. RoutingTypeOK'
    BY <2>0, <2>1, <2>2 DEF RoutingTypeOK
  <2>4. ProfilesAreOwned'
    <3>1. \A k \in Keys : Exists(k)' = Exists(k)
      BY <2>0 DEF Exists
    <3>2. CASE profile' = profile
      BY <3>1, <3>2 DEF RoutingInv, ProfilesAreOwned
    <3>3. CASE profile' = [profile EXCEPT ![s.owner] = new] /\ (s.key = NoKey \/ Exists(s.key))
      <4>1. profile'[s.owner] = new /\ \A o \in Owners \ {s.owner} : profile'[o] = profile[o]
        BY <2>1, <3>3
      <4>2. new.key # NoKey => /\ Exists(new.key) /\ KeyOwner[new.key] = s.owner
                               /\ KeyProvider[new.key] = new.provider /\ new.key \in Keys
        BY <2>1, <2>2, <3>3, RoutingAssumption DEF RoutingInv, SavesAreJudged
      <4>3. QED
        BY <3>1, <4>1, <4>2 DEF RoutingInv, ProfilesAreOwned
    <3>4. QED
      BY <2>2, <3>2, <3>3
  <2>5. SavesAreJudged' /\ LaunchesAreResolved' /\ TokensAreBound' /\ SharedWereBare'
    BY <2>0, <2>2 DEF RoutingInv, SavesAreJudged, LaunchesAreResolved, TokensAreBound, SharedWereBare, Exists, Proxied
  <2>6. QED
    BY <2>3, <2>4, <2>5 DEF RoutingInv
<1>5. ASSUME NEW o \in Owners, DeleteProfile(o)
      PROVE  RoutingInv'
  <2>1. /\ profile' = [profile EXCEPT ![o] = NoProfile] /\ bared \subseteq bared' /\ bared' \subseteq Launches
        /\ UNCHANGED <<key, enabled, profileSave, launch, chosen, token>>
    BY <1>5 DEF DeleteProfile, Bare
  <2>2. RoutingTypeOK'
    BY <2>1 DEF RoutingTypeOK
  <2>3. ProfilesAreOwned' /\ SavesAreJudged' /\ LaunchesAreResolved' /\ TokensAreBound' /\ SharedWereBare'
    BY <2>1 DEF RoutingInv, ProfilesAreOwned, SavesAreJudged, LaunchesAreResolved, TokensAreBound, SharedWereBare,
                Exists, Proxied
  <2>4. QED
    BY <2>2, <2>3 DEF RoutingInv
<1>6. ASSUME NEW r \in Launches, ReadPersonal(r) \/ ReadShared(r)
      PROVE  RoutingInv'
  <2>1. PICK new \in [owner : Owners, profile : Profiles], place \in {"resolving", "shared", "refused"} :
          /\ chosen' = [chosen EXCEPT ![r] = new] /\ launch' = [launch EXCEPT ![r] = place]
          /\ new.owner = "org" \/ place = "shared" => r \in bared'
    <3>1. CASE ReadPersonal(r) /\ profile["user"] # NoProfile
      <4> DEFINE new == [owner |-> "user", profile |-> profile["user"]]
      <4>1. chosen' = [chosen EXCEPT ![r] = new] /\ launch' = [launch EXCEPT ![r] = "resolving"]
        BY <3>1 DEF ReadPersonal
      <4>2. new \in [owner : Owners, profile : Profiles] /\ new.owner = "user"
        BY DEF Owners
      <4> HIDE DEF new
      <4>3. QED
        BY <4>1, <4>2
    <3>2. CASE ReadPersonal(r) /\ profile["user"] = NoProfile
      <4>1. chosen' = [chosen EXCEPT ![r] = chosen[r]] /\ launch' = [launch EXCEPT ![r] = "shared"] /\ r \in bared'
        BY <3>2 DEF ReadPersonal
      <4>2. QED
        BY <4>1
    <3>3. CASE ReadShared(r)
      <4>1. /\ chosen' = [chosen EXCEPT ![r] = [owner |-> "org", profile |-> profile["org"]]]
            /\ launch' = [launch EXCEPT ![r] = IF profile["org"] = NoProfile THEN "refused" ELSE "resolving"]
            /\ r \in bared'
        BY <3>3 DEF ReadShared, RoutingInv, SharedWereBare
      <4>2. QED
        BY <4>1 DEF Owners
    <3>4. QED
      BY <1>6, <3>1, <3>2, <3>3
  <2>2. /\ launch[r] \in {"idle", "shared"} /\ bared \subseteq bared' /\ bared' \subseteq Launches
        /\ UNCHANGED <<key, enabled, profile, profileSave, token>>
    BY <1>6 DEF ReadPersonal, ReadShared
  <2>3. RoutingTypeOK'
    BY <2>1, <2>2 DEF RoutingTypeOK
  <2>4. SharedWereBare'
    BY <2>1, <2>2 DEF RoutingInv, SharedWereBare
  <2>5. LaunchesAreResolved'
    BY <2>1, <2>2 DEF RoutingInv, LaunchesAreResolved
  <2>6. TokensAreBound'
    BY <2>1, <2>2 DEF RoutingInv, TokensAreBound, Exists, Proxied
  <2>7. ProfilesAreOwned' /\ SavesAreJudged'
    BY <2>2 DEF RoutingInv, ProfilesAreOwned, SavesAreJudged, Exists
  <2>8. QED
    BY <2>3, <2>4, <2>5, <2>6, <2>7 DEF RoutingInv
<1>7. ASSUME NEW r \in Launches, ResolveKey(r) \/ CheckKey(r) \/ InsertToken(r)
      PROVE  RoutingInv'
  <2> DEFINE k == chosen[r].profile.key
  <2>1. PICK place \in {"refused", "minting", "inserting", "running"} :
          /\ launch' = [launch EXCEPT ![r] = place] /\ launch[r] \in {"resolving", "minting", "inserting"}
          /\ place # "refused" => \/ launch[r] \in {"minting", "inserting"}
                                  \/ k # NoKey /\ Usable(chosen[r].owner, chosen[r].profile, k)
          /\ \/ token' = token /\ (place = "running" => ~Proxied(k))
             \/ token' = [token EXCEPT ![r] = k] /\ Exists(k) /\ place = "running"
    BY <1>7 DEF ResolveKey, CheckKey, InsertToken
  <2>2. UNCHANGED <<key, enabled, profile, profileSave, chosen, bared>>
    BY <1>7 DEF ResolveKey, CheckKey, InsertToken
  <2>3. k \in Keys \cup {NoKey}
    OBVIOUS
  <2>4. LaunchesAreResolved'
    BY <2>1, <2>2 DEF RoutingInv, LaunchesAreResolved, Usable
  <2>5. k # NoKey \/ place = "refused"
    BY <2>1 DEF RoutingInv, LaunchesAreResolved
  <2>6. RoutingTypeOK'
    BY <2>1, <2>2, <2>3 DEF RoutingTypeOK
  <2>7. TokensAreBound'
    BY <2>1, <2>2, <2>3, <2>5 DEF RoutingInv, TokensAreBound, Exists, Proxied
  <2>8. ProfilesAreOwned' /\ SavesAreJudged' /\ SharedWereBare'
    BY <2>1, <2>2 DEF RoutingInv, ProfilesAreOwned, SavesAreJudged, SharedWereBare, Exists
  <2>9. QED
    BY <2>4, <2>6, <2>7, <2>8 DEF RoutingInv
<1>8. CASE UNCHANGED routingVars
  BY <1>8, KeysStay DEF routingVars, Exists
<1>9. QED
  BY <1>1, <1>2, <1>3, <1>4, <1>5, <1>6, <1>7, <1>8 DEF RoutingNext

(* The owner and the provider of a key are those of the profile it is used *)
(* for, and the organisation's key is spent only on who had no profile     *)
(* (llm-agent-profiles-store.ts, runner-sessions-store.ts), for every set  *)
(* of keys, saves and launches.                                            *)
THEOREM KeysRouted == RoutingSpec => [](RoutingTypeOK /\ KeysAreRouted)
<1>1. RoutingInit => RoutingInv
  <2> SUFFICES ASSUME RoutingInit
               PROVE  RoutingInv
    OBVIOUS
  <2>1. NoProfile \in Profiles /\ NoProfile.key = NoKey
    BY DEF Profiles, NoProfile
  <2>2. RoutingTypeOK
    BY <2>1 DEF RoutingInit, RoutingTypeOK, Owners
  <2>3. SavesAreJudged /\ ProfilesAreOwned /\ LaunchesAreResolved /\ TokensAreBound /\ SharedWereBare
    BY <2>1, RoutingAssumption
       DEF RoutingInit, SavesAreJudged, ProfilesAreOwned, LaunchesAreResolved, TokensAreBound, SharedWereBare, Owners
  <2>4. QED
    BY <2>2, <2>3 DEF RoutingInv
<1>2. RoutingInv /\ [RoutingNext]_routingVars => RoutingInv'
  BY RoutingInvStep
<1>3. RoutingInv => RoutingTypeOK /\ KeysAreRouted
  BY DEF RoutingInv, ProfilesAreOwned, LaunchesAreResolved, TokensAreBound, SharedWereBare, KeysAreRouted,
         AgentsUseOwnKeys, PersonalProfileWins
<1>4. QED
  BY <1>1, <1>2, <1>3, PTL DEF RoutingSpec

-----------------------------------------------------------------------------
(* CompanyManager: what runs for a company is what the registry says       *)

Working(h) == phase[h] \notin {"idle", "done"}
StopPlaces == {"idle", "draining", "emptying", "unplugging", "removing", "done"}
Early == {"checked", "loading", "inspecting"}
Booting == {"booting", "clearing", "running"}

PlacesFit ==
  /\ \A s \in Starts : phase[s] \notin {"draining", "emptying"}
  /\ \A q \in Stops : phase[q] \in StopPlaces

(* A runtime with open pollers has no container left to start.             *)
PollersArePast ==
  \A s \in polling : /\ phase[s] \in {"booting", "sentinel", "unplugging", "removing", "done"}
                     /\ phase[s] = "booting" => todo[s] = {}

(* What a request knows of its company where it stands.                    *)
StartFits(s) ==
  LET c == about[s] IN
  /\ phase[s] \in Early \cup {"creating", "joining"} \cup Booting => registry[c] = Nobody
  /\ phase[s] = "sentinel" => registry[c] = s /\ net[c] = "joined"
  /\ phase[s] \in Early /\ c \notin kept => net[c] = "none"
  /\ phase[s] = "creating" => net[c] = "none"
  /\ phase[s] = "joining" => net[c] # "none"
  /\ phase[s] \in Booting => net[c] = "joined"
StopFits(q) ==
  LET c == about[q] IN
  /\ phase[q] \in {"draining", "emptying"} => registry[c] # Nobody /\ target[q] = registry[c]
  /\ phase[q] = "emptying" => target[q] \notin polling
Fits(h) ==
  /\ phase[h] \in {"unplugging", "removing"} => registry[about[h]] = Nobody
  /\ h \in Starts => StartFits(h)
  /\ h \in Stops => StopFits(h)

NetFits(c) ==
  IF registry[c] # Nobody THEN net[c] = "joined" ELSE ~Busy(c) /\ c \notin kept => net[c] = "none"
Reachable(s) == registry[about[s]] = s \/ phase[s] = "booting" \/ s \in orphans

(* With clients that wait: one request at a time about a company, and no   *)
(* runtime is replaced.                                                    *)
CalmManager ==
  /\ \A h, k \in Handlers : Working(h) /\ Working(k) /\ about[h] = about[k] => h = k
  /\ \A s \in Starts : reaped[s] = "no"
  /\ \A c \in Companies : registry[c] # Nobody => about[registry[c]] = c
  /\ \A h \in Handlers : Fits(h)
  /\ \A s \in polling : Reachable(s)
  /\ \A c \in Companies : NetFits(c)

ManagerInv == ManagerTypeOK /\ PlacesFit /\ PollersArePast /\ (calm => CalmManager)

LEMMA ManagerTypeStep ==
  ASSUME ManagerTypeOK, PlacesFit, PollersArePast, [ManagerNext]_managerVars
  PROVE  ManagerTypeOK' /\ PlacesFit' /\ PollersArePast'
<1> DEFINE Typed == ManagerTypeOK' /\ PlacesFit' /\ PollersArePast'
<1> USE ManagerAssumption
    DEF ManagerTypeOK, PlacesFit, PollersArePast, Places, StopPlaces, Handlers, At, Goto, handlerVars
<1>1. ASSUME NEW s \in Starts, StartRequest(s) \/ MarkStarting(s) \/ Preflight(s) \/ InspectNetwork(s)
      PROVE  Typed
  BY <1>1 DEF StartRequest, MarkStarting, Preflight, InspectNetwork
<1>2. ASSUME NEW s \in Starts, CreateNetwork(s) \/ ConnectPeers(s)
      PROVE  Typed
  BY <1>2 DEF CreateNetwork, ConnectPeers
<1>3. ASSUME NEW s \in Starts, InspectBox(s)
      PROVE  Typed
  BY <1>3 DEF InspectBox
<1>4. ASSUME NEW s \in Starts, RemoveStaleBox(s) \/ RunBox(s)
      PROVE  Typed
  BY <1>4 DEF RemoveStaleBox, RunBox
<1>5. ASSUME NEW s \in Starts, OpenPollers(s) \/ BootFails(s)
      PROVE  Typed
  BY <1>5 DEF OpenPollers, BootFails
<1>6. ASSUME NEW s \in Starts, RegisterCompany(s) \/ FinishStart(s)
      PROVE  Typed
  BY <1>6 DEF RegisterCompany, FinishStart
<1>7. ASSUME NEW s \in Starts, ReapPollers(s) \/ ReapBoxes(s)
      PROVE  Typed
  BY <1>7 DEF ReapPollers, ReapBoxes
<1>8. ASSUME NEW q \in Stops, StopRequest(q) \/ StopPollers(q)
      PROVE  Typed
  BY <1>8 DEF StopRequest, StopPollers
<1>9. ASSUME NEW q \in Stops, StopBox(q) \/ DeregisterCompany(q)
      PROVE  Typed
  BY <1>9 DEF StopBox, DeregisterCompany
<1>10. ASSUME NEW h \in Handlers, DisconnectPeers(h) \/ RemoveNetwork(h)
       PROVE  Typed
  BY <1>10 DEF DisconnectPeers, RemoveNetwork
<1>11. ASSUME NEW b \in Boxes, BoxDies(b)
       PROVE  Typed
  BY <1>11 DEF BoxDies
<1>12. CASE CrashManager
  BY <1>12 DEF CrashManager
<1>13. CASE UNCHANGED managerVars
  BY <1>13 DEF managerVars
<1>14. QED
  BY <1>1, <1>2, <1>3, <1>4, <1>5, <1>6, <1>7, <1>8, <1>9, <1>10, <1>11, <1>12, <1>13
     DEF ManagerNext, StartStep, StopStep

(* A request's step: the others, and other companies, are left as they     *)
(* are, so that only what concerns its own company is to be shown.         *)
LEMMA OthersStay ==
  ASSUME ManagerInv, calm, CalmManager, NEW h \in Handlers, Working(h) \/ ~Busy(about[h]),
         ManagerTypeOK', about' = about, reaped' = reaped,
         \A k \in Handlers \ {h} : phase'[k] = phase[k],
         \A q \in Stops \ {h} : target'[q] = target[q],
         \A c \in Companies \ {about[h]} :
           registry'[c] = registry[c] /\ net'[c] = net[c] /\ (c \in kept' <=> c \in kept),
         registry'[about[h]] \in {registry[about[h]], h, Nobody},
         polling' \subseteq polling \cup {h}, orphans \subseteq orphans',
         Fits(h)', NetFits(about[h])',
         \A s \in polling' : about[s] = about[h] => Reachable(s)'
  PROVE  CalmManager'
<1> USE DEF Handlers
<1>0. /\ about \in [Handlers -> Companies] /\ registry \in [Companies -> Starts \cup {Nobody}] /\ Nobody \notin Starts
      /\ polling \subseteq Starts /\ polling' \subseteq Starts
      /\ \A c \in Companies : registry'[c] \in Starts \cup {Nobody}
  BY ManagerAssumption DEF ManagerInv, ManagerTypeOK
<1>1. \A k \in Handlers \ {h} : Working(k) => about[k] # about[h]
  BY DEF CalmManager, Busy, Working, At
<1>2. \A k, l \in Handlers : Working(k)' /\ Working(l)' /\ about'[k] = about'[l] => k = l
  BY <1>1 DEF CalmManager, Working
<1>3. \A c \in Companies : registry'[c] # Nobody => about'[registry'[c]] = c
  BY <1>0 DEF CalmManager
<1>4. ASSUME NEW k \in Handlers \ {h}
      PROVE  Fits(k)'
  <2>1. CASE ~Working(k)
    BY <2>1 DEF Working, Fits, StartFits, StopFits, Early, Booting
  <2>2. CASE Working(k)
    <3>1. /\ about[k] \in Companies \ {about[h]} /\ phase'[k] = phase[k]
          /\ registry'[about[k]] = registry[about[k]] /\ net'[about[k]] = net[about[k]]
          /\ (about[k] \in kept' <=> about[k] \in kept)
      BY <1>0, <1>1, <2>2
    <3>2. Fits(k)
      BY DEF CalmManager
    <3>3. k \in Starts => StartFits(k)'
      BY <3>1, <3>2 DEF Fits, StartFits
    <3>4. k \in Stops => StopFits(k)'
      <4> SUFFICES ASSUME k \in Stops
                   PROVE  StopFits(k)'
        OBVIOUS
      <4>1. target'[k] = target[k] /\ StopFits(k)
        BY <3>2 DEF Fits
      <4>2. phase[k] \in {"draining", "emptying"} => target[k] # h
        BY <1>0, <3>1, <4>1 DEF StopFits, CalmManager
      <4>3. QED
        BY <3>1, <4>1, <4>2 DEF StopFits
    <3>5. QED
      BY <3>1, <3>2, <3>3, <3>4 DEF Fits
  <2>3. QED
    BY <2>1, <2>2
<1>5. ASSUME NEW s \in polling'
      PROVE  Reachable(s)'
  <2>1. CASE about[s] = about[h]
    BY <2>1
  <2>2. CASE about[s] # about[h]
    <3>1. s \in Handlers /\ s # h /\ s \in polling /\ about[s] \in Companies \ {about[h]}
      BY <1>0, <2>2
    <3>2. Reachable(s)
      BY <3>1 DEF CalmManager
    <3>3. QED
      BY <3>1, <3>2 DEF Reachable
  <2>3. QED
    BY <2>1, <2>2
<1>6. ASSUME NEW c \in Companies
      PROVE  NetFits(c)'
  <2>1. CASE c = about[h]
    BY <2>1
  <2>2. CASE c # about[h]
    <3>1. Busy(c)' <=> Busy(c)
      BY <2>2 DEF Busy, At
    <3>2. NetFits(c)
      BY DEF CalmManager
    <3>3. registry'[c] = registry[c] /\ net'[c] = net[c] /\ (c \in kept' <=> c \in kept)
      BY <2>2
    <3>4. QED
      BY <3>1, <3>2, <3>3 DEF NetFits
  <2>3. QED
    BY <2>1, <2>2
<1>7. \A s \in Starts : reaped'[s] = "no"
  BY DEF CalmManager
<1>8. QED
  BY <1>2, <1>3, <1>4, <1>5, <1>6, <1>7 DEF CalmManager

(* The network of a company with a request under way is only held to be    *)
(* there while the company runs.                                           *)
LEMMA BusyNetFits ==
  ASSUME NEW c \in Companies, Busy(c)', registry'[c] # Nobody => net'[c] = "joined"
  PROVE  NetFits(c)'
  BY DEF NetFits

(* A step of a start that leaves registry, pollers and orphans alone.      *)
LEMMA StartMoves ==
  ASSUME ManagerInv, calm, CalmManager, NEW s \in Starts, Working(s) \/ ~Busy(about[s]),
         ManagerTypeOK', about' = about, target' = target,
         \A k \in Handlers \ {s} : phase'[k] = phase[k],
         UNCHANGED <<registry, polling, reaped, orphans, kept>>,
         \A c \in Companies \ {about[s]} : net'[c] = net[c],
         s \in polling /\ phase[s] = "booting" => phase'[s] = "booting",
         Fits(s)', NetFits(about[s])'
  PROVE  CalmManager'
<1>1. s \in Handlers
  BY DEF Handlers
<1>2. \A t \in polling' : about[t] = about[s] => Reachable(t)'
  BY DEF CalmManager, Reachable, Handlers, ManagerInv, ManagerTypeOK
<1>3. QED
  BY <1>1, <1>2, OthersStay

LEMMA CalmStartStep ==
  ASSUME ManagerInv, calm, CalmManager, ManagerTypeOK', NEW s \in Starts, StartStep(s)
  PROVE  CalmManager'
<1> DEFINE c == about[s]
<1>0. /\ about \in [Handlers -> Companies] /\ phase \in [Handlers -> Places] /\ s \in Handlers /\ s \notin Stops
      /\ net \in [Companies -> {"none", "bare", "joined"}] /\ polling \subseteq Starts /\ orphans \subseteq Starts
      /\ registry \in [Companies -> Starts \cup {Nobody}] /\ Nobody \notin Starts /\ c \in Companies
  BY ManagerAssumption DEF ManagerInv, ManagerTypeOK, Handlers
<1>00. /\ StartFits(s) /\ Fits(s) /\ NetFits(c) /\ reaped[s] = "no"
       /\ \A t \in polling : Reachable(t)
       /\ \A k \in Handlers : Working(k) /\ Working(s) /\ about[k] = c => k = s
  BY <1>0 DEF CalmManager, Fits
<1> USE <1>0, <1>00 DEF At, Goto, StartFits, Fits, Early, Booting, Working
<1>1. CASE StartRequest(s)
  <2>1. /\ phase[s] = "idle" /\ phase'[s] \in {"done", "checked"} /\ ~Busy(c)
        /\ (phase'[s] = "checked" => registry[c] = Nobody)
        /\ UNCHANGED <<about, target, registry, polling, reaped, net, orphans, kept>>
        /\ \A k \in Handlers \ {s} : phase'[k] = phase[k]
    BY <1>1 DEF StartRequest
  <2>2. Fits(s)' /\ NetFits(c)'
    BY <2>1 DEF NetFits
  <2>3. QED
    BY <2>1, <2>2, StartMoves
<1>2. CASE MarkStarting(s) \/ Preflight(s) \/ InspectNetwork(s)
  <2>1. /\ phase[s] \in Early /\ registry[c] = Nobody
        /\ phase'[s] \in {"done", "loading", "inspecting", "creating", "joining"}
        /\ (phase'[s] = "creating" => net[c] = "none") /\ (phase'[s] = "joining" => net[c] # "none")
        /\ UNCHANGED <<about, target, registry, polling, reaped, net, orphans, kept>>
        /\ \A k \in Handlers \ {s} : phase'[k] = phase[k]
    BY <1>2 DEF MarkStarting, Preflight, InspectNetwork
  <2>2. Fits(s)' /\ NetFits(c)'
    BY <2>1 DEF NetFits
  <2>3. QED
    BY <2>1, <2>2, StartMoves
<1>3. CASE CreateNetwork(s)
  <2>1. /\ phase[s] = "creating" /\ registry[c] = Nobody /\ net[c] = "none"
        /\ \/ phase'[s] = "joining" /\ net'[c] = "bare"
           \/ phase'[s] = "done" /\ net'[c] = "none"
        /\ \A d \in Companies \ {c} : net'[d] = net[d]
        /\ UNCHANGED <<about, target, registry, polling, reaped, orphans, kept>>
        /\ \A k \in Handlers \ {s} : phase'[k] = phase[k]
    BY <1>3 DEF CreateNetwork
  <2>2. Fits(s)' /\ NetFits(c)'
    BY <2>1 DEF NetFits, Busy
  <2>3. QED
    BY <2>1, <2>2, StartMoves
<1>4. CASE ConnectPeers(s)
  <2>1. /\ phase[s] = "joining" /\ registry[c] = Nobody /\ phase'[s] = "booting" /\ net'[c] = "joined"
        /\ \A d \in Companies \ {c} : net'[d] = net[d]
        /\ UNCHANGED <<about, target, registry, polling, reaped, orphans, kept>>
        /\ \A k \in Handlers \ {s} : phase'[k] = phase[k]
    BY <1>4 DEF ConnectPeers
  <2>2. Fits(s)' /\ NetFits(c)'
    BY <2>1 DEF NetFits, Busy
  <2>3. QED
    BY <2>1, <2>2, StartMoves
<1>5. CASE InspectBox(s) \/ RemoveStaleBox(s) \/ RunBox(s)
  <2>1. /\ phase[s] \in Booting /\ registry[c] = Nobody /\ phase'[s] \in Booting
        /\ (s \in polling => phase'[s] = "booting")
        /\ UNCHANGED <<about, target, registry, polling, reaped, net, orphans, kept>>
        /\ \A k \in Handlers \ {s} : phase'[k] = phase[k]
    BY <1>5 DEF InspectBox, RemoveStaleBox, RunBox, ManagerInv, PollersArePast
  <2>2. Fits(s)' /\ NetFits(c)'
    BY <2>1 DEF NetFits, Busy
  <2>3. QED
    BY <2>1, <2>2, StartMoves
<1>6. CASE OpenPollers(s)
  <2>1. /\ phase[s] = "booting" /\ registry[c] = Nobody /\ polling' = polling \cup {s}
        /\ UNCHANGED <<about, phase, target, registry, reaped, net, orphans, kept>>
    BY <1>6 DEF OpenPollers, handlerVars
  <2>2. Fits(s)' /\ NetFits(c)'
    BY <2>1 DEF NetFits, Busy
  <2>3. \A t \in polling' : Reachable(t)'
    BY <2>1 DEF Reachable
  <2>4. QED
    BY <2>1, <2>2, <2>3, OthersStay
<1>7. CASE BootFails(s)
  <2>1. /\ phase[s] \in Booting /\ registry[c] = Nobody /\ phase'[s] = "unplugging"
        /\ orphans \subseteq orphans' /\ (s \in polling => s \in orphans')
        /\ UNCHANGED <<about, target, registry, polling, reaped, net, kept>>
        /\ \A k \in Handlers \ {s} : phase'[k] = phase[k]
    BY <1>7 DEF BootFails
  <2>2. Fits(s)' /\ NetFits(c)'
    BY <2>1 DEF NetFits, Busy
  <2>3. \A t \in polling' : Reachable(t)'
    BY <2>1 DEF Reachable, Handlers
  <2>4. QED
    BY <2>1, <2>2, <2>3, OthersStay
<1>8. CASE RegisterCompany(s)
  <2>1. /\ phase[s] = "booting" /\ registry[c] = Nobody /\ phase'[s] = "sentinel" /\ net[c] = "joined"
        /\ registry'[c] = s /\ \A d \in Companies \ {c} : registry'[d] = registry[d]
        /\ UNCHANGED <<about, target, polling, reaped, net, orphans, kept>>
        /\ \A k \in Handlers \ {s} : phase'[k] = phase[k]
    BY <1>8 DEF RegisterCompany
  <2>2. Fits(s)' /\ NetFits(c)'
    BY <2>1 DEF NetFits
  <2>3. \A t \in polling' : about[t] = c => Reachable(t)'
    BY <2>1 DEF Reachable, Handlers
  <2>4. QED
    BY <2>1, <2>2, <2>3, OthersStay
<1>9. CASE FinishStart(s)
  <2>1. /\ phase[s] = "sentinel" /\ registry[c] = s /\ net[c] = "joined" /\ phase'[s] = "done"
        /\ UNCHANGED <<about, target, registry, polling, reaped, net, orphans, kept>>
        /\ \A k \in Handlers \ {s} : phase'[k] = phase[k]
    BY <1>9 DEF FinishStart
  <2>2. Fits(s)' /\ NetFits(c)'
    BY <2>1 DEF NetFits
  <2>3. QED
    BY <2>1, <2>2, StartMoves
<1>10. CASE ReapPollers(s) \/ ReapBoxes(s)
  BY <1>10 DEF ReapPollers, ReapBoxes
<1>11. QED
  BY <1>1, <1>2, <1>3, <1>4, <1>5, <1>6, <1>7, <1>8, <1>9, <1>10 DEF StartStep

LEMMA CalmStopStep ==
  ASSUME ManagerInv, calm, CalmManager, ManagerTypeOK', NEW h \in Handlers,
         (h \in Stops /\ StopStep(h)) \/ DisconnectPeers(h) \/ RemoveNetwork(h)
  PROVE  CalmManager'
<1> DEFINE c == about[h]
<1>0. /\ about \in [Handlers -> Companies] /\ phase \in [Handlers -> Places] /\ target \in [Stops -> Starts \cup {Nobody}]
      /\ net \in [Companies -> {"none", "bare", "joined"}] /\ polling \subseteq Starts /\ orphans \subseteq Starts
      /\ registry \in [Companies -> Starts \cup {Nobody}] /\ Nobody \notin Starts /\ c \in Companies
      /\ Starts \cap Stops = {} /\ Handlers = Starts \cup Stops
  BY ManagerAssumption DEF ManagerInv, ManagerTypeOK, Handlers
<1>00. /\ Fits(h) /\ NetFits(c)
       /\ \A t \in polling : Reachable(t)
       /\ \A k \in Handlers : Working(k) /\ Working(h) /\ about[k] = c => k = h
  BY <1>0 DEF CalmManager
<1> USE <1>0, <1>00 DEF At, Goto, StopFits, Fits, Working
<1>1. CASE h \in Stops /\ StopRequest(h)
  <2>1. /\ phase[h] = "idle" /\ ~Busy(c) /\ target'[h] = registry[c]
        /\ \/ registry[c] = Nobody /\ phase'[h] = "done"
           \/ registry[c] # Nobody /\ phase'[h] = "draining"
        /\ UNCHANGED <<about, registry, polling, reaped, net, orphans, kept>>
        /\ \A k \in Handlers \ {h} : phase'[k] = phase[k]
        /\ \A q \in Stops \ {h} : target'[q] = target[q]
    BY <1>1 DEF StopRequest
  <2>2. Fits(h)' /\ NetFits(c)'
    BY <1>1, <2>1 DEF NetFits
  <2>3. \A t \in polling' : Reachable(t)'
    BY <2>1 DEF Reachable
  <2>4. QED
    BY <2>1, <2>2, <2>3, OthersStay
<1>2. CASE h \in Stops /\ StopPollers(h)
  <2>1. /\ phase[h] = "draining" /\ phase'[h] = "emptying" /\ polling' = polling \ {target[h]}
        /\ UNCHANGED <<about, target, registry, reaped, net, orphans, kept>>
        /\ \A k \in Handlers \ {h} : phase'[k] = phase[k]
    BY <1>2 DEF StopPollers
  <2>2. Fits(h)' /\ NetFits(c)'
    BY <1>2, <2>1 DEF NetFits
  <2>3. \A t \in polling' : Reachable(t)'
    BY <1>2, <2>1 DEF Reachable
  <2>4. QED
    BY <2>1, <2>2, <2>3, OthersStay
<1>3. CASE h \in Stops /\ StopBox(h)
  <2>1. phase[h] = "emptying" /\ UNCHANGED <<about, phase, target, registry, polling, reaped, net, orphans, kept>>
    BY <1>3 DEF StopBox
  <2>2. Fits(h)' /\ NetFits(c)'
    BY <1>3, <2>1 DEF NetFits, Busy
  <2>3. \A t \in polling' : Reachable(t)'
    BY <2>1 DEF Reachable
  <2>4. QED
    BY <2>1, <2>2, <2>3, OthersStay
<1>4. CASE h \in Stops /\ DeregisterCompany(h)
  <2>1. /\ phase[h] = "emptying" /\ phase'[h] = "unplugging" /\ target[h] = registry[c] /\ target[h] \notin polling
        /\ registry'[c] = Nobody /\ \A d \in Companies \ {c} : registry'[d] = registry[d]
        /\ UNCHANGED <<about, target, polling, reaped, net, orphans, kept>>
        /\ \A k \in Handlers \ {h} : phase'[k] = phase[k]
    BY <1>4 DEF DeregisterCompany
  <2>2. Fits(h)' /\ NetFits(c)'
    BY <1>4, <2>1 DEF NetFits, Busy
  <2>3. \A t \in polling' : about[t] = c => Reachable(t)'
    BY <1>4, <2>1 DEF Reachable
  <2>4. QED
    BY <2>1, <2>2, <2>3, OthersStay
<1>5. CASE DisconnectPeers(h)
  <2>1. /\ phase[h] = "unplugging" /\ phase'[h] = "removing" /\ registry[c] = Nobody
        /\ \A d \in Companies \ {c} : net'[d] = net[d]
        /\ UNCHANGED <<about, target, registry, polling, reaped, orphans, kept>>
        /\ \A k \in Handlers \ {h} : phase'[k] = phase[k]
    BY <1>5 DEF DisconnectPeers
  <2>2. Fits(h)' /\ NetFits(c)'
    BY <2>1 DEF NetFits, Busy, StartFits, Early, Booting
  <2>3. \A t \in polling' : about[t] = c => Reachable(t)'
    BY <2>1 DEF Reachable
  <2>4. QED
    BY <2>1, <2>2, <2>3, OthersStay
<1>6. CASE RemoveNetwork(h)
  <2>1. /\ phase[h] = "removing" /\ phase'[h] = "done" /\ registry[c] = Nobody
        /\ net'[c] = "none" \/ c \in kept'
        /\ \A d \in Companies \ {c} : net'[d] = net[d] /\ (d \in kept' <=> d \in kept)
        /\ UNCHANGED <<about, target, registry, polling, reaped, orphans>>
        /\ \A k \in Handlers \ {h} : phase'[k] = phase[k]
    BY <1>6 DEF RemoveNetwork
  <2>2. Fits(h)' /\ NetFits(c)'
    BY <2>1 DEF NetFits, Busy, StartFits, Early, Booting
  <2>3. \A t \in polling' : about[t] = c => Reachable(t)'
    BY <2>1 DEF Reachable
  <2>4. QED
    BY <2>1, <2>2, <2>3, OthersStay
<1>7. QED
  BY <1>1, <1>2, <1>3, <1>4, <1>5, <1>6 DEF StopStep

LEMMA ManagerInvStep ==
  ASSUME ManagerInv, [ManagerNext]_managerVars
  PROVE  ManagerInv'
<1>1. ManagerTypeOK' /\ PlacesFit' /\ PollersArePast'
  BY ManagerTypeStep DEF ManagerInv
<1>2. calm' = calm
  BY DEF ManagerNext, StartStep, StopStep, StartRequest, MarkStarting, Preflight, InspectNetwork, CreateNetwork,
         ConnectPeers, InspectBox, RemoveStaleBox, RunBox, OpenPollers, BootFails, RegisterCompany, FinishStart,
         ReapPollers, ReapBoxes, StopRequest, StopPollers, StopBox, DeregisterCompany, DisconnectPeers,
         RemoveNetwork, BoxDies, CrashManager, managerVars
<1>3. ASSUME calm
      PROVE  CalmManager'
  <2>0. CalmManager
    BY <1>3 DEF ManagerInv
  <2>1. ASSUME NEW s \in Starts, StartStep(s)
        PROVE  CalmManager'
    BY <1>1, <1>3, <2>0, <2>1, CalmStartStep
  <2>2. ASSUME NEW h \in Handlers, (h \in Stops /\ StopStep(h)) \/ DisconnectPeers(h) \/ RemoveNetwork(h)
        PROVE  CalmManager'
    BY <1>1, <1>3, <2>0, <2>2, CalmStopStep
  <2>3. CASE UNCHANGED <<about, phase, target, registry, polling, reaped, net, orphans, kept>>
    BY <2>0, <2>3 DEF CalmManager, Working, Fits, StartFits, StopFits, Reachable, NetFits, Busy, At
  <2>4. ASSUME NEW b \in Boxes, BoxDies(b)
        PROVE  CalmManager'
    BY <2>3, <2>4 DEF BoxDies, handlerVars
  <2>5. CASE CrashManager
    <3>1. /\ \A h \in Handlers : phase'[h] \in {"idle", "done"}
          /\ \A c \in Companies : registry'[c] = Nobody /\ c \in kept'
          /\ polling' = {} /\ \A s \in Starts : reaped'[s] = "no"
      BY <2>5 DEF CrashManager
    <3>2. QED
      BY <3>1 DEF CalmManager, Working, Fits, StartFits, StopFits, Early, Booting, NetFits
  <2>6. CASE UNCHANGED managerVars
    BY <2>3, <2>6 DEF managerVars, handlerVars
  <2>7. QED
    BY <2>1, <2>2, <2>4, <2>5, <2>6 DEF ManagerNext, Handlers
<1>4. QED
  BY <1>1, <1>2, <1>3 DEF ManagerInv

(* What takes tasks for a company is its registered runtime, and its       *)
(* network is there while it runs and gone when it does not                *)
(* (company-manager.ts, company-network.js), where clients wait for        *)
(* answers, for every number of companies, roles, starts and stops.        *)
THEOREM CompaniesWhole == ManagerSpec => [](ManagerTypeOK /\ CompaniesAreWhole)
<1>1. ManagerInit => ManagerInv
  <2> SUFFICES ASSUME ManagerInit
               PROVE  ManagerInv
    OBVIOUS
  <2>1. ManagerTypeOK
    BY ManagerAssumption DEF ManagerInit, ManagerTypeOK, Places, Handlers
  <2>2. PlacesFit /\ PollersArePast
    BY DEF ManagerInit, PlacesFit, PollersArePast, StopPlaces, Handlers
  <2>3. CalmManager
    BY DEF ManagerInit, CalmManager, Working, Fits, StartFits, StopFits, Early, Booting, NetFits, Handlers
  <2>4. QED
    BY <2>1, <2>2, <2>3 DEF ManagerInv
<1>2. ManagerInv /\ [ManagerNext]_managerVars => ManagerInv'
  BY ManagerInvStep
<1>3. ManagerInv => ManagerTypeOK /\ CompaniesAreWhole
  BY DEF ManagerInv, CalmManager, Reachable, NetFits, CompaniesAreWhole, RuntimesAreReachable,
         NetworkFollowsCompany, At
<1>4. QED
  BY <1>1, <1>2, <1>3, PTL DEF ManagerSpec

-----------------------------------------------------------------------------
(* OrgMembers: the owner of an organisation                                *)

(* A request's operation fits the place it is at.                          *)
CallsAreSound ==
  \A c \in OrgCalls :
    /\ call[c].at \in {"asked", "org", "writing"} => call[c].op \in Ops \ {"accept"}
    /\ call[c].at = "counting" => call[c].op \in {"demote", "remove"}
    /\ call[c].at = "accepting" => call[c].op = "accept" /\ call[c].invite \in Invites

(* Who is demoted or removed is not the owner now, or was read to be.      *)
LoweredIsNotOwner ==
  \A c \in OrgCalls : call[c].op \in {"demote", "remove"} =>
    /\ call[c].at = "org" /\ call[c].who = orgOwner => call[c].owner = orgOwner
    /\ call[c].at \in {"counting", "writing"} => call[c].who # orgOwner

(* Who becomes the owner is still a member.                                *)
HeirIsMember ==
  \A c \in OrgCalls : call[c].op = "transfer" /\ call[c].at = "writing" =>
    membership[call[c].who] # "none"

OrgInv ==
  /\ OrgTypeOK /\ CallsAreSound
  /\ lapse = {} => OwnerStaysAdmin /\ LoweredIsNotOwner /\ HeirIsMember

(* A step of one request leaves the others where they are.                 *)
LEMMA OrgTypeStep ==
  ASSUME OrgTypeOK, CallsAreSound, [OrgNext]_orgVars
  PROVE  OrgTypeOK' /\ CallsAreSound'
<1> USE DEF OrgTypeOK, CallsAreSound, Ops, To
<1>1. ASSUME NEW c \in OrgCalls, NEW op \in Ops \ {"accept"}, NEW u \in Users, Ask(c, op, u)
      PROVE  OrgTypeOK' /\ CallsAreSound'
  <2> DEFINE new == [NoCall EXCEPT !.op = op, !.who = u, !.at = "asked"]
  <2>1. /\ call' = [call EXCEPT ![c] = new]
        /\ UNCHANGED <<orgOwner, membership, invitation, lapse>>
    BY <1>1, Zenon DEF Ask
  <2>2. /\ new \in [op : Ops \cup {"none"}, who : Users, owner : Users,
                   at : {"idle", "asked", "org", "counting", "writing", "accepting", "over"},
                   invite : Invites \cup {"none"}]
        /\ new.op = op /\ new.at = "asked"
    BY OrgAssumption DEF NoCall
  <2> HIDE DEF new
  <2>3. QED
    BY <2>1, <2>2
<1>2. ASSUME NEW c \in OrgCalls, NEW u \in Users, NEW i \in Invites, ReadInvite(c, u, i)
      PROVE  OrgTypeOK' /\ CallsAreSound'
  <2> DEFINE place == IF invitation[i] = "open" THEN "accepting" ELSE "over"
             new == [NoCall EXCEPT !.op = "accept", !.who = u, !.invite = i, !.at = place]
  <2>1. /\ call' = [call EXCEPT ![c] = new]
        /\ UNCHANGED <<orgOwner, membership, invitation, lapse>>
    BY <1>2, Zenon DEF ReadInvite
  <2>2. place \in {"accepting", "over"}
    OBVIOUS
  <2> HIDE DEF place
  <2>3. /\ new \in [op : Ops \cup {"none"}, who : Users, owner : Users,
                   at : {"idle", "asked", "org", "counting", "writing", "accepting", "over"},
                   invite : Invites \cup {"none"}]
        /\ new.op = "accept" /\ new.at = place /\ new.invite = i
    BY <2>2, OrgAssumption DEF NoCall
  <2> HIDE DEF new
  <2>4. QED
    BY <2>1, <2>2, <2>3
<1>3. ASSUME NEW c \in OrgCalls, ReadOrg(c)
      PROVE  OrgTypeOK' /\ CallsAreSound'
  BY <1>3 DEF ReadOrg
<1>4. ASSUME NEW c \in OrgCalls, ReadMember(c)
      PROVE  OrgTypeOK' /\ CallsAreSound'
  BY <1>4 DEF ReadMember
<1>5. ASSUME NEW c \in OrgCalls, CountAdmins(c)
      PROVE  OrgTypeOK' /\ CallsAreSound'
  BY <1>5 DEF CountAdmins
<1>6. ASSUME NEW c \in OrgCalls, WriteMember(c)
      PROVE  OrgTypeOK' /\ CallsAreSound'
  BY <1>6 DEF WriteMember, Regrade
<1>7. ASSUME NEW c \in OrgCalls, AcceptInvite(c)
      PROVE  OrgTypeOK' /\ CallsAreSound'
  <2>1. /\ call' = [call EXCEPT ![c].at = "over"] /\ orgOwner' = orgOwner
        /\ lapse' \subseteq lapse \cup {"accepted", "overlap"}
    BY <1>7 DEF AcceptInvite
  <2>2. /\ call[c].who \in Users /\ call[c].invite \in Invites
        /\ InvitedRole[call[c].invite] \in {"admin", "member"}
    BY <1>7, OrgAssumption DEF AcceptInvite
  <2>3. /\ membership' \in [Users -> {"none", "member", "admin"}]
        /\ invitation' \in [Invites -> {"open", "accepted", "expired"}]
    BY <1>7, <2>2 DEF AcceptInvite
  <2>4. QED
    BY <2>1, <2>3
<1>8. ASSUME NEW c \in OrgCalls, RollBack(c)
      PROVE  OrgTypeOK' /\ CallsAreSound'
  BY <1>8 DEF RollBack
<1>9. ASSUME NEW i \in Invites, InviteExpires(i)
      PROVE  OrgTypeOK' /\ CallsAreSound'
  BY <1>9 DEF InviteExpires
<1>10. CASE UNCHANGED orgVars
  BY <1>10 DEF orgVars
<1>11. QED
  BY <1>1, <1>2, <1>3, <1>4, <1>5, <1>6, <1>7, <1>8, <1>9, <1>10 DEF OrgNext, CallStep

(* A step that moves no ownership, removes nobody and lowers nobody keeps  *)
(* the owner an admin, when the request it moves satisfies the invariant.  *)
LEMMA QuietCall ==
  ASSUME OrgInv, OrgTypeOK', NEW c \in OrgCalls,
         orgOwner' = orgOwner, membership' = membership, lapse' = lapse,
         \A d \in OrgCalls \ {c} : call'[d] = call[d],
         lapse = {} =>
           /\ call'[c].op \in {"demote", "remove"} =>
                /\ call'[c].at = "org" /\ call'[c].who = orgOwner => call'[c].owner = orgOwner
                /\ call'[c].at \in {"counting", "writing"} => call'[c].who # orgOwner
           /\ call'[c].op = "transfer" /\ call'[c].at = "writing" => membership[call'[c].who] # "none"
  PROVE  (lapse = {} => OwnerStaysAdmin /\ LoweredIsNotOwner /\ HeirIsMember)'
<1> SUFFICES ASSUME lapse = {}
             PROVE  OwnerStaysAdmin' /\ LoweredIsNotOwner' /\ HeirIsMember'
  OBVIOUS
<1>1. OwnerStaysAdmin'
  BY DEF OrgInv, OwnerStaysAdmin
<1>2. LoweredIsNotOwner'
  BY DEF OrgInv, LoweredIsNotOwner
<1>3. HeirIsMember'
  BY DEF OrgInv, HeirIsMember
<1>4. QED
  BY <1>1, <1>2, <1>3

(* The writes of a transaction: a request that runs beside a transfer to   *)
(* its user, or of its user, is an overlap.                                *)
LEMMA WriteKeepsOwner ==
  ASSUME OrgInv, OrgTypeOK', NEW c \in OrgCalls, WriteMember(c), lapse' = {}
  PROVE  OwnerStaysAdmin' /\ LoweredIsNotOwner' /\ HeirIsMember'
<1> DEFINE op == call[c].op  who == call[c].who
<1>1. /\ lapse = {} /\ ~Overlaps(c) /\ call[c].at = "writing"
      /\ OwnerStaysAdmin /\ LoweredIsNotOwner /\ HeirIsMember
      /\ op \in {"promote", "demote", "remove", "transfer"}
  BY DEF WriteMember, OrgInv, CallsAreSound, Ops
<1>2. membership[orgOwner] = "admin"
  BY <1>1 DEF OwnerStaysAdmin
<1>3. /\ \A d \in OrgCalls : d # c => call'[d] = call[d]
      /\ call'[c].at = "over"
  BY DEF WriteMember, To, OrgInv, OrgTypeOK
<1>4. /\ membership \in [Users -> {"none", "member", "admin"}]
      /\ orgOwner \in Users /\ who \in Users /\ call[c].owner \in Users
  BY DEF OrgInv, OrgTypeOK
<1>5. \A d \in OrgCalls \ {c} :
        call[d].at \notin {"idle", "over"} /\ call[d].who = who => op # "transfer" /\ call[d].op # "transfer"
  BY <1>1 DEF Overlaps, Running
<1>6. CASE op = "transfer"
  <2>1. /\ membership[who] # "none" /\ orgOwner' = who
        /\ membership' = Regrade(Regrade(membership, who, "admin"), call[c].owner, "admin")
    BY <1>1, <1>6 DEF WriteMember, HeirIsMember
  <2>2. /\ membership'[who] = "admin"
        /\ \A u \in Users : membership[u] # "none" => membership'[u] # "none"
    BY <1>4, <2>1 DEF Regrade
  <2>3. \A d \in OrgCalls \ {c} : call[d].at \notin {"idle", "over"} => call[d].who # orgOwner'
    BY <1>5, <1>6, <2>1
  <2> HIDE DEF op, who
  <2>4. OwnerStaysAdmin'
    BY <2>1, <2>2 DEF OwnerStaysAdmin
  <2>5. LoweredIsNotOwner'
    BY <1>3, <2>3 DEF LoweredIsNotOwner
  <2>6. HeirIsMember'
    BY <1>1, <1>3, <2>2 DEF HeirIsMember, OrgInv, OrgTypeOK
  <2>7. QED
    BY <2>4, <2>5, <2>6
<1>7. CASE op \in {"demote", "remove"}
  <2>1. who # orgOwner /\ orgOwner' = orgOwner
    BY <1>1, <1>7 DEF WriteMember, LoweredIsNotOwner
  <2>2. \A u \in Users : u # who => membership'[u] = membership[u]
    BY <1>4, <1>7 DEF WriteMember, Regrade
  <2>3. \A d \in OrgCalls \ {c} : call[d].op = "transfer" /\ call[d].at = "writing" => call[d].who # who
    BY <1>5
  <2> HIDE DEF op, who
  <2>4. OwnerStaysAdmin'
    BY <1>2, <1>4, <2>1, <2>2 DEF OwnerStaysAdmin
  <2>5. LoweredIsNotOwner'
    BY <1>1, <1>3, <2>1 DEF LoweredIsNotOwner
  <2>6. HeirIsMember'
    BY <1>1, <1>3, <2>2, <2>3 DEF HeirIsMember, OrgInv, OrgTypeOK
  <2>7. QED
    BY <2>4, <2>5, <2>6
<1>8. CASE op = "promote"
  <2>1. orgOwner' = orgOwner
    BY <1>8 DEF WriteMember
  <2>2. \A u \in Users : /\ membership[u] = "admin" => membership'[u] = "admin"
                         /\ membership[u] # "none" => membership'[u] # "none"
    BY <1>4, <1>8 DEF WriteMember, Regrade
  <2> HIDE DEF op, who
  <2>3. OwnerStaysAdmin'
    BY <1>2, <1>4, <2>1, <2>2 DEF OwnerStaysAdmin
  <2>4. LoweredIsNotOwner'
    BY <1>1, <1>3, <2>1 DEF LoweredIsNotOwner
  <2>5. HeirIsMember'
    BY <1>1, <1>3, <2>2 DEF HeirIsMember, OrgInv, OrgTypeOK
  <2>6. QED
    BY <2>3, <2>4, <2>5
<1>9. QED
  BY <1>1, <1>6, <1>7, <1>8

LEMMA OrgInvStep ==
  ASSUME OrgInv, [OrgNext]_orgVars
  PROVE  OrgInv'
<1> DEFINE Kept == (lapse = {} => OwnerStaysAdmin /\ LoweredIsNotOwner /\ HeirIsMember)'
<1>0. OrgTypeOK /\ CallsAreSound /\ OrgTypeOK' /\ CallsAreSound'
  BY OrgTypeStep DEF OrgInv
<1>1. ASSUME NEW c \in OrgCalls, NEW op \in Ops \ {"accept"}, NEW u \in Users, Ask(c, op, u)
      PROVE  Kept
  <2>1. /\ \A d \in OrgCalls \ {c} : call'[d] = call[d]
        /\ call'[c].at = "asked"
    BY <1>0, <1>1 DEF Ask, OrgTypeOK, NoCall
  <2>2. UNCHANGED <<orgOwner, membership, lapse>>
    BY <1>1 DEF Ask
  <2>3. QED
    BY <1>0, <2>1, <2>2, QuietCall
<1>2. ASSUME NEW c \in OrgCalls, NEW u \in Users, NEW i \in Invites, ReadInvite(c, u, i)
      PROVE  Kept
  <2>1. /\ \A d \in OrgCalls \ {c} : call'[d] = call[d]
        /\ call'[c].at \in {"accepting", "over"}
    BY <1>0, <1>2 DEF ReadInvite, OrgTypeOK, NoCall
  <2>2. UNCHANGED <<orgOwner, membership, lapse>>
    BY <1>2 DEF ReadInvite
  <2>3. QED
    BY <1>0, <2>1, <2>2, QuietCall
<1>3. ASSUME NEW c \in OrgCalls, ReadOrg(c)
      PROVE  Kept
  <2>1. /\ \A d \in OrgCalls \ {c} : call'[d] = call[d]
        /\ call'[c].at \in {"org", "over"} /\ call'[c].owner = orgOwner
    BY <1>0, <1>3 DEF ReadOrg, OrgTypeOK
  <2>2. UNCHANGED <<orgOwner, membership, lapse>>
    BY <1>3 DEF ReadOrg
  <2>3. QED
    BY <1>0, <2>1, <2>2, QuietCall
<1>4. ASSUME NEW c \in OrgCalls, ReadMember(c)
      PROVE  Kept
  <2> DEFINE lowers == call[c].op \in {"demote", "remove"}
             place == CASE membership[call[c].who] = "none" -> "over"
                        [] membership[call[c].who] # "none" /\ lowers /\ call[c].owner = call[c].who -> "over"
                        [] membership[call[c].who] = "admin" /\ lowers /\ call[c].owner # call[c].who -> "counting"
                        [] OTHER -> "writing"
  <2>0. /\ call' = [call EXCEPT ![c].at = place]
        /\ lowers /\ call[c].owner = call[c].who => place = "over"
        /\ membership[call[c].who] = "none" => place = "over"
        /\ place \in {"counting", "writing", "over"}
    BY <1>4 DEF ReadMember, To
  <2> HIDE DEF place, lowers
  <2>1. /\ \A d \in OrgCalls \ {c} : call'[d] = call[d]
        /\ call'[c].who = call[c].who /\ call'[c].op = call[c].op
        /\ lowers /\ call[c].owner = call[c].who => call'[c].at = "over"
        /\ membership[call[c].who] = "none" => call'[c].at = "over"
        /\ call'[c].at \in {"counting", "writing", "over"}
    BY <1>0, <2>0 DEF OrgTypeOK
  <2>2. UNCHANGED <<orgOwner, membership, lapse>> /\ call[c].at = "org"
    BY <1>4 DEF ReadMember
  <2>3. lapse = {} /\ lowers /\ call[c].who = orgOwner => call'[c].at = "over"
    BY <2>1, <2>2 DEF OrgInv, LoweredIsNotOwner, lowers
  <2>4. QED
    BY <1>0, <2>1, <2>2, <2>3, QuietCall DEF lowers
<1>5. ASSUME NEW c \in OrgCalls, CountAdmins(c)
      PROVE  Kept
  <2>1. /\ \A d \in OrgCalls \ {c} : call'[d] = call[d]
        /\ call'[c].who = call[c].who /\ call'[c].op = call[c].op
        /\ call'[c].at \in {"writing", "over"}
    BY <1>0, <1>5 DEF CountAdmins, To, OrgTypeOK
  <2>2. /\ UNCHANGED <<orgOwner, membership, lapse>>
        /\ call[c].at = "counting" /\ call[c].op \in {"demote", "remove"}
    BY <1>0, <1>5 DEF CountAdmins, CallsAreSound
  <2>3. lapse = {} => call[c].who # orgOwner
    BY <2>2 DEF OrgInv, LoweredIsNotOwner
  <2>4. QED
    BY <1>0, <2>1, <2>2, <2>3, QuietCall
<1>6. ASSUME NEW c \in OrgCalls, WriteMember(c)
      PROVE  Kept
  BY <1>0, <1>6, WriteKeepsOwner
<1>7. ASSUME NEW c \in OrgCalls, AcceptInvite(c)
      PROVE  Kept
  <2> SUFFICES ASSUME lapse' = {}
               PROVE  OwnerStaysAdmin' /\ LoweredIsNotOwner' /\ HeirIsMember'
    OBVIOUS
  <2> DEFINE who == call[c].who  invitedRole == InvitedRole[call[c].invite]
  <2>1. /\ lapse = {} /\ ~(who = orgOwner /\ invitedRole = "member") /\ orgOwner' = orgOwner
        /\ membership' = [membership EXCEPT ![who] = invitedRole]
    BY <1>7 DEF AcceptInvite
  <2>2. invitedRole \in {"admin", "member"} /\ who \in Users /\ orgOwner \in Users
    <3>1. call[c].at = "accepting"
      BY <1>7 DEF AcceptInvite
    <3>2. call[c].who \in Users /\ orgOwner \in Users
      BY <1>0 DEF OrgTypeOK
    <3>3. call[c].invite \in Invites
      BY <1>0, <3>1 DEF CallsAreSound
    <3>4. QED
      BY <3>2, <3>3, OrgAssumption
  <2>3. /\ \A d \in OrgCalls \ {c} : call'[d] = call[d]
        /\ call'[c].at = "over"
    BY <1>0, <1>7 DEF AcceptInvite, To, OrgTypeOK
  <2> HIDE DEF who, invitedRole
  <2>4. /\ membership'[orgOwner] = "admin"
        /\ \A u \in Users : membership[u] # "none" => membership'[u] # "none"
    BY <1>0, <2>1, <2>2 DEF OrgInv, OwnerStaysAdmin, OrgTypeOK
  <2>5. LoweredIsNotOwner'
    BY <2>1, <2>3 DEF OrgInv, LoweredIsNotOwner
  <2>6. HeirIsMember'
    BY <1>0, <2>1, <2>3, <2>4 DEF OrgInv, HeirIsMember, OrgTypeOK
  <2>7. QED
    BY <2>1, <2>4, <2>5, <2>6 DEF OwnerStaysAdmin
<1>8. ASSUME NEW c \in OrgCalls, RollBack(c)
      PROVE  Kept
  <2>1. /\ \A d \in OrgCalls \ {c} : call'[d] = call[d]
        /\ call'[c].at = "over"
    BY <1>0, <1>8 DEF RollBack, To, OrgTypeOK
  <2>2. UNCHANGED <<orgOwner, membership, lapse>>
    BY <1>8 DEF RollBack
  <2>3. QED
    BY <1>0, <2>1, <2>2, QuietCall
<1>9. ASSUME UNCHANGED <<orgOwner, membership, call, lapse>>
      PROVE  Kept
  BY <1>9 DEF OrgInv, OwnerStaysAdmin, LoweredIsNotOwner, HeirIsMember
<1>10. (\E i \in Invites : InviteExpires(i)) \/ UNCHANGED orgVars
         => UNCHANGED <<orgOwner, membership, call, lapse>>
  BY DEF InviteExpires, orgVars
<1>11. Kept
  BY <1>1, <1>2, <1>3, <1>4, <1>5, <1>6, <1>7, <1>8, <1>9, <1>10 DEF OrgNext, CallStep
<1>12. QED
  BY <1>0, <1>11 DEF OrgInv

(* Whatever admins promote, demote, remove and transfer at the same time,  *)
(* the owner holds an admin membership, but for the two lapses the code    *)
(* allows: an invitation accepted as a member, and an overlap of a         *)
(* transfer with another request about the same user.                      *)
THEOREM OwnersAdminister == OrgSpec => [](OrgTypeOK /\ OwnerStaysAdmin)
<1>1. OrgInit => OrgInv
  <2>1. OrgInit => OrgTypeOK /\ CallsAreSound
    BY OrgAssumption DEF OrgInit, OrgTypeOK, CallsAreSound, NoCall, Ops
  <2>2. OrgInit => OwnerStaysAdmin /\ LoweredIsNotOwner /\ HeirIsMember
    BY DEF OrgInit, OwnerStaysAdmin, LoweredIsNotOwner, HeirIsMember, NoCall
  <2>3. QED
    BY <2>1, <2>2 DEF OrgInv
<1>2. OrgInv /\ [OrgNext]_orgVars => OrgInv'
  BY OrgInvStep
<1>3. OrgInv => OrgTypeOK /\ OwnerStaysAdmin
  BY DEF OrgInv, OwnerStaysAdmin
<1>4. QED
  BY <1>1, <1>2, <1>3, PTL DEF OrgSpec

-----------------------------------------------------------------------------
(* ProjectAccess: who is let in                                            *)

(* What is listed is listed for the project that there is.                 *)
ListedIsCurrent == \A x \in listed : x[1] = project

(* A request that is past the middleware's look at the project found one.  *)
ProjectWasFound ==
  \A v \in Asks : ask[v].at \in AskPlaces \ {"idle", "member", "refused", "done"} => ask[v].id # 0

(* Whose membership was read was in, and an admin if it said so.           *)
ReadersWereIn ==
  \A v \in Asks : Active(v) =>
    v \in wasIn /\ (ask[v].role = "admin" => v \in wasEntitled)

AccessInv ==
  /\ AccessTypeOK /\ ListedIsCurrent /\ ProjectWasFound /\ ReadersWereIn
  /\ PermissionsFollowMembership /\ AdmittedAreEntitled

(* The tables of the database.                                             *)
TablesAreSound ==
  /\ orgRole \in [Members -> {"none", "member", "admin"}]
  /\ project \in 0..MaxProjects /\ creator \in Members \cup {NoMember} /\ projects \in 1..MaxProjects
  /\ listed \subseteq (1..MaxProjects) \X Members /\ granted \subseteq Members
  /\ grantAt \in [GrantCalls -> {"idle", "admin", "found", "over"}] /\ moves \in 0..MaxMoves
  /\ ListedIsCurrent /\ PermissionsFollowMembership
RequestsAreSound ==
  ask \in [Asks -> [at : AskPlaces, role : {"none", "member", "admin"},
                    id : 0..MaxProjects, seen : 0..MaxProjects]]

LEMMA AccessTypes == AccessInv => TablesAreSound /\ RequestsAreSound
  BY DEF AccessInv, AccessTypeOK, TablesAreSound, RequestsAreSound

(* The steps that are no request's.                                        *)
LEMMA TableStep ==
  ASSUME AccessInv,
         \/ ListCreator \/ DeleteProject
         \/ \E u \in Members : CreateAgain(u) \/ RevokePermission(u)
         \/ \E u \in Members, r \in {"none", "member", "admin"} : MoveMember(u, r)
         \/ \E g \in GrantCalls : RequireOrgAdmin(g) \/ FindGrantee(g) \/ GrantPermission(g)
  PROVE  TablesAreSound' /\ ask' = ask
<1>0. TablesAreSound
  BY AccessTypes
<1> USE AccessAssumption DEF TablesAreSound, accessTables, ListedIsCurrent, PermissionsFollowMembership, GoGrant
<1>1. CASE ListCreator
  BY <1>0, <1>1 DEF ListCreator
<1>2. CASE DeleteProject
  BY <1>0, <1>2 DEF DeleteProject
<1>3. ASSUME NEW u \in Members, CreateAgain(u)
      PROVE  TablesAreSound' /\ ask' = ask
  <2>1. listed = {}
    BY <1>0, <1>3 DEF CreateAgain
  <2>2. QED
    BY <1>0, <1>3, <2>1 DEF CreateAgain
<1>4. ASSUME NEW u \in Members, RevokePermission(u)
      PROVE  TablesAreSound' /\ ask' = ask
  BY <1>0, <1>4 DEF RevokePermission
<1>5. ASSUME NEW u \in Members, NEW r \in {"none", "member", "admin"}, MoveMember(u, r)
      PROVE  TablesAreSound' /\ ask' = ask
  BY <1>0, <1>5 DEF MoveMember
<1>6. ASSUME NEW g \in GrantCalls, RequireOrgAdmin(g) \/ FindGrantee(g)
      PROVE  TablesAreSound' /\ ask' = ask
  BY <1>0, <1>6 DEF RequireOrgAdmin, FindGrantee
<1>7. ASSUME NEW g \in GrantCalls, GrantPermission(g)
      PROVE  TablesAreSound' /\ ask' = ask
  BY <1>0, <1>7 DEF GrantPermission
<1>8. QED
  BY <1>1, <1>2, <1>3, <1>4, <1>5, <1>6, <1>7

(* What a step of a request may do: no other request moves, and who is let *)
(* further is a member, an admin or listed, now or at an earlier moment.   *)
RequestMoves(v) ==
  /\ TablesAreSound' /\ RequestsAreSound'
  /\ \A w \in Asks \ {v} : ask'[w] = ask[w]
  /\ ask'[v].at \in AskPlaces \ {"idle", "member", "refused", "done"} => ask'[v].id # 0
  /\ Under(v) =>
       /\ v \in wasIn \/ orgRole'[v.who] # "none"
       /\ ask'[v].role = "admin" => v \in wasEntitled \/ orgRole'[v.who] = "admin"
  /\ ask'[v].at \in {"admitted", "list", "listing", "unlist"} =>
       v \in wasEntitled \/ orgRole'[v.who] = "admin" \/ <<project', v.who>> \in listed'

LEMMA AskStepMoves ==
  ASSUME AccessInv, NEW v \in Asks, AskStep(v)
  PROVE  RequestMoves(v)
<1>0. TablesAreSound /\ RequestsAreSound
  BY AccessTypes
<1>1. v.who \in Members /\ v.whom \in Members
  BY AccessAssumption
<1>2. /\ ask[v].at \in AskPlaces \ {"idle", "member", "refused", "done"} => ask[v].id # 0
      /\ ask[v].at \notin {"idle", "refused", "done"} =>
           v \in wasIn /\ (ask[v].role = "admin" => v \in wasEntitled)
      /\ ask[v].at \in {"admitted", "list", "listing", "unlist"} => v \in wasEntitled
  BY DEF AccessInv, ProjectWasFound, ReadersWereIn, AdmittedAreEntitled, Active
<1>3. ASSUME UNCHANGED accessTables, UNCHANGED <<grantAt, moves>>
      PROVE  TablesAreSound' /\ UNCHANGED <<orgRole, project, listed>>
  BY <1>0, <1>3 DEF TablesAreSound, accessTables, ListedIsCurrent, PermissionsFollowMembership
<1>4. ASSUME ReadMembership(v)
      PROVE  RequestMoves(v)
  <2>1. ask[v].at = "idle" /\ TablesAreSound' /\ orgRole' = orgRole
    BY <1>3, <1>4 DEF ReadMembership
  <2>2. /\ RequestsAreSound' /\ \A w \in Asks \ {v} : ask'[w] = ask[w]
        /\ ask'[v].role = orgRole[v.who]
        /\ ask'[v].at = IF orgRole[v.who] = "none" THEN "refused" ELSE "member"
    BY <1>0, <1>1, <1>4 DEF ReadMembership, RequestsAreSound, TablesAreSound, AskPlaces
  <2>3. QED
    BY <2>1, <2>2 DEF RequestMoves, Under
<1>5. ASSUME ReadProject(v)
      PROVE  RequestMoves(v)
  <2> DEFINE place == CASE project = 0 -> "refused"
                        [] project # 0 /\ ask[v].role = "admin" -> "admitted"
                        [] OTHER -> "checking"
  <2>1. ask[v].at = "member" /\ TablesAreSound'
    BY <1>3, <1>5 DEF ReadProject
  <2>2. /\ place \in {"refused", "admitted", "checking"}
        /\ project = 0 => place = "refused"
        /\ place = "admitted" => ask[v].role = "admin"
    OBVIOUS
  <2>3. ask' = [ask EXCEPT ![v].id = project, ![v].at = place]
    BY <1>5 DEF ReadProject
  <2> HIDE DEF place
  <2>4. /\ RequestsAreSound' /\ \A w \in Asks \ {v} : ask'[w] = ask[w]
        /\ ask'[v].role = ask[v].role /\ ask'[v].at = place /\ ask'[v].id = project
    <3> DEFINE new == [ask[v] EXCEPT !.id = project, !.at = place]
    <3>1. project \in 0..MaxProjects /\ place \in AskPlaces
      BY <1>0, <2>2 DEF TablesAreSound, AskPlaces
    <3>2. /\ new \in [at : AskPlaces, role : {"none", "member", "admin"}, id : 0..MaxProjects, seen : 0..MaxProjects]
          /\ new.role = ask[v].role /\ new.at = place /\ new.id = project
      BY <1>0, <3>1 DEF RequestsAreSound
    <3>3. ask' = [ask EXCEPT ![v] = new]
      BY <1>0, <2>3 DEF RequestsAreSound
    <3> HIDE DEF new
    <3>4. QED
      BY <1>0, <3>2, <3>3 DEF RequestsAreSound
  <2>5. QED
    BY <1>2, <2>1, <2>2, <2>4 DEF RequestMoves, Under
<1>6. ASSUME ReadProjectAgain(v)
      PROVE  RequestMoves(v)
  <2>1. ask[v].at = "checking" /\ TablesAreSound'
    BY <1>3, <1>6 DEF ReadProjectAgain
  <2>2. /\ RequestsAreSound' /\ \A w \in Asks \ {v} : ask'[w] = ask[w]
        /\ ask'[v].role = ask[v].role /\ ask'[v].at \in {"refused", "admin?"} /\ ask'[v].id = ask[v].id
    BY <1>0, <1>6 DEF ReadProjectAgain, RequestsAreSound, TablesAreSound, AskPlaces
  <2>3. ask[v].id # 0
    BY <1>2, <2>1 DEF AskPlaces
  <2>4. QED
    BY <1>2, <2>1, <2>2, <2>3 DEF RequestMoves, Under
<1>7. ASSUME NEW place \in AskPlaces, GoAsk(v, place), ask[v].at \notin {"idle", "member", "refused", "done"},
             TablesAreSound', orgRole' = orgRole,
             place \in {"admitted", "list", "listing", "unlist"} =>
               v \in wasEntitled \/ orgRole[v.who] = "admin" \/ <<project', v.who>> \in listed'
      PROVE  RequestMoves(v)
  <2>1. /\ RequestsAreSound' /\ \A w \in Asks \ {v} : ask'[w] = ask[w]
        /\ ask'[v].role = ask[v].role /\ ask'[v].at = place /\ ask'[v].id = ask[v].id
    BY <1>0, <1>7 DEF GoAsk, RequestsAreSound
  <2>2. ask[v].at \in AskPlaces
    BY <1>0 DEF RequestsAreSound
  <2>3. QED
    BY <1>2, <1>7, <2>1, <2>2 DEF RequestMoves, Under
<1> USE DEF AskPlaces
<1>8. ASSUME ReadAdminRow(v)
      PROVE  RequestMoves(v)
  BY <1>3, <1>7, <1>8 DEF ReadAdminRow
<1>9. ASSUME ReadMemberRow(v)
      PROVE  RequestMoves(v)
  <2>1. <<ask[v].seen, v.who>> \in listed => <<project, v.who>> \in listed
    BY DEF AccessInv, ListedIsCurrent
  <2>2. QED
    BY <1>3, <1>7, <1>9, <2>1 DEF ReadMemberRow
<1>10. ASSUME OnlyAdmins(v)
       PROVE  RequestMoves(v)
  BY <1>2, <1>3, <1>7, <1>10 DEF OnlyAdmins
<1>11. ASSUME FindMember(v)
       PROVE  RequestMoves(v)
  BY <1>2, <1>3, <1>7, <1>11 DEF FindMember
<1>12. ASSUME AddProjectMember(v)
       PROVE  RequestMoves(v)
  <2>1. ask[v].at = "listing" /\ ask[v].id # 0 /\ ask[v].id \in 0..MaxProjects
    BY <1>0, <1>2, <1>12 DEF AddProjectMember, RequestsAreSound
  <2>2. TablesAreSound' /\ orgRole' = orgRole
    BY <1>0, <1>1, <1>12, <2>1, AccessAssumption
    DEF AddProjectMember, TablesAreSound, ListedIsCurrent, PermissionsFollowMembership
  <2>3. QED
    BY <1>7, <1>12, <2>1, <2>2 DEF AddProjectMember
<1>13. ASSUME RemoveProjectMember(v)
       PROVE  RequestMoves(v)
  <2>1. TablesAreSound' /\ orgRole' = orgRole
    BY <1>0, <1>13 DEF RemoveProjectMember, TablesAreSound, ListedIsCurrent, PermissionsFollowMembership
  <2>2. QED
    BY <1>7, <1>13, <2>1 DEF RemoveProjectMember
<1>14. QED
  BY <1>4, <1>5, <1>6, <1>8, <1>9, <1>10, <1>11, <1>12, <1>13 DEF AskStep

LEMMA AccessInvStep ==
  ASSUME AccessInv, [AccessNext]_accessVars
  PROVE  AccessInv'
<1>0. TablesAreSound /\ RequestsAreSound
  BY AccessTypes
<1>1. ASSUME TablesAreSound', RequestsAreSound', ProjectWasFound', ReadersWereIn', AdmittedAreEntitled'
      PROVE  AccessInv'
  BY <1>1 DEF AccessInv, AccessTypeOK, TablesAreSound, RequestsAreSound
<1>2. CASE UNCHANGED accessVars
  BY <1>2 DEF accessVars, accessTables, AccessInv, AccessTypeOK, ListedIsCurrent, ProjectWasFound,
       ReadersWereIn, PermissionsFollowMembership, AdmittedAreEntitled, Active
<1>3. CASE AccessNext
  <2>1. \A v \in Asks :
          /\ v \in wasIn' <=> v \in wasIn \/ (Under(v) /\ orgRole'[v.who] # "none")
          /\ v \in wasEntitled' <=>
               v \in wasEntitled \/ (Under(v) /\ (orgRole'[v.who] = "admin" \/ <<project', v.who>> \in listed'))
    BY <1>3 DEF AccessNext
  <2>2. ASSUME TablesAreSound', ask' = ask
        PROVE  AccessInv'
    <3>1. RequestsAreSound' /\ ProjectWasFound' /\ ReadersWereIn' /\ AdmittedAreEntitled'
      BY <1>0, <2>1, <2>2 DEF AccessInv, RequestsAreSound, ProjectWasFound, ReadersWereIn,
           AdmittedAreEntitled, Active
    <3>2. QED
      BY <1>1, <2>2, <3>1
  <2>3. ASSUME NEW v \in Asks, AskStep(v)
        PROVE  AccessInv'
    <3>1. RequestMoves(v)
      BY <2>3, AskStepMoves
    <3>2. TablesAreSound' /\ RequestsAreSound'
      BY <3>1 DEF RequestMoves
    <3>3. ProjectWasFound'
      BY <3>1 DEF RequestMoves, AccessInv, ProjectWasFound
    <3>4. ReadersWereIn'
      <4>1. ASSUME NEW w \in Asks, w # v, Active(w)'
            PROVE  w \in wasIn' /\ (ask'[w].role = "admin" => w \in wasEntitled')
        BY <2>1, <3>1, <4>1 DEF RequestMoves, AccessInv, ReadersWereIn, Active
      <4>2. Under(v) => v \in wasIn' /\ (ask'[v].role = "admin" => v \in wasEntitled')
        BY <2>1, <3>1 DEF RequestMoves
      <4>3. QED
        BY <4>1, <4>2 DEF ReadersWereIn, Active, Under
    <3>5. AdmittedAreEntitled'
      <4>1. ASSUME NEW w \in Asks, w # v, ask'[w].at \in {"admitted", "list", "listing", "unlist"}
            PROVE  w \in wasIn' \cap wasEntitled'
        BY <2>1, <3>1, <4>1 DEF RequestMoves, AccessInv, AdmittedAreEntitled
      <4>2. ask'[v].at \in {"admitted", "list", "listing", "unlist"} => v \in wasIn' \cap wasEntitled'
        BY <2>1, <3>1 DEF RequestMoves, Under
      <4>3. QED
        BY <4>1, <4>2 DEF AdmittedAreEntitled
    <3>6. QED
      BY <1>1, <3>2, <3>3, <3>4, <3>5
  <2>4. QED
    BY <1>3, <2>2, <2>3, TableStep DEF AccessNext, AccessStep
<1>4. QED
  BY <1>2, <1>3

(* Who is let in was, at moments of that request, a member and an admin or *)
(* listed, and no permission outlives its membership, whatever happens     *)
(* between the queries of the middleware and of the handlers.              *)
THEOREM AccessEarned == AccessSpec => [](AccessTypeOK /\ AccessIsEarned)
<1>1. AccessInit => AccessInv
  <2> SUFFICES ASSUME AccessInit
               PROVE  AccessInv
    OBVIOUS
  <2>1. PICK askers \in BOOLEAN :
          /\ ask = [v \in Asks |-> [at |-> IF askers THEN "done" ELSE "idle",
                                    role |-> "none", id |-> 0, seen |-> 0]]
          /\ grantAt = [g \in GrantCalls |-> IF askers THEN "idle" ELSE "over"]
    BY DEF AccessInit
  <2>2. AccessTypeOK /\ ListedIsCurrent
    BY <2>1, AccessAssumption DEF AccessInit, AccessTypeOK, AskPlaces, ListedIsCurrent
  <2>3. \A v \in Asks : ask[v].at \in {"done", "idle"}
    BY <2>1
  <2>4. ProjectWasFound /\ ReadersWereIn /\ PermissionsFollowMembership /\ AdmittedAreEntitled
    BY <2>3 DEF AccessInit, ProjectWasFound, ReadersWereIn, PermissionsFollowMembership,
       AdmittedAreEntitled, Active
  <2>5. QED
    BY <2>2, <2>4 DEF AccessInv
<1>2. AccessInv /\ [AccessNext]_accessVars => AccessInv'
  BY AccessInvStep
<1>3. AccessInv => AccessTypeOK /\ AccessIsEarned
  BY DEF AccessInv, AccessIsEarned
<1>4. QED
  BY <1>1, <1>2, <1>3, PTL DEF AccessSpec

-----------------------------------------------------------------------------
(* Accounts: who gets in, and that somebody does                           *)

USE AccountAssumption

VisitPlaces == {"idle", "listed", "gated", "upserting", "in", "admin", "patching", "deleting", "over"}
Inside == {"in", "admin", "patching", "deleting"}

(* A visit has a row's id from the upsert on, and deletes another's row.   *)
IdsFitPlaces ==
  \A v \in Visits :
    /\ visit[v].at \in {"idle", "listed", "gated", "upserting"} => visit[v].id = "none"
    /\ visit[v].at \in Inside => visit[v].id \in {"held", "gone"}
    /\ visit[v].at = "deleting" => visit[v].on # Who(v)

(* The row of an id that a visit holds is there.                           *)
HeldRowsExist == \A v \in Visits : InFlight(v) /\ visit[v].id = "held" => user[Who(v)].exists

(* Past the look at its row, a visit was welcome; what makes it an admin,  *)
(* its own reading of the lists or a flag that another visit of the person *)
(* wrote, entitles it.                                                     *)
VisitsAreWitnessed ==
  \A v \in Visits :
    /\ visit[v].at \in {"gated", "upserting"} \cup Inside => v \in welcome
    /\ visit[v].admin => v \in entitled
    /\ InFlight(v) /\ visit[v].id = "held" /\ user[Who(v)].admin => v \in entitled
    /\ visit[v].at = "admin" => v \in entitled

AccountInv == AccountTypeOK /\ IdsFitPlaces /\ HeldRowsExist /\ VisitsAreWitnessed /\ SomeoneIsLeft

(* What the histories gain by a step.                                      *)
LEMMA WatchGrows ==
  ASSUME Watch, NEW v \in Visits
  PROVE  /\ v \in entitled => v \in entitled'
         /\ v \in welcome => v \in welcome'
         /\ visit'[v].at \notin {"idle", "over"} =>
              /\ ~user'[visit'[v].who].blocked => v \in welcome'
              /\ visit'[v].who \in EnvAdmins \cup adminList' => v \in entitled'
              /\ \A w \in Visits :
                   w \in entitled /\ visit'[w].at \notin {"idle", "over"} /\ visit'[w].who = visit'[v].who
                     => v \in entitled'
  BY DEF Watch, Open

(* The histories keep their types.                                         *)
LEMMA WatchType ==
  ASSUME AccountTypeOK, Watch
  PROVE  entitled' \subseteq Visits /\ welcome' \subseteq Visits
  BY DEF AccountTypeOK, Watch, Open

(* A visit goes on to a place that its ids and the histories allow.        *)
LEMMA AheadKeeps ==
  ASSUME AccountInv, Keep, user' = user,
         policy' \in Policies, adminList' \subseteq People, ownsOrg' \subseteq Known,
         NEW v \in Visits, InFlight(v),
         NEW place \in VisitPlaces \ {"idle", "listed", "in", "deleting"}, Ahead(v, place),
         place \in {"gated", "upserting"} => visit[v].id = "none",
         place \in {"admin", "patching"} => visit[v].id \in {"held", "gone"},
         place # "over" => v \in welcome',
         place = "admin" => v \in entitled'
  PROVE  AccountInv'
<1>0. AccountTypeOK /\ IdsFitPlaces /\ HeldRowsExist /\ VisitsAreWitnessed /\ SomeoneIsLeft
  BY DEF AccountInv
<1>1. /\ visit \in [Visits -> [who : People, invite : BOOLEAN, admin : BOOLEAN, on : People,
                              id : {"none", "held", "gone"}, at : VisitPlaces]]
      /\ user \in [People -> UserRows \cup {NoUser}]
  BY <1>0 DEF AccountTypeOK, VisitPlaces
<1>2. visit' = [visit EXCEPT ![v].at = place] /\ ambushed' = ambushed /\ Watch
  BY DEF Ahead, Keep
<1>3. /\ visit' \in [Visits -> [who : People, invite : BOOLEAN, admin : BOOLEAN, on : People,
                               id : {"none", "held", "gone"}, at : VisitPlaces]]
      /\ \A w \in Visits \ {v} : visit'[w] = visit[w]
      /\ visit'[v].who = visit[v].who /\ visit'[v].admin = visit[v].admin
      /\ visit'[v].id = visit[v].id /\ visit'[v].on = visit[v].on /\ visit'[v].at = place
  BY <1>1, <1>2
<1>4. AccountTypeOK'
  BY <1>0, <1>2, <1>3, WatchType DEF AccountTypeOK, VisitPlaces, Known
<1>5. IdsFitPlaces'
  BY <1>0, <1>3 DEF IdsFitPlaces, Who, Inside, VisitPlaces
<1>6. HeldRowsExist'
  BY <1>0, <1>3 DEF HeldRowsExist, Who, InFlight
<1>7. VisitsAreWitnessed'
  <2>1. \A w \in Visits : /\ w \in entitled => w \in entitled'
                          /\ w \in welcome => w \in welcome'
    BY <1>2, WatchGrows
  <2>2. QED
    BY <1>0, <1>3, <2>1 DEF VisitsAreWitnessed, Who, InFlight, Inside, VisitPlaces
<1>8. SomeoneIsLeft'
  BY <1>0, <1>2 DEF SomeoneIsLeft, Known
<1>9. QED
  BY <1>4, <1>5, <1>6, <1>7, <1>8 DEF AccountInv

VisitRecord == [who : People, invite : BOOLEAN, admin : BOOLEAN, on : People,
                id : {"none", "held", "gone"}, at : VisitPlaces]

LEMMA AccountFacts ==
  ASSUME AccountInv
  PROVE  /\ AccountTypeOK /\ IdsFitPlaces /\ HeldRowsExist /\ VisitsAreWitnessed /\ SomeoneIsLeft
         /\ visit \in [Visits -> VisitRecord] /\ user \in [People -> UserRows \cup {NoUser}]
         /\ policy \in Policies /\ adminList \subseteq People /\ ownsOrg \subseteq Known
         /\ \A v \in Visits : Who(v) \in People
  BY DEF AccountInv, AccountTypeOK, VisitPlaces, VisitRecord, SomeoneIsLeft, Who

LEMMA ArriveKeeps ==
  ASSUME AccountInv, NEW v \in Visits, NEW p \in People, NEW invite \in BOOLEAN, Arrive(v, p, invite)
  PROVE  AccountInv'
<1>0. /\ AccountTypeOK /\ IdsFitPlaces /\ HeldRowsExist /\ VisitsAreWitnessed /\ SomeoneIsLeft
      /\ visit \in [Visits -> VisitRecord]
  BY AccountFacts
<1> DEFINE lists == p \in EnvAdmins \cup adminList
           new == [visit[v] EXCEPT !.who = p, !.invite = invite, !.at = "listed", !.admin = lists]
<1>1. /\ visit[v].at = "idle" /\ visit' = [visit EXCEPT ![v] = new]
      /\ UNCHANGED <<user, policy, adminList, ownsOrg, ambushed>> /\ Watch
  BY DEF Arrive, In, Keep
<1>2. /\ new \in VisitRecord /\ new.who = p /\ new.at = "listed" /\ new.admin = lists
      /\ new.id = visit[v].id
  <2>1. lists \in BOOLEAN
    OBVIOUS
  <2> HIDE DEF lists
  <2>2. QED
    BY <1>0, <2>1 DEF VisitRecord, VisitPlaces
<1> HIDE DEF new
<1>3. /\ visit' \in [Visits -> VisitRecord]
      /\ visit'[v] = new /\ \A w \in Visits \ {v} : visit'[w] = visit[w]
  BY <1>0, <1>1, <1>2
<1>4. AccountTypeOK'
  BY <1>0, <1>1, <1>3, WatchType DEF AccountTypeOK, VisitRecord, VisitPlaces
<1>5. new.id = "none"
  BY <1>0, <1>1, <1>2 DEF IdsFitPlaces
<1>6. IdsFitPlaces' /\ HeldRowsExist'
  BY <1>0, <1>1, <1>2, <1>3, <1>5 DEF IdsFitPlaces, HeldRowsExist, Inside, InFlight, Who
<1>7. VisitsAreWitnessed'
  <2>1. \A w \in Visits : /\ w \in entitled => w \in entitled'
                          /\ w \in welcome => w \in welcome'
    BY <1>1, WatchGrows
  <2>2. new.admin => v \in entitled'
    BY <1>1, <1>2, <1>3, WatchGrows
  <2>3. QED
    BY <1>0, <1>1, <1>2, <1>3, <1>5, <2>1, <2>2 DEF VisitsAreWitnessed, Who, InFlight, Inside
<1>8. SomeoneIsLeft'
  BY <1>0, <1>1 DEF SomeoneIsLeft, Known
<1>9. QED
  BY <1>4, <1>6, <1>7, <1>8 DEF AccountInv

(* The upsert writes what its visit read, into a row that may be new, and  *)
(* leaves the block of a row that is there.                                *)
LEMMA UpsertKeeps ==
  ASSUME AccountInv, NEW v \in Visits, UpsertUser(v)
  PROVE  AccountInv'
<1>0. /\ AccountTypeOK /\ IdsFitPlaces /\ HeldRowsExist /\ VisitsAreWitnessed /\ SomeoneIsLeft
      /\ visit \in [Visits -> VisitRecord] /\ user \in [People -> UserRows \cup {NoUser}]
      /\ Who(v) \in People
  BY AccountFacts
<1> DEFINE p == Who(v)
           b == user[p].blocked
           a == visit[v].admin
           row == [exists |-> TRUE, blocked |-> b, admin |-> a]
<1>1. /\ visit[v].at = "upserting"
      /\ visit' = [visit EXCEPT ![v].at = "in", ![v].id = "held"]
      /\ user' = [user EXCEPT ![p] = row]
      /\ UNCHANGED <<policy, adminList, ownsOrg, ambushed>> /\ Watch
  BY DEF UpsertUser, In, Keep
<1>2. a \in BOOLEAN /\ b \in BOOLEAN
  <2>1. visit[v] \in VisitRecord /\ user[p] \in UserRows \cup {NoUser}
    BY <1>0
  <2>2. \A r \in UserRows \cup {NoUser} : r.blocked \in BOOLEAN
    <3>1. \A r \in UserRows : r.blocked \in BOOLEAN
      BY Zenon DEF UserRows
    <3>2. NoUser.blocked \in BOOLEAN
      BY DEF NoUser
    <3>3. QED
      BY <3>1, <3>2
  <2>3. \A r \in VisitRecord : r.admin \in BOOLEAN
    BY DEF VisitRecord
  <2>4. QED
    BY <2>1, <2>2, <2>3
<1> HIDE DEF a, b
<1>3. row \in UserRows /\ row.exists /\ row.blocked = b /\ row.admin = a
  BY <1>2 DEF UserRows
<1> HIDE DEF row
<1>4. /\ visit' \in [Visits -> VisitRecord]
      /\ \A w \in Visits \ {v} : visit'[w] = visit[w]
      /\ visit'[v].who = visit[v].who /\ visit'[v].admin = a
      /\ visit'[v].id = "held" /\ visit'[v].on = visit[v].on /\ visit'[v].at = "in"
  <2> DEFINE new == [visit[v] EXCEPT !.at = "in", !.id = "held"]
  <2>1. /\ new \in VisitRecord /\ new.who = visit[v].who /\ new.admin = a
        /\ new.id = "held" /\ new.on = visit[v].on /\ new.at = "in"
    BY <1>0 DEF VisitRecord, VisitPlaces, a
  <2>2. visit' = [visit EXCEPT ![v] = new]
    BY <1>0, <1>1
  <2> HIDE DEF new
  <2>3. QED
    BY <1>0, <2>1, <2>2
<1> HIDE DEF p
<1>5. /\ user' \in [People -> UserRows \cup {NoUser}]
      /\ user'[p] = row /\ \A q \in People \ {p} : user'[q] = user[q]
  BY <1>0, <1>1, <1>3 DEF p
<1>6. AccountTypeOK'
  BY <1>0, <1>1, <1>4, <1>5, WatchType DEF AccountTypeOK, VisitRecord, VisitPlaces
<1>7. IdsFitPlaces'
  BY <1>0, <1>1, <1>4 DEF IdsFitPlaces, Who, Inside
<1>8. HeldRowsExist'
  BY <1>0, <1>3, <1>4, <1>5 DEF HeldRowsExist, Who, InFlight, p, VisitRecord
<1>9. VisitsAreWitnessed'
  <2>1. \A w \in Visits : /\ w \in entitled => w \in entitled'
                          /\ w \in welcome => w \in welcome'
    BY <1>1, WatchGrows
  <2>2. \A w \in Visits : v \in entitled /\ InFlight(w)' /\ Who(w)' = p => w \in entitled'
    BY <1>1, <1>4, WatchGrows DEF InFlight, Who, p
  <2>3. ASSUME NEW w \in Visits, InFlight(w)', visit'[w].id = "held", user'[Who(w)'].admin
        PROVE  w \in entitled'
    <3>1. CASE Who(w)' = p
      BY <1>0, <1>3, <1>5, <2>2, <2>3, <3>1 DEF VisitsAreWitnessed, a
    <3>2. CASE Who(w)' # p
      BY <1>0, <1>4, <1>5, <2>1, <2>3, <3>2 DEF VisitsAreWitnessed, InFlight, Who, VisitRecord, p
    <3>3. QED
      BY <3>1, <3>2
  <2>4. \A w \in Visits : /\ visit'[w].at \in {"gated", "upserting"} \cup Inside => w \in welcome'
                          /\ visit'[w].admin => w \in entitled'
                          /\ visit'[w].at = "admin" => w \in entitled'
    BY <1>0, <1>1, <1>4, <2>1 DEF VisitsAreWitnessed, Inside, a
  <2>5. QED
    BY <2>3, <2>4 DEF VisitsAreWitnessed
<1>10. SomeoneIsLeft'
  BY <1>0, <1>1, <1>3, <1>5 DEF SomeoneIsLeft, Known, NoUser, b
<1>11. QED
  BY <1>6, <1>7, <1>8, <1>9, <1>10 DEF AccountInv

(* An admin that acts while not being blocked or deleted is left, when it  *)
(* touches only others.                                                    *)
LEMMA ActorIsLeft ==
  ASSUME AccountInv, NEW v \in Visits, visit[v].at \in {"admin", "deleting"}, Ambush(v), ~ambushed'
  PROVE  ~ambushed /\ Who(v) \in Known /\ ~user[Who(v)].blocked
<1>1. ~ambushed /\ visit[v].id # "gone" /\ ~user[Who(v)].blocked
  BY DEF Ambush
<1>2. visit[v].id = "held" /\ InFlight(v)
  BY <1>1, AccountFacts DEF IdsFitPlaces, Inside, InFlight
<1>3. user[Who(v)].exists
  BY <1>2, AccountFacts DEF HeldRowsExist
<1>4. QED
  BY <1>1, <1>3, AccountFacts DEF Known

LEMMA BlockKeeps ==
  ASSUME AccountInv, NEW v \in Visits, NEW p \in People, NEW blocked \in BOOLEAN, BlockUser(v, p, blocked)
  PROVE  AccountInv'
<1>0. /\ AccountTypeOK /\ IdsFitPlaces /\ HeldRowsExist /\ VisitsAreWitnessed /\ SomeoneIsLeft
      /\ visit \in [Visits -> VisitRecord] /\ user \in [People -> UserRows \cup {NoUser}]
      /\ \A w \in Visits : Who(w) \in People
  BY AccountFacts
<1> DEFINE row == [user[p] EXCEPT !.blocked = blocked]
<1>1. /\ visit[v].at = "admin" /\ p # Who(v) /\ user[p].exists
      /\ visit' = [visit EXCEPT ![v].at = "over"] /\ user' = [user EXCEPT ![p] = row]
      /\ UNCHANGED <<policy, adminList, ownsOrg>> /\ Watch /\ Ambush(v)
  BY DEF BlockUser, In, Sees, Ahead
<1>2. user[p] \in UserRows
  BY <1>0, <1>1 DEF NoUser
<1>3. row \in UserRows /\ row.exists = user[p].exists /\ row.admin = user[p].admin
  BY <1>2 DEF UserRows
<1> HIDE DEF row
<1>4. /\ visit' \in [Visits -> VisitRecord]
      /\ \A w \in Visits \ {v} : visit'[w] = visit[w]
      /\ visit'[v].who = visit[v].who /\ visit'[v].admin = visit[v].admin /\ visit'[v].at = "over"
  BY <1>0, <1>1 DEF VisitRecord, VisitPlaces
<1>5. /\ user' \in [People -> UserRows \cup {NoUser}]
      /\ \A q \in People : user'[q].exists = user[q].exists /\ user'[q].admin = user[q].admin
      /\ \A q \in People \ {p} : user'[q] = user[q]
  BY <1>0, <1>1, <1>3
<1>6. ambushed' \in BOOLEAN
  BY <1>1 DEF Ambush
<1>7. AccountTypeOK'
  BY <1>0, <1>1, <1>4, <1>5, <1>6, WatchType DEF AccountTypeOK, VisitRecord, VisitPlaces
<1>8. IdsFitPlaces'
  BY <1>0, <1>4 DEF IdsFitPlaces, Who, Inside
<1>9. HeldRowsExist'
  BY <1>0, <1>4, <1>5 DEF HeldRowsExist, Who, InFlight
<1>10. VisitsAreWitnessed'
  <2>1. \A w \in Visits : /\ w \in entitled => w \in entitled'
                          /\ w \in welcome => w \in welcome'
    BY <1>1, WatchGrows
  <2>2. QED
    BY <1>0, <1>4, <1>5, <2>1 DEF VisitsAreWitnessed, Who, InFlight, Inside
<1>11. SomeoneIsLeft'
  <2>1. Known' = Known
    BY <1>5 DEF Known
  <2>2. ~ambushed' => Who(v) \in Known' /\ ~user'[Who(v)].blocked
    BY <1>0, <1>1, <1>5, <2>1, ActorIsLeft
  <2>3. QED
    BY <1>0, <1>1, <2>1, <2>2 DEF SomeoneIsLeft
<1>12. QED
  BY <1>7, <1>8, <1>9, <1>10, <1>11 DEF AccountInv

(* The organisations are counted of another user, whom no other visit is.  *)
LEMMA CountKeeps ==
  ASSUME AccountInv, NEW v \in Visits, NEW p \in People, CountOrgs(v, p)
  PROVE  AccountInv'
<1>0. /\ AccountTypeOK /\ IdsFitPlaces /\ HeldRowsExist /\ VisitsAreWitnessed /\ SomeoneIsLeft
      /\ visit \in [Visits -> VisitRecord]
  BY AccountFacts
<1> DEFINE place == IF p \in ownsOrg THEN "over" ELSE "deleting"
<1>1. /\ visit[v].at = "admin" /\ p # Who(v)
      /\ visit' = [visit EXCEPT ![v].at = place, ![v].on = p]
      /\ UNCHANGED <<user, policy, adminList, ownsOrg, ambushed>> /\ Watch
  BY DEF CountOrgs, In, Keep
<1>2. place \in {"over", "deleting"}
  OBVIOUS
<1> HIDE DEF place
<1>3. /\ visit' \in [Visits -> VisitRecord]
      /\ \A w \in Visits \ {v} : visit'[w] = visit[w]
      /\ visit'[v].who = visit[v].who /\ visit'[v].admin = visit[v].admin
      /\ visit'[v].id = visit[v].id /\ visit'[v].on = p /\ visit'[v].at = place
  BY <1>0, <1>1, <1>2 DEF VisitRecord, VisitPlaces
<1>4. AccountTypeOK'
  BY <1>0, <1>1, <1>3, WatchType DEF AccountTypeOK, VisitRecord, VisitPlaces
<1>5. IdsFitPlaces' /\ HeldRowsExist'
  BY <1>0, <1>1, <1>2, <1>3 DEF IdsFitPlaces, HeldRowsExist, Who, Inside, InFlight
<1>6. VisitsAreWitnessed'
  <2>1. \A w \in Visits : /\ w \in entitled => w \in entitled'
                          /\ w \in welcome => w \in welcome'
    BY <1>1, WatchGrows
  <2>2. QED
    BY <1>0, <1>1, <1>2, <1>3, <2>1 DEF VisitsAreWitnessed, Who, InFlight, Inside
<1>7. SomeoneIsLeft'
  BY <1>0, <1>1 DEF SomeoneIsLeft, Known
<1>8. QED
  BY <1>4, <1>5, <1>6, <1>7 DEF AccountInv

(* A deletion that the foreign key forbids changes nothing; another takes  *)
(* the row and every id of it.                                             *)
LEMMA DeleteKeeps ==
  ASSUME AccountInv, NEW v \in Visits, DeleteUser(v)
  PROVE  AccountInv'
<1>0. /\ AccountTypeOK /\ IdsFitPlaces /\ HeldRowsExist /\ VisitsAreWitnessed /\ SomeoneIsLeft
      /\ visit \in [Visits -> VisitRecord] /\ user \in [People -> UserRows \cup {NoUser}]
      /\ \A w \in Visits : Who(w) \in People
  BY AccountFacts
<1> DEFINE p == visit[v].on
           owns == p \in ownsOrg
           Falls(w) == w = v \/ (visit[w].at = "deleting" /\ visit[w].on = p)
<1>1. /\ visit[v].at = "deleting" /\ p # Who(v) /\ p \in People
      /\ UNCHANGED <<policy, adminList, ownsOrg>> /\ Watch /\ Ambush(v) /\ ambushed' \in BOOLEAN
  BY <1>0 DEF DeleteUser, In, IdsFitPlaces, VisitRecord, Ambush
<1>2. /\ user' \in [People -> UserRows \cup {NoUser}]
      /\ owns => user' = user
      /\ ~owns => user'[p] = NoUser
      /\ \A q \in People \ {p} : user'[q] = user[q]
  BY <1>0, <1>1 DEF DeleteUser
<1>3. /\ visit' \in [Visits -> VisitRecord]
      /\ \A w \in Visits : /\ visit'[w].who = visit[w].who /\ visit'[w].admin = visit[w].admin
                           /\ visit'[w].on = visit[w].on
                           /\ visit'[w].at \in {visit[w].at, "over"}
                           /\ visit'[w].id \in {visit[w].id, "gone"}
                           /\ visit'[w].id # visit[w].id => visit[w].id = "held"
                           /\ ~owns /\ InFlight(w)' /\ Who(w) = p => visit'[w].id # "held"
      /\ visit'[v].at = "over"
  <2>1. CASE owns
    <3>1. visit' = [visit EXCEPT ![v].at = "over"]
      BY <2>1 DEF DeleteUser, Ahead
    <3> HIDE DEF owns, p, Falls
    <3>2. /\ visit' \in [Visits -> VisitRecord] /\ visit'[v].at = "over"
          /\ \A w \in Visits : /\ visit'[w].who = visit[w].who /\ visit'[w].admin = visit[w].admin
                               /\ visit'[w].on = visit[w].on /\ visit'[w].id = visit[w].id
                               /\ visit'[w].at \in {visit[w].at, "over"}
      BY <1>0, <3>1 DEF VisitRecord, VisitPlaces
    <3>3. QED
      BY <2>1, <3>2
  <2>2. CASE ~owns
    <3>1. visit' = [w \in Visits |->
            IF Falls(w) THEN [visit[w] EXCEPT !.at = "over"]
            ELSE IF Who(w) = p /\ visit[w].id = "held" THEN [visit[w] EXCEPT !.id = "gone"] ELSE visit[w]]
      BY <2>2 DEF DeleteUser, In
    <3>2. Falls(v)
      OBVIOUS
    <3> HIDE DEF Falls, p, owns
    <3>3. \A w \in Visits : visit[w] \in VisitRecord
      BY <1>0
    <3>4. visit' \in [Visits -> VisitRecord]
      BY <3>1, <3>3 DEF VisitRecord, VisitPlaces
    <3>5. QED
      BY <3>1, <3>2, <3>3, <3>4 DEF VisitRecord, InFlight
  <2>3. QED
    BY <2>1, <2>2
<1> HIDE DEF p, owns, Falls
<1>4. AccountTypeOK'
  BY <1>0, <1>1, <1>2, <1>3, WatchType DEF AccountTypeOK, VisitRecord, VisitPlaces
<1>5. IdsFitPlaces'
  BY <1>0, <1>3 DEF IdsFitPlaces, Who, Inside
<1>6. HeldRowsExist'
  <2> SUFFICES ASSUME NEW w \in Visits, InFlight(w)', visit'[w].id = "held"
               PROVE  user'[Who(w)'].exists
    BY DEF HeldRowsExist
  <2>1. user[Who(w)].exists /\ Who(w)' = Who(w)
    BY <1>0, <1>3 DEF HeldRowsExist, InFlight, Who
  <2>2. owns \/ Who(w) # p
    BY <1>3
  <2>3. QED
    BY <1>0, <1>2, <2>1, <2>2
<1>7. VisitsAreWitnessed'
  <2>1. \A w \in Visits : /\ w \in entitled => w \in entitled'
                          /\ w \in welcome => w \in welcome'
    BY <1>1, WatchGrows
  <2>2. ASSUME NEW w \in Visits, InFlight(w)', visit'[w].id = "held", user'[Who(w)'].admin
        PROVE  w \in entitled'
    <3>1. Who(w)' = Who(w) /\ InFlight(w) /\ visit[w].id = "held"
      BY <1>3, <2>2 DEF InFlight, Who
    <3>2. owns \/ Who(w) # p
      BY <1>3, <2>2
    <3>3. user[Who(w)].admin
      BY <1>0, <1>2, <2>2, <3>1, <3>2
    <3>4. QED
      BY <1>0, <2>1, <3>1, <3>3 DEF VisitsAreWitnessed
  <2>3. \A w \in Visits : /\ visit'[w].at \in {"gated", "upserting"} \cup Inside => w \in welcome'
                          /\ visit'[w].admin => w \in entitled'
                          /\ visit'[w].at = "admin" => w \in entitled'
    BY <1>0, <1>3, <2>1 DEF VisitsAreWitnessed, Inside
  <2>4. QED
    BY <2>2, <2>3 DEF VisitsAreWitnessed
<1>8. SomeoneIsLeft'
  <2>1. ownsOrg' \subseteq Known'
    BY <1>0, <1>1, <1>2 DEF SomeoneIsLeft, Known, owns
  <2>2. ~ambushed' => Who(v) \in Known' /\ ~user'[Who(v)].blocked
    BY <1>0, <1>1, <1>2, ActorIsLeft DEF Known
  <2>3. QED
    BY <2>1, <2>2 DEF SomeoneIsLeft
<1>9. QED
  BY <1>4, <1>5, <1>6, <1>7, <1>8 DEF AccountInv

LEMMA AccountInvStep ==
  ASSUME AccountInv, [AccountNext]_accountVars
  PROVE  AccountInv'
<1>0. /\ AccountTypeOK /\ IdsFitPlaces /\ HeldRowsExist /\ VisitsAreWitnessed /\ SomeoneIsLeft
      /\ visit \in [Visits -> VisitRecord]
      /\ policy \in Policies /\ adminList \subseteq People /\ ownsOrg \subseteq Known
  BY AccountFacts
<1>1. ASSUME NEW v \in Visits, FindUser(v)
      PROVE  AccountInv'
  <2> DEFINE row == user[Who(v)]
             place == IF row.blocked THEN "over"
                      ELSE IF row.exists \/ visit[v].admin \/ visit[v].invite THEN "upserting" ELSE "gated"
  <2>1. visit[v].at = "listed" /\ Ahead(v, place) /\ UNCHANGED <<user, policy, adminList, ownsOrg>> /\ Keep
    BY <1>1 DEF FindUser, In
  <2>2. place \in {"over", "upserting", "gated"} /\ (place # "over" => ~user[Who(v)].blocked)
    OBVIOUS
  <2> HIDE DEF place, row
  <2>3. visit[v].id = "none" /\ InFlight(v)
    BY <1>0, <2>1 DEF IdsFitPlaces, InFlight
  <2>4. visit'[v].who = visit[v].who /\ visit'[v].at = place
    BY <1>0, <2>1 DEF Ahead, VisitRecord
  <2>5. place # "over" => v \in welcome'
    BY <2>1, <2>2, <2>4, WatchGrows DEF Who, Keep
  <2>6. QED
    BY <1>0, <2>1, <2>2, <2>3, <2>5, AheadKeeps DEF VisitPlaces
<1>2. ASSUME NEW v \in Visits, Gate(v)
      PROVE  AccountInv'
  <2> DEFINE place == IF policy = "open" \/ (policy = "domain" /\ Who(v) \in InDomain) THEN "upserting" ELSE "over"
  <2>1. visit[v].at = "gated" /\ Ahead(v, place) /\ UNCHANGED <<user, policy, adminList, ownsOrg>> /\ Keep
    BY <1>2 DEF Gate, In
  <2>2. place \in {"over", "upserting"}
    OBVIOUS
  <2> HIDE DEF place
  <2>3. visit[v].id = "none" /\ InFlight(v) /\ v \in welcome
    BY <1>0, <2>1 DEF IdsFitPlaces, InFlight, VisitsAreWitnessed
  <2>4. v \in welcome'
    BY <2>1, <2>3, WatchGrows DEF Keep
  <2>5. QED
    BY <1>0, <2>1, <2>2, <2>3, <2>4, AheadKeeps DEF VisitPlaces
<1>3. ASSUME NEW v \in Visits, CreateOrg(v)
      PROVE  AccountInv'
  <2>1. visit[v].at = "in" /\ Ahead(v, "over") /\ UNCHANGED <<user, policy, adminList>> /\ Keep
    BY <1>3 DEF CreateOrg, In
  <2>2. InFlight(v) /\ Who(v) \in People
    BY <2>1, AccountFacts DEF InFlight
  <2>3. ownsOrg' \subseteq Known
    BY <1>0, <1>3, <2>2 DEF CreateOrg, HeldRowsExist, Known
  <2>4. QED
    BY <1>0, <2>1, <2>2, <2>3, AheadKeeps DEF VisitPlaces
<1>4. ASSUME NEW v \in Visits, RequireAdmin(v)
      PROVE  AccountInv'
  <2> DEFINE place == IF visit[v].id = "held" /\ user[Who(v)].admin THEN "admin" ELSE "over"
  <2>1. visit[v].at = "in" /\ Ahead(v, place) /\ UNCHANGED <<user, policy, adminList, ownsOrg>> /\ Keep
    BY <1>4 DEF RequireAdmin, In
  <2>2. /\ place \in {"over", "admin"}
        /\ place = "admin" => visit[v].id = "held" /\ user[Who(v)].admin
    OBVIOUS
  <2> HIDE DEF place
  <2>3. InFlight(v) /\ v \in welcome /\ (place = "admin" => v \in entitled)
    BY <1>0, <2>1, <2>2 DEF InFlight, VisitsAreWitnessed, Inside
  <2>4. v \in welcome' /\ (place = "admin" => v \in entitled')
    BY <2>1, <2>3, WatchGrows DEF Keep
  <2>5. QED
    BY <1>0, <2>1, <2>2, <2>3, <2>4, AheadKeeps DEF VisitPlaces
<1>5. ASSUME NEW v \in Visits, NEW new \in Policies, SetPolicy(v, new)
      PROVE  AccountInv'
  <2>1. /\ visit[v].at = "admin" /\ Ahead(v, "patching") /\ policy' = new
        /\ UNCHANGED <<user, adminList, ownsOrg>> /\ Keep
    BY <1>5 DEF SetPolicy, In
  <2>2. InFlight(v) /\ v \in welcome /\ visit[v].id \in {"held", "gone"}
    BY <1>0, <2>1 DEF InFlight, VisitsAreWitnessed, IdsFitPlaces, Inside
  <2>3. v \in welcome'
    BY <2>1, <2>2, WatchGrows DEF Keep
  <2>4. QED
    BY <1>0, <2>1, <2>2, <2>3, AheadKeeps DEF VisitPlaces
<1>6. ASSUME NEW v \in Visits, NEW new \in SUBSET (People \ EnvAdmins), SetAdmins(v, new)
      PROVE  AccountInv'
  <2>1. /\ visit[v].at \in {"admin", "patching"} /\ Ahead(v, "over") /\ adminList' \subseteq People
        /\ UNCHANGED <<user, policy, ownsOrg>> /\ Keep
    BY <1>6 DEF SetAdmins
  <2>2. InFlight(v)
    BY <2>1 DEF InFlight
  <2>3. QED
    BY <1>0, <2>1, <2>2, AheadKeeps DEF VisitPlaces
<1>7. CASE UNCHANGED accountVars
  BY <1>7 DEF accountVars, AccountInv, AccountTypeOK, IdsFitPlaces, HeldRowsExist, VisitsAreWitnessed,
       SomeoneIsLeft, Known, Who, InFlight
<1>8. QED
  BY <1>1, <1>2, <1>3, <1>4, <1>5, <1>6, <1>7, ArriveKeeps, UpsertKeeps, CountKeeps, BlockKeeps, DeleteKeeps
  DEF AccountNext, VisitStep

(* Who is blocked all along does not get in; who acts as an admin was one  *)
(* by the lists; owners of organisations stay; and while no admin acts     *)
(* against being blocked or deleted itself, someone is left to sign in.    *)
THEOREM AccountsKept == AccountSpec => [](AccountTypeOK /\ AccountsAreKept)
<1>1. AccountInit => AccountInv
  <2> SUFFICES ASSUME AccountInit
               PROVE  AccountInv
    OBVIOUS
  <2>1. PICK e \in EnvAdmins : e \in People
    OBVIOUS
  <2>2. (CHOOSE p \in People : TRUE) \in People
    BY <2>1
  <2>3. AccountTypeOK
    BY <2>2 DEF AccountInit, AccountTypeOK, Policies
  <2>4. \A v \in Visits : visit[v].at = "idle" /\ visit[v].id = "none" /\ visit[v].admin = FALSE
    BY DEF AccountInit
  <2>5. IdsFitPlaces /\ HeldRowsExist /\ VisitsAreWitnessed
    BY <2>4 DEF IdsFitPlaces, HeldRowsExist, VisitsAreWitnessed, InFlight, Inside
  <2>6. e \in Known /\ ~user[e].blocked
    BY <2>1 DEF AccountInit, Known
  <2>7. SomeoneIsLeft
    BY <2>6 DEF AccountInit, SomeoneIsLeft
  <2>8. QED
    BY <2>3, <2>5, <2>7 DEF AccountInv
<1>2. AccountInv /\ [AccountNext]_accountVars => AccountInv'
  BY AccountInvStep
<1>3. AccountInv => AccountTypeOK /\ AccountsAreKept
  BY DEF AccountInv, VisitsAreWitnessed, AccountsAreKept, AdmittedOnly, Inside, In
<1>4. QED
  BY <1>1, <1>2, <1>3, PTL DEF AccountSpec

-----------------------------------------------------------------------------
(* Members, accounts and access together                                   *)

(* The three share no variable, so whichever of them moves, each keeps its *)
(* part.                                                                   *)
THEOREM PeopleKept == OrgSpec /\ AccountSpec /\ AccessSpec => []PeopleAreKept
<1>1. OwnerStaysAdmin /\ AccountsAreKept /\ AccessIsEarned => PeopleAreKept
  BY DEF PeopleAreKept
<1>2. QED
  BY <1>1, OwnersAdminister, AccountsKept, AccessEarned, PTL

-----------------------------------------------------------------------------
(* All components of the stores together                                   *)

(* What is proved of a component by itself holds when one component moves  *)
(* at a time.                                                              *)
THEOREM StoresAreParts ==
  StoresSpec =>
    /\ ManagerSpec /\ OrgSpec /\ DraftSpec /\ ExtensionSpec /\ ProjectSpec
    /\ StepsSpec /\ RoutingSpec /\ AccountSpec /\ AccessSpec
<1>1. StoresInit =>
      /\ ManagerInit /\ OrgInit /\ DraftInit /\ ExtensionInit /\ ProjectInit
      /\ StepInit /\ RoutingInit /\ AccountInit /\ AccessInit
  BY DEF StoresInit
<1>2. [StoresNext]_storesVars =>
      /\ [ManagerNext]_managerVars /\ [OrgNext]_orgVars /\ [DraftNext]_draftVars
      /\ [ExtensionNext]_extensionVars /\ [ProjectNext]_projectVars /\ [StepsNext]_stepVars
      /\ [RoutingNext]_routingVars /\ [AccountNext]_accountVars /\ [AccessNext]_accessVars
  BY DEF StoresNext, storesVars, fileVars, userVars
<1>3. QED
  BY <1>1, <1>2, PTL DEF StoresSpec, ManagerSpec, OrgSpec, DraftSpec, ExtensionSpec,
     ProjectSpec, StepsSpec, RoutingSpec, AccountSpec, AccessSpec

(* Whichever component moves, every variable of it keeps its type, for     *)
(* every value of the constants.                                           *)
THEOREM StoresTyped == StoresSpec => []StoresTypeOK
<1>1. /\ ManagerTypeOK /\ OrgTypeOK /\ DraftTypeOK /\ ExtensionTypeOK /\ ProjectTypeOK
      /\ StepTypeOK /\ RoutingTypeOK /\ AccountTypeOK /\ AccessTypeOK
      => StoresTypeOK
  BY DEF StoresTypeOK
<1>2. QED
  BY <1>1, StoresAreParts, CompaniesWhole, OwnersAdminister, DraftsKept, ExtensionsInstalled,
     ProjectsWhole, CompletionsKept, KeysRouted, AccountsKept, AccessEarned, PTL
===============================================================================
