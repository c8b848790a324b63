------------------------------ MODULE SpecDraft ------------------------------
(***************************************************************************)
(* Spec drafts: the browser's copy (app/stores/active-session.ts and       *)
(* app/composables/useSpeckitAgent.ts), the drafts in the database         *)
(* (server/shared/utils/spec-draft-store.ts) and the published files on    *)
(* disk (spec-public-state.ts).                                            *)
(*                                                                         *)
(* A browser has one session, which is the draft of the page that was      *)
(* loaded last.  The content of a draft is the number of the edit that made*)
(* it; other contents are <<draft, edit>>.  A save is one call of          *)
(* commitTurn, which sends the files it found when it began; or it is a    *)
(* PATCH that such a call sent and nobody waits for any more, as the page  *)
(* was reloaded or the browser took it for lost: the server may still      *)
(* handle it, also after later ones.  The conversation is not modelled.    *)
(***************************************************************************)
EXTENDS Naturals, Sequences

CONSTANTS
  Authors,
  Drafts, AuthorOf,
  Saves, SaverOf,   \* calls of commitTurn, and the browser each is made in
  MaxEdits,         \* how often each draft is edited
  MaxRetries,       \* RETRY_BACKOFFS_MS.length
  NoDraft           \* no draft
ASSUME DraftAssumption ==
  /\ NoDraft \notin Drafts /\ AuthorOf \in [Drafts -> Authors] /\ SaverOf \in [Saves -> Authors]
  /\ MaxEdits \in [Drafts -> Nat] /\ MaxRetries \in Nat

VARIABLES
  calmly,       \* does a browser wait for a save before it begins another or loads a draft
  session,      \* the session of a browser: [draft, files, rev]
  loading,      \* the answer of openDraft's request: [draft, files]
  pendingSave,  \* browsers whose store says that something is unsaved
  save,         \* the saves: [draft, files, rev, at, tries]; "astray": nobody waits
  edits,        \* how often each draft was edited
  baseVersion, draftStatus, stored,  \* the rows of the drafts and their files
  belated,      \* history: drafts that a PATCH nobody waited for wrote since the
                \* last save or load of them
  publishing,   \* how far the publish request of a draft is
  lock,         \* the draft whose publish has locked the project's row
  history,      \* projects.spec_public_version, as what each version published
  specs,        \* the files in specs/: a content, or a mixture, written <<>>
  torn          \* history: a publish was rolled back after it had begun to write
browserVars == <<calmly, session, loading, pendingSave, save, edits>>
rowVars == <<baseVersion, draftStatus, stored, belated>>
publicVars == <<publishing, lock, history, specs, torn>>
draftVars == <<browserVars, rowVars, publicVars>>

Version == Len(history)
Public == IF Version = 0 THEN <<NoDraft, 0>> ELSE <<history[Version].draft, history[Version].edits>>
NoSave == [draft |-> NoDraft, files |-> 0, rev |-> 0, at |-> "idle", tries |-> 0]
Nothing == [draft |-> NoDraft, files |-> 0]
Saving(u) == \E a \in Saves : SaverOf[a] = u /\ save[a].at \notin {"idle", "astray"}
\* The page's draft, which a session that is being loaded is not yet.
Page(u) == IF loading[u] # Nothing THEN loading[u].draft ELSE session[u].draft
\* A publish holds the draft's row.
RowLocked(d) == lock = d

DraftInit ==
  /\ calmly \in BOOLEAN
  /\ session = [u \in Authors |-> [draft |-> NoDraft, files |-> 0, rev |-> 0]]
  /\ loading = [u \in Authors |-> Nothing] /\ pendingSave = {}
  /\ save = [a \in Saves |-> NoSave] /\ edits = [d \in Drafts |-> 0]
  /\ baseVersion = [d \in Drafts |-> 0] /\ draftStatus = [d \in Drafts |-> "none"]
  /\ stored = [d \in Drafts |-> 0] /\ belated = {}
  /\ publishing = [d \in Drafts |-> "no"] /\ lock = NoDraft
  /\ history = <<>> /\ specs = Public /\ torn = FALSE

-------------------------------------------------------------------------------
\* createDraft, with the version its author has seen.
CreateDraft(d) ==
  /\ draftStatus[d] = "none" /\ draftStatus' = [draftStatus EXCEPT ![d] = "draft"]
  /\ \E v \in 0..Version : baseVersion' = [baseVersion EXCEPT ![d] = v]
  /\ UNCHANGED <<browserVars, stored, belated, publicVars>>

\* openDraft, when the page of another draft than the session's is opened:
\* getDraftWithFiles, and the session that the answer replaces, whatever was
\* unsaved in it.
OpenDraft(u, d) ==
  /\ AuthorOf[d] = u /\ draftStatus[d] \notin {"none", "deleted"}
  /\ loading[u] = Nothing /\ session[u].draft # d
  /\ loading' = [loading EXCEPT ![u] = [draft |-> d, files |-> stored[d]]] /\ belated' = belated \ {d}
  /\ UNCHANGED <<calmly, session, pendingSave, save, edits, baseVersion, draftStatus, stored, publicVars>>
LoadDraft(u) ==
  /\ loading[u] # Nothing /\ loading' = [loading EXCEPT ![u] = Nothing]
  /\ calmly => ~Saving(u)
  /\ session' = [session EXCEPT ![u] = [draft |-> loading[u].draft, files |-> loading[u].files, rev |-> 0]]
  /\ pendingSave' = pendingSave \ {u}
  /\ UNCHANGED <<calmly, save, edits, rowVars, publicVars>>

\* updateFiles.
Edit(u) ==
  LET d == session[u].draft IN
  /\ d # NoDraft /\ edits[d] < MaxEdits[d] /\ edits' = [edits EXCEPT ![d] = @ + 1]
  /\ session' = [session EXCEPT ![u].files = edits[d] + 1, ![u].rev = @ + 1]
  /\ pendingSave' = pendingSave \cup {u}
  /\ UNCHANGED <<calmly, loading, save, rowVars, publicVars>>

\* commitTurn: at the end of a turn, before a publish, or on "Retry".
CommitTurn(a) ==
  LET u == SaverOf[a] IN
  /\ save[a].at = "idle" /\ session[u].draft # NoDraft
  /\ calmly => ~Saving(u) /\ loading[u] = Nothing
  /\ save' = [save EXCEPT ![a] = [draft |-> session[u].draft, files |-> session[u].files,
                                 rev |-> session[u].rev, at |-> "sending", tries |-> 1]]
  /\ UNCHANGED <<calmly, session, loading, pendingSave, edits, rowVars, publicVars>>

\* patchDraft: the owner's row, if it still is a draft.
PatchDraft(a) ==
  LET d == save[a].draft IN
  /\ save[a].at = "sending" /\ ~RowLocked(d)
  /\ IF draftStatus[d] = "draft"
     THEN /\ stored' = [stored EXCEPT ![d] = save[a].files] /\ belated' = belated \ {d}
          /\ save' = [save EXCEPT ![a].at = "stored"]
     ELSE save' = [save EXCEPT ![a].at = "refused"] /\ UNCHANGED <<stored, belated>>
  /\ UNCHANGED <<calmly, session, loading, pendingSave, edits, baseVersion, draftStatus, publicVars>>
\* patchDraft of a PATCH that nobody waits for.
PatchLate(a) ==
  LET d == save[a].draft IN
  /\ save[a].at = "astray" /\ ~RowLocked(d) /\ save' = [save EXCEPT ![a] = NoSave]
  /\ IF draftStatus[d] = "draft"
     THEN stored' = [stored EXCEPT ![d] = save[a].files] /\ belated' = belated \cup {d}
     ELSE UNCHANGED <<stored, belated>>
  /\ UNCHANGED <<calmly, session, loading, pendingSave, edits, baseVersion, draftStatus, publicVars>>

\* A mutant of SaveSucceeds: pendingSave goes, whatever came in between.
SaveSucceedsBlindly(a) ==
  /\ save[a].at = "stored" /\ save' = [save EXCEPT ![a] = NoSave]
  /\ pendingSave' = pendingSave \ {SaverOf[a]}
  /\ UNCHANGED <<calmly, session, loading, edits, rowVars, publicVars>>

\* The PATCH was answered: pendingSave goes only if the store's counter of edits
\* is what it was; it is the counter of whatever session there is now.
SaveSucceeds(a) ==
  /\ save[a].at = "stored" /\ save' = [save EXCEPT ![a] = NoSave]
  /\ pendingSave' = IF session[SaverOf[a]].rev = save[a].rev
                    THEN pendingSave \ {SaverOf[a]} ELSE pendingSave
  /\ UNCHANGED <<calmly, session, loading, edits, rowVars, publicVars>>
\* What a request that was not handled leaves behind when nobody waits for it.
Astray(a) == [draft |-> save[a].draft, files |-> save[a].files, rev |-> 0, at |-> "astray", tries |-> 0]
\* 404, or the last transient failure; it reached the server, or will, or never does.
SaveFails(a) ==
  /\ \/ save[a].at = "refused" /\ save' = [save EXCEPT ![a] = NoSave]
     \/ /\ save[a].at \in {"sending", "stored"} /\ save[a].tries > MaxRetries
        /\ \/ save' = [save EXCEPT ![a] = NoSave]
           \/ save[a].at = "sending" /\ save' = [save EXCEPT ![a] = Astray(a)]
  /\ UNCHANGED <<calmly, session, loading, pendingSave, edits, rowVars, publicVars>>
\* A mutant of RetrySave: one attempt too many.
RetrySaveAgain(a) ==
  /\ save[a].at \in {"sending", "stored"} /\ save[a].tries <= MaxRetries + 1
  /\ save' = [save EXCEPT ![a].at = "sending", ![a].tries = @ + 1]
  /\ UNCHANGED <<calmly, session, loading, pendingSave, edits, rowVars, publicVars>>

\* A transient failure and the wait after it; the attempt before may be on its way.
RetrySave(a) ==
  /\ save[a].at \in {"sending", "stored"} /\ save[a].tries <= MaxRetries
  /\ \/ save' = [save EXCEPT ![a].at = "sending", ![a].tries = @ + 1]
     \/ \E b \in Saves :
          /\ save[a].at = "sending" /\ save[b].at = "idle" /\ SaverOf[b] = SaverOf[a]
          /\ save' = [save EXCEPT ![a].tries = @ + 1, ![b] = Astray(a)]
  /\ UNCHANGED <<calmly, session, loading, pendingSave, edits, rowVars, publicVars>>
\* The page is reloaded: session and pendingSave persist; rev, saves and loads do
\* not.  A PATCH that was sent may still be handled.
Reload(u) ==
  /\ \E late \in SUBSET {a \in Saves : SaverOf[a] = u /\ save[a].at = "sending"} :
       save' = [a \in Saves |-> IF SaverOf[a] # u \/ save[a].at = "astray" THEN save[a]
                               ELSE IF a \in late THEN Astray(a) ELSE NoSave]
  /\ session' = [session EXCEPT ![u].rev = 0] /\ loading' = [loading EXCEPT ![u] = Nothing]
  /\ UNCHANGED <<calmly, pendingSave, edits, rowVars, publicVars>>

\* deleteDraft: a draft only.
DeleteDraft(d) ==
  /\ ~RowLocked(d) /\ draftStatus[d] = "draft" /\ draftStatus' = [draftStatus EXCEPT ![d] = "deleted"]
  /\ UNCHANGED <<browserVars, baseVersion, stored, belated, publicVars>>

-------------------------------------------------------------------------------
\* useSpeckitAgent.publish of the page's draft, which goes on only when nothing
\* is unsaved in the store.
Publish(u, d) ==
  /\ d = Page(u) /\ session[u].draft # NoDraft /\ publishing[d] = "no" /\ u \notin pendingSave
  /\ publishing' = [publishing EXCEPT ![d] = "asked"]
  /\ UNCHANGED <<browserVars, rowVars, lock, history, specs, torn>>

\* A mutant of LockAndCompare: the versions are not compared.
LockOnly(d) ==
  /\ publishing[d] = "asked" /\ lock = NoDraft
  /\ IF draftStatus[d] = "draft"
     THEN lock' = d /\ publishing' = [publishing EXCEPT ![d] = "locked"]
     ELSE publishing' = [publishing EXCEPT ![d] = "no"] /\ UNCHANGED lock
  /\ UNCHANGED <<browserVars, rowVars, history, specs, torn>>

\* publishDraft locks the project, then the draft, and compares the versions.
LockAndCompare(d) ==
  /\ publishing[d] = "asked" /\ lock = NoDraft
  /\ IF draftStatus[d] = "draft" /\ baseVersion[d] = Version
     THEN lock' = d /\ publishing' = [publishing EXCEPT ![d] = "locked"]
     ELSE publishing' = [publishing EXCEPT ![d] = "no"] /\ UNCHANGED lock
  /\ UNCHANGED <<browserVars, rowVars, history, specs, torn>>
\* writePublicSpecFiles, of the draft's rows.
BeginWrite(d) ==
  /\ publishing[d] = "locked" /\ publishing' = [publishing EXCEPT ![d] = "writing"]
  /\ specs' = <<>>
  /\ UNCHANGED <<browserVars, rowVars, lock, history, torn>>
EndWrite(d) ==
  /\ publishing[d] = "writing" /\ publishing' = [publishing EXCEPT ![d] = "written"]
  /\ specs' = <<d, stored[d]>>
  /\ UNCHANGED <<browserVars, rowVars, lock, history, torn>>
CommitPublish(d) ==
  /\ publishing[d] = "written" /\ publishing' = [publishing EXCEPT ![d] = "no"]
  /\ history' = Append(history, [draft |-> d, base |-> baseVersion[d], edits |-> stored[d]])
  /\ draftStatus' = [draftStatus EXCEPT ![d] = "published"] /\ lock' = NoDraft
  /\ torn' = FALSE
  /\ UNCHANGED <<browserVars, baseVersion, stored, belated, specs>>
\* The write fails, the transaction does, or the server dies.
RollBackPublish(d) ==
  /\ lock = d /\ lock' = NoDraft /\ publishing' = [publishing EXCEPT ![d] = "no"]
  /\ torn' = (torn \/ publishing[d] # "locked")
  /\ UNCHANGED <<browserVars, rowVars, history, specs>>

DraftStep(d) ==
  \/ CreateDraft(d) \/ DeleteDraft(d)
  \/ LockAndCompare(d) \/ BeginWrite(d) \/ EndWrite(d) \/ CommitPublish(d) \/ RollBackPublish(d)
BrowserStep(u) ==
  \/ LoadDraft(u) \/ Edit(u) \/ Reload(u)
  \/ \E d \in Drafts : OpenDraft(u, d) \/ Publish(u, d)
DraftNext ==
  \/ \E d \in Drafts : DraftStep(d)
  \/ \E u \in Authors : BrowserStep(u)
  \/ \E a \in Saves : CommitTurn(a) \/ PatchDraft(a) \/ PatchLate(a)
                       \/ SaveSucceeds(a) \/ SaveFails(a) \/ RetrySave(a)
DraftSpec == DraftInit /\ [][DraftNext]_draftVars

-------------------------------------------------------------------------------
DraftTypeOK ==
  /\ calmly \in BOOLEAN /\ torn \in BOOLEAN
  /\ \A u \in Authors : session[u].draft = NoDraft \/ session[u].files \in 0..edits[session[u].draft]
  /\ \A d \in Drafts : edits[d] \in 0..MaxEdits[d] /\ stored[d] \in 0..edits[d]
  /\ pendingSave \subseteq Authors /\ belated \subseteq Drafts /\ lock \in Drafts \cup {NoDraft}
  /\ \A a \in Saves : /\ save[a].at \in {"idle", "sending", "stored", "refused", "astray"}
                      /\ save[a].tries \in 0..MaxRetries + 1
  /\ baseVersion \in [Drafts -> Nat] /\ draftStatus \in [Drafts -> {"none", "draft", "published", "deleted"}]
  /\ publishing \in [Drafts -> {"no", "asked", "locked", "writing", "written"}]
  /\ history \in Seq([draft : Drafts, base : Nat, edits : Nat])

\* The public state is an audit trail: each version was published once, from a
\* draft forked from the version before it; the draft's rows are still what was
\* published; and the files on disk are the last version's, unless a publish is
\* writing them or was rolled back.
PublicStateIsTrail ==
  /\ \A v \in 1..Version : LET p == history[v] IN
       /\ p.base = v - 1 /\ draftStatus[p.draft] = "published" /\ stored[p.draft] = p.edits
       /\ \A w \in 1..Version : history[w].draft = p.draft => w = v
  /\ torn \/ specs = Public \/ (lock # NoDraft /\ publishing[lock] \in {"writing", "written"})

\* A browser that shows no pending save has the files it shows on the server,
\* whatever was retried, answered too late, edited meanwhile or reloaded; if it lets
\* a save end before it begins another or loads another draft, and unless a PATCH that
\* a reload, a retry or a failure had left behind has come since the last save or load:
\* the server takes it, also after a newer save, and nobody notices.  Not promised,
\* though the comment of commitTurn has it, is that the mark stays until a save
\* succeeds: opening another draft (LoadDraft) drops it, and the edits not saved.
SaveIsHonest ==
  calmly => \A u \in Authors :
    \/ u \in pendingSave \/ session[u].draft = NoDraft
    \/ stored[session[u].draft] = session[u].files \/ session[u].draft \in belated

\* Versions are what was published, and a draft is what its author was told is saved.
DraftsAreKept == PublicStateIsTrail /\ SaveIsHonest
===============================================================================
