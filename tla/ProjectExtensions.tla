--------------------------- MODULE ProjectExtensions ---------------------------
(***************************************************************************)
(* The extensions of one project: extension-install.ts, the DELETE handler *)
(* of extensions/[extSlug], and what workflow-discovery.ts and             *)
(* extensions.get.ts make of the three places that know of an extension:   *)
(* the project's manifest, the folder .specify/extensions/<slug> and the   *)
(* .registry beside it.  The last two belong to the `specify` CLI.         *)
(*                                                                         *)
(* Requests overlap: there is no lock, and the manifest is read at the    *)
(* start of a request and written back at its end.                         *)
(***************************************************************************)
EXTENDS Naturals, Sequences, FiniteSetsExt

CONSTANTS
  Exts,          \* slugs
  SharedExts,    \* those that the organisation may register
  LocalExts,     \* those in the app config or in the global directory
  ExtInstalls,   \* POST requests
  Wanted,        \* the slugs of each, in order; each once, as project-creation.ts
                 \* and the page send them (the handler itself would take it twice)
  ExtRemovals,   \* DELETE requests
  RemovalOf,     \* the slug of each
  NoRegistry
ASSUME ProjectExtAssumption ==
  /\ SharedExts \cup LocalExts \subseteq Exts /\ Wanted \in [ExtInstalls -> Seq(Exts)]
  /\ \A i \in ExtInstalls : \A m, n \in DOMAIN Wanted[i] : Wanted[i][m] = Wanted[i][n] => m = n
  /\ RemovalOf \in [ExtRemovals -> Exts] /\ ExtInstalls \cap ExtRemovals = {}
  /\ \A S \in SUBSET Exts : S # NoRegistry

VARIABLES
  orgExt,     \* the organisation's extension: "none", "claimed" (a row), "there", "dropped" (a clone)
  folder,     \* where the project's copy comes from, or "none"
  entries,    \* the slugs in .registry, or NoRegistry
  records,   \* a slug's record in extensions.json: "none", "installed", "failed"
  unreadable,       \* can extensions.json not be parsed
  job,        \* the requests: [at, todo, snap, from, seen]; todo has positions in Wanted
  rowless,    \* history: installs whose slug the organisation lacked while they resolved it
  disturbed   \* history: slugs that an overlap, a crash or a failed clean-up touched
projectExtVars == <<orgExt, folder, entries, records, unreadable, job, rowless, disturbed>>
diskVars == <<folder, entries, records, unreadable>>

Jobs == ExtInstalls \cup ExtRemovals
HasRow(e) == orgExt[e] \in {"claimed", "there"}
HasClone(e) == orgExt[e] \in {"there", "dropped"}
JobAt(j, place) == job[j].at = place
Active(j) == job[j].at \notin {"idle", "over"}
\* The slugs a request is about.
About(j) == IF j \in ExtRemovals THEN {RemovalOf[j]} ELSE {Wanted[j][n] : n \in DOMAIN Wanted[j]}
Rivals(j) == {e \in About(j) : \E k \in Jobs \ {j} : Active(k) /\ e \in About(k)}
Current(j) == IF j \in ExtRemovals THEN RemovalOf[j] ELSE Wanted[j][Min(job[j].todo)]
JobTo(j, place) == job' = [job EXCEPT ![j].at = place]
Entries == IF entries = NoRegistry THEN {} ELSE entries

\* What the picker of workflows offers, and what the page of extensions lists.
InPicker(e) == folder[e] # "none" /\ (entries # NoRegistry => e \in entries)
Recorded == {e \in Exts : records[e] = "installed"}
Listed == IF Recorded # {} THEN Recorded ELSE Entries

ProjectExtInit ==
  /\ orgExt \in [Exts -> {"none", "there"}] /\ \A e \in Exts \ SharedExts : orgExt[e] = "none"
  /\ folder = [e \in Exts |-> "none"] /\ entries \in {NoRegistry, {}}
  /\ records = [e \in Exts |-> "none"] /\ unreadable = FALSE
  /\ job = [j \in Jobs |-> [at |-> "idle", todo |-> {}, snap |-> records, from |-> "none", seen |-> {}]]
  /\ rowless = {} /\ disturbed = {}

-------------------------------------------------------------------------------
\* The organisation's side, step by step as in OrgExtensions.
OrgExtStep(e) ==
  /\ \E to \in CASE orgExt[e] = "none" -> {"claimed"} [] orgExt[e] = "claimed" -> {"there", "none"}
                 [] orgExt[e] = "there" -> {"dropped"} [] orgExt[e] = "dropped" -> {"none"} :
       orgExt' = [orgExt EXCEPT ![e] = to]
  /\ rowless' = IF HasRow(e)' THEN rowless
                ELSE rowless \cup {i \in ExtInstalls : job[i].at \in {"resolving", "cloned", "elsewhere", "adding"}
                                                       /\ Current(i) = e}
  /\ UNCHANGED <<diskVars, job, disturbed>>

\* installExtensionsInProject.  what the manifest has as installed is skipped.
BeginInstall(i) ==
  LET todo == {n \in DOMAIN Wanted[i] : records[Wanted[i][n]] # "installed"} IN
  /\ JobAt(i, "idle")
  /\ IF unreadable \/ todo = {} THEN JobTo(i, "over") /\ UNCHANGED <<rowless, disturbed>>
     ELSE /\ job' = [job EXCEPT ![i] = [@ EXCEPT !.at = "resolving", !.todo = todo, !.snap = records]]
          /\ rowless' = IF HasRow(Wanted[i][Min(todo)]) THEN rowless ELSE rowless \cup {i}
          /\ disturbed' = disturbed \cup Rivals(i)
  /\ UNCHANGED <<orgExt, diskVars>>

\* The row of the organisation decides; its clone must be there.
LookUpOrg(i) ==
  /\ JobAt(i, "resolving")
  /\ JobTo(i, IF HasRow(Current(i)) THEN "cloned" ELSE "elsewhere")
  /\ UNCHANGED <<orgExt, diskVars, rowless, disturbed>>

\* The record of the slug; after the last one, the manifest.
Note(i, status) ==
  LET rest == job[i].todo \ {Min(job[i].todo)} IN
  /\ job' = [job EXCEPT ![i] = [@ EXCEPT !.at = IF rest = {} THEN "writing" ELSE "resolving",
                                         !.todo = rest, !.snap[Current(i)] = status]]
  /\ rowless' = IF rest # {} /\ ~HasRow(Wanted[i][Min(rest)]) THEN rowless \cup {i} ELSE rowless \ {i}
\* A mutant of CheckClone: without a clone, the slug is looked for elsewhere.
CheckCloneOrElse(i) ==
  /\ JobAt(i, "cloned")
  /\ job' = [job EXCEPT ![i].at = IF HasClone(Current(i)) THEN "adding" ELSE "elsewhere", ![i].from = "org"]
  /\ UNCHANGED <<orgExt, diskVars, rowless, disturbed>>

CheckClone(i) ==
  /\ JobAt(i, "cloned")
  /\ IF HasClone(Current(i))
     THEN job' = [job EXCEPT ![i].at = "adding", ![i].from = "org"] /\ UNCHANGED rowless
     ELSE Note(i, "failed")
  /\ UNCHANGED <<orgExt, diskVars, disturbed>>
ResolveElsewhere(i) ==
  /\ JobAt(i, "elsewhere")
  /\ job' = [job EXCEPT ![i].at = "adding",
                        ![i].from = IF Current(i) \in LocalExts THEN "local" ELSE "community"]
  /\ UNCHANGED <<orgExt, diskVars, rowless, disturbed>>

\* `specify extension add` copies the folder and enters it, or fails, maybe half-way.
AddExtension(i) ==
  LET e == Current(i) IN
  /\ JobAt(i, "adding")
  /\ \/ /\ job[i].from = "org" => HasClone(e)
        /\ folder' = [folder EXCEPT ![e] = job[i].from] /\ entries' = Entries \cup {e}
        /\ Note(i, "installed")
     \/ /\ folder' \in {folder, [folder EXCEPT ![e] = IF @ = "none" THEN job[i].from ELSE @]}
        /\ UNCHANGED entries /\ Note(i, "failed")
  /\ UNCHANGED <<orgExt, records, unreadable, disturbed>>

-------------------------------------------------------------------------------
\* The DELETE handler.  A manifest that cannot be read has no entry: 404.
BeginRemoval(r) ==
  /\ JobAt(r, "idle")
  /\ IF unreadable \/ records[RemovalOf[r]] = "none" THEN JobTo(r, "over") /\ UNCHANGED disturbed
     ELSE /\ job' = [job EXCEPT ![r] = [@ EXCEPT !.at = "cli", !.snap = [records EXCEPT ![RemovalOf[r]] = "none"]]]
          /\ disturbed' = disturbed \cup Rivals(r)
  /\ UNCHANGED <<orgExt, diskVars, rowless>>
\* `specify extension remove` may leave the folder, the entry or both.
CliRemove(r) ==
  /\ JobAt(r, "cli") /\ JobTo(r, "folder")
  /\ folder' \in {folder, [folder EXCEPT ![RemovalOf[r]] = "none"]}
  /\ entries' \in {entries, IF entries = NoRegistry THEN NoRegistry ELSE entries \ {RemovalOf[r]}}
  /\ UNCHANGED <<orgExt, records, unreadable, rowless, disturbed>>
RemoveFolder(r) ==
  /\ JobAt(r, "folder") /\ JobTo(r, "registry")
  /\ folder' \in {folder, [folder EXCEPT ![RemovalOf[r]] = "none"]}
  /\ UNCHANGED <<orgExt, entries, records, unreadable, rowless, disturbed>>
\* removeFromRegistry reads, or cannot.  Only an entry that is there is written out.
ReadRegistry(r) ==
  LET e == RemovalOf[r] IN
  /\ JobAt(r, "registry")
  /\ \/ /\ job' = [job EXCEPT ![r].at = IF e \in Entries THEN "deregister" ELSE "writing", ![r].seen = Entries]
        /\ UNCHANGED disturbed
     \/ /\ entries # NoRegistry /\ JobTo(r, "writing")
        /\ disturbed' = IF e \in Entries THEN disturbed \cup {e} ELSE disturbed
  /\ UNCHANGED <<orgExt, diskVars, rowless>>
\* The registry is written back as it was read; a write that fails ends the request.
WriteRegistry(r) ==
  /\ JobAt(r, "deregister")
  /\ \/ /\ entries' = job[r].seen \ {RemovalOf[r]} /\ JobTo(r, "writing")
        /\ disturbed' = disturbed \cup {e \in Exts : (e \in Entries) # (e \in job[r].seen)}
     \/ JobTo(r, "over") /\ disturbed' = disturbed \cup {RemovalOf[r]} /\ UNCHANGED entries
  /\ UNCHANGED <<orgExt, folder, records, unreadable, rowless>>

-------------------------------------------------------------------------------
\* writeFile truncates, then writes; beside another write the result may be a mixture.
BeginManifest(j) ==
  /\ JobAt(j, "writing") /\ JobTo(j, "truncated") /\ unreadable' = TRUE
  /\ UNCHANGED <<orgExt, folder, entries, records, rowless, disturbed>>
\* A mutant of EndManifest: a removal that could not remove the folder keeps its record.
EndManifestIfGone(j) ==
  /\ JobAt(j, "truncated") /\ JobTo(j, "over")
  /\ unreadable' = (\E k \in Jobs \ {j} : JobAt(k, "truncated"))
  /\ records' = [e \in Exts |-> IF j \in ExtRemovals /\ e = RemovalOf[j] /\ folder[e] # "none"
                                 THEN records[e] ELSE job[j].snap[e]]
  /\ disturbed' = disturbed \cup {e \in Exts \ About(j) : records[e] # job[j].snap[e]}
  /\ UNCHANGED <<orgExt, folder, entries, rowless>>

EndManifest(j) ==
  /\ JobAt(j, "truncated") /\ JobTo(j, "over") /\ records' = job[j].snap
  /\ unreadable' \in {FALSE, \E k \in Jobs \ {j} : JobAt(k, "truncated")}
  /\ disturbed' = disturbed \cup {e \in Exts \ About(j) : records[e] # job[j].snap[e]}
                            \cup IF unreadable' THEN Exts ELSE {}
  /\ UNCHANGED <<orgExt, folder, entries, rowless>>

CrashExtRequests ==
  /\ \E j \in Jobs : Active(j)
  /\ job' = [j \in Jobs |-> IF Active(j) THEN [job[j] EXCEPT !.at = "over"] ELSE job[j]]
  /\ disturbed' = disturbed \cup (IF unreadable THEN Exts ELSE {}) \cup UNION {About(j) : j \in {k \in Jobs : Active(k)}}
  /\ UNCHANGED <<orgExt, diskVars, rowless>>

ProjectExtNext ==
  \/ \E e \in SharedExts : OrgExtStep(e)
  \/ \E i \in ExtInstalls : \/ BeginInstall(i) \/ LookUpOrg(i) \/ CheckClone(i)
                            \/ ResolveElsewhere(i) \/ AddExtension(i)
  \/ \E r \in ExtRemovals : \/ BeginRemoval(r) \/ CliRemove(r) \/ RemoveFolder(r)
                            \/ ReadRegistry(r) \/ WriteRegistry(r)
  \/ \E j \in Jobs : BeginManifest(j) \/ EndManifest(j)
  \/ CrashExtRequests
ProjectExtSpec == ProjectExtInit /\ [][ProjectExtNext]_projectExtVars

-------------------------------------------------------------------------------
Records == {"none", "installed", "failed"}
Sources == {"none", "org", "local", "community"}
ProjectExtTypeOK ==
  /\ orgExt \in [Exts -> {"none", "claimed", "there", "dropped"}]
  /\ folder \in [Exts -> Sources] /\ entries \in {NoRegistry} \cup SUBSET Exts
  /\ records \in [Exts -> Records] /\ unreadable \in BOOLEAN
  /\ \A j \in Jobs :
       /\ job[j].at \in {"idle", "resolving", "cloned", "elsewhere", "adding", "cli", "folder",
                         "registry", "deregister", "writing", "truncated", "over"}
       /\ job[j].todo \subseteq Nat /\ job[j].snap \in [Exts -> Records]
       /\ job[j].from \in Sources /\ job[j].seen \subseteq Exts
  /\ rowless \subseteq ExtInstalls /\ disturbed \subseteq Exts

\* What the page lists and what the picker offers is the same, once no request is
\* under way: also after an installation that failed half-way and a removal that
\* could not remove the folder, or the entry.  Exempt are slugs that two requests
\* were about at once, whose record or entry was overwritten by a request that
\* had read an older one, that a crash cut off, or that the registry kept because
\* it could not be read or written.
\* And whatever the organisation has registered comes from its clone, or not at
\* all: another source is used only if the slug had no row while it was resolved.
ExtensionsAgree ==
  /\ (\A j \in Jobs : ~Active(j)) /\ entries # NoRegistry =>
       \A e \in Exts \ disturbed : e \in Listed <=> InPicker(e)
  /\ \A i \in ExtInstalls : JobAt(i, "adding") /\ job[i].from # "org" => i \in rowless
===============================================================================
