----------------------------- MODULE OrgExtensions -----------------------------
(***************************************************************************)
(* The extensions of an organisation: addOrgExtension, removeOrgExtension  *)
(* of server/shared/utils/org-extensions-store.ts.                         *)
(*                                                                         *)
(* A row of the table is named by the request that inserted it, and so is  *)
(* the clone in a directory.  The database is another process: a crash of  *)
(* the server loses requests but neither rows nor directories.             *)
(***************************************************************************)
EXTENDS FiniteSets, Naturals

CONSTANTS
  Adds, Removals,   \* requests
  ExtSlugs,         \* the slugs manifests name
  MaxExtensions,    \* MAX_EXTENSIONS_PER_ORG
  NoAdd             \* no request
ASSUME ExtensionAssumption ==
  /\ NoAdd \notin Adds /\ MaxExtensions \in Nat
  /\ "none" \notin ExtSlugs /\ "reserved" \notin ExtSlugs

VARIABLES
  adding,     \* where an add is
  extRow,     \* the slug of an add's row: "none", "reserved" or a slug
  manifest,   \* the slug an add read from its clone
  removing,   \* a removal: [at, slug]
  extDir,     \* whose clone is in the directory of a slug
  crossed     \* history: slugs whose directory a request of the past may still take away
extensionVars == <<adding, extRow, manifest, removing, extDir, crossed>>

Rows == {a \in Adds : extRow[a] # "none"}
OwnerOf(s) == {a \in Adds : extRow[a] = s}
Advance(a, place) == adding' = [adding EXCEPT ![a] = place]

ExtensionInit ==
  /\ adding = [a \in Adds |-> "idle"] /\ extRow = [a \in Adds |-> "none"]
  /\ manifest = [a \in Adds |-> "none"]
  /\ removing = [q \in Removals |-> [at |-> "idle", slug |-> "none"]]
  /\ extDir = [s \in ExtSlugs |-> NoAdd] /\ crossed = {}

\* The transaction inserts its row, which others do not see yet, and counts.
CountRows(a) ==
  /\ adding[a] = "idle"
  /\ Advance(a, IF Cardinality(Rows) + 1 > MaxExtensions THEN "failed" ELSE "counted")
  /\ UNCHANGED <<extRow, manifest, removing, extDir, crossed>>
Reserve(a) ==
  /\ adding[a] = "counted" /\ Advance(a, "cloning")
  /\ extRow' = [extRow EXCEPT ![a] = "reserved"]
  /\ UNCHANGED <<manifest, removing, extDir, crossed>>

\* git clone into a directory of its own, and the manifest; either may fail.
CloneExtension(a) ==
  /\ adding[a] = "cloning"
  /\ \/ Advance(a, "failing") /\ UNCHANGED manifest
     \/ Advance(a, "cloned") /\ \E s \in ExtSlugs : manifest' = [manifest EXCEPT ![a] = s]
  /\ UNCHANGED <<extRow, removing, extDir, crossed>>

\* A mutant of ClaimSlug: the directory is cleared before the slug is claimed.
ClaimSlugClears(a) ==
  LET s == manifest[a] IN
  /\ adding[a] = "cloned" /\ extDir' = [extDir EXCEPT ![s] = NoAdd]
  /\ IF OwnerOf(s) # {} THEN Advance(a, "failing") /\ UNCHANGED extRow
     ELSE extRow' = [extRow EXCEPT ![a] = s] /\ Advance(a, "claimed")
  /\ UNCHANGED <<manifest, removing, crossed>>

\* The unique index lets one row have the slug.
ClaimSlug(a) ==
  LET s == manifest[a] IN
  /\ adding[a] = "cloned"
  /\ IF OwnerOf(s) # {} THEN Advance(a, "failing") /\ UNCHANGED <<extRow, crossed>>
     ELSE /\ extRow' = [extRow EXCEPT ![a] = s] /\ Advance(a, "claimed")
          /\ crossed' = crossed \cup {removing[q].slug : q \in {p \in Removals : removing[p].at = "row"}}
  /\ UNCHANGED <<manifest, removing, extDir>>

\* A directory left by a crash goes, then the clone takes its place.
ClearTarget(a) ==
  /\ adding[a] = "claimed" /\ Advance(a, "cleared")
  /\ extDir' = [extDir EXCEPT ![manifest[a]] = NoAdd]
  /\ UNCHANGED <<extRow, manifest, removing, crossed>>
\* rename fails on a directory with files in it, and may fail otherwise.
MoveIntoPlace(a) ==
  LET s == manifest[a] IN
  /\ adding[a] = "cleared"
  /\ \/ extDir[s] = NoAdd /\ extDir' = [extDir EXCEPT ![s] = a] /\ Advance(a, "moved")
     \/ Advance(a, "unmoved") /\ UNCHANGED extDir
  /\ UNCHANGED <<extRow, manifest, removing, crossed>>
RereadRow(a) ==
  /\ adding[a] = "moved" /\ Advance(a, IF extRow[a] = "none" THEN "gone" ELSE "ok")
  /\ UNCHANGED <<extRow, manifest, removing, extDir, crossed>>

\* cleanup: whatever the error, it deletes the row, or fails to, unnoticed.
Unreserve(a) ==
  /\ adding[a] \in {"failing", "unmoved"}
  /\ Advance(a, IF adding[a] = "unmoved" THEN "gone" ELSE "failed")
  /\ extRow' \in {extRow, [extRow EXCEPT ![a] = "none"]}
  /\ UNCHANGED <<manifest, removing, extDir, crossed>>
\* After a failed rename, and when the row has vanished, the directory goes.
DropTarget(a) ==
  /\ adding[a] = "gone" /\ Advance(a, "failed")
  /\ extDir' = [extDir EXCEPT ![manifest[a]] = NoAdd]
  /\ crossed' = crossed \cup {s \in ExtSlugs : s = manifest[a] /\ OwnerOf(s) \ {a} # {}}
  /\ UNCHANGED <<extRow, manifest, removing>>

\* removeOrgExtension: the row first, then the directory; 404 without a row.
RemoveRow(q, s) ==
  /\ removing[q].at = "idle"
  /\ removing' = [removing EXCEPT ![q] = [at |-> IF OwnerOf(s) = {} THEN "done" ELSE "row", slug |-> s]]
  /\ extRow' = [a \in Adds |-> IF extRow[a] = s THEN "none" ELSE extRow[a]]
  /\ crossed' = IF \E a \in OwnerOf(s) : adding[a] \notin {"ok", "failed"}
                THEN crossed \cup {s} ELSE crossed
  /\ UNCHANGED <<adding, manifest, extDir>>
RemoveDir(q) ==
  /\ removing[q].at = "row" /\ removing' = [removing EXCEPT ![q].at = "done"]
  /\ extDir' = [extDir EXCEPT ![removing[q].slug] = NoAdd]
  /\ UNCHANGED <<adding, extRow, manifest, crossed>>

\* The server dies; an open transaction is rolled back.
CrashExtensions ==
  /\ adding' = [a \in Adds |-> IF adding[a] \in {"idle", "ok"} THEN adding[a] ELSE "failed"]
  /\ removing' = [q \in Removals |-> IF removing[q].at = "row" THEN [removing[q] EXCEPT !.at = "done"]
                                     ELSE removing[q]]
  /\ UNCHANGED <<extRow, manifest, extDir, crossed>>

AddStep(a) ==
  \/ CountRows(a) \/ Reserve(a) \/ CloneExtension(a) \/ ClaimSlug(a) \/ ClearTarget(a)
  \/ MoveIntoPlace(a) \/ RereadRow(a) \/ Unreserve(a) \/ DropTarget(a)
ExtensionNext ==
  \/ \E a \in Adds : AddStep(a)
  \/ \E q \in Removals : RemoveDir(q) \/ \E s \in ExtSlugs : RemoveRow(q, s)
  \/ CrashExtensions
ExtensionSpec == ExtensionInit /\ [][ExtensionNext]_extensionVars

-------------------------------------------------------------------------------
ExtensionTypeOK ==
  /\ adding \in [Adds -> {"idle", "counted", "cloning", "cloned", "claimed", "cleared", "moved",
                          "unmoved", "gone", "failing", "ok", "failed"}]
  /\ extRow \in [Adds -> ExtSlugs \cup {"none", "reserved"}]
  /\ manifest \in [Adds -> ExtSlugs \cup {"none"}]
  /\ removing \in [Removals -> [at : {"idle", "row", "done"}, slug : ExtSlugs \cup {"none"}]]
  /\ extDir \in [ExtSlugs -> Adds \cup {NoAdd}] /\ crossed \subseteq ExtSlugs

\* An extension that was added and not removed is installed: its directory holds
\* its own clone, whatever adds of the same slug lose, fail half-way or die.  Two
\* directories are taken away late, when the slug may have a new row: that of a
\* removal an add overlapped, and that of an add that failed to move its clone.
ExtensionsAreInstalled ==
  \A a \in Adds : LET s == extRow[a] IN
    adding[a] = "ok" /\ s \in ExtSlugs \ crossed => extDir[s] = a
===============================================================================
