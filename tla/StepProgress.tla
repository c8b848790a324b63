----------------------------- MODULE StepProgress -----------------------------
(***************************************************************************)
(* The state file of one step of a project (src/core/step-state.js), the   *)
(* handlers that write it, and the push that follows a completion          *)
(* (server/shared/utils/repository-autosync.ts).                           *)
(*                                                                         *)
(* A request is of one kind: a session or a turn begins ("touch"), the     *)
(* step is completed, automatically or not, or reopened.  Each reads the   *)
(* whole file, writes a .tmp file of one name for all, and renames it.     *)
(* A write to the .tmp file is one action: its contents are a few bytes.   *)
(***************************************************************************)
EXTENDS Naturals

CONSTANTS StepRequests, KindOf, NoFile
Kinds == {"touch", "complete", "auto", "reopen"}
ASSUME StepAssumption == KindOf \in [StepRequests -> Kinds]

VARIABLES
  doing,      \* where a request is
  sees,       \* the state it read, then the state it writes
  stepFile,   \* the state file: [status, session], session standing for lastSessionId
  tmpFile,    \* the .tmp file, or NoFile
  pushTimer,  \* is the debounced push scheduled
  unpushed,   \* completions that were answered and not pushed since
  settled,    \* history: the last completion met nothing else, and nobody has reopened the step
  crashed     \* history: the server died before a push
stepVars == <<doing, sees, stepFile, tmpFile, pushTimer, unpushed, settled, crashed>>

Untouched == [status |-> "untouched", session |-> FALSE]
Completing(q) == KindOf[q] \in {"complete", "auto"}
Proceed(q, from, to) == doing[q] = from /\ doing' = [doing EXCEPT ![q] = to]
\* A request that may write something else than a completion is under way.
Unsettling(q) == ~Completing(q) /\ doing[q] \notin {"idle", "over"}

StepInit ==
  /\ doing = [q \in StepRequests |-> "idle"] /\ sees = [q \in StepRequests |-> Untouched]
  /\ stepFile = Untouched /\ tmpFile = NoFile
  /\ pushTimer = FALSE /\ unpushed = {} /\ settled = FALSE /\ crashed = FALSE

\* A mutant of FirstLook: markInProgress whatever the status.
FirstLookOnly(q) ==
  /\ KindOf[q] # "complete" /\ sees' = [sees EXCEPT ![q] = stepFile]
  /\ \/ Proceed(q, "idle", "looked")
     \/ KindOf[q] = "auto" /\ Proceed(q, "idle", "over")
  /\ settled' = (settled /\ KindOf[q] # "reopen")
  /\ UNCHANGED <<stepFile, tmpFile, pushTimer, unpushed, crashed>>

\* markInProgress leaves a complete step alone, and so does auto-complete, which
\* also wants an artifact; reopen notes whether there was a session.
FirstLook(q) ==
  /\ KindOf[q] # "complete" /\ sees' = [sees EXCEPT ![q] = stepFile]
  /\ LET leaves == stepFile.status = "complete" /\ KindOf[q] # "reopen" IN
       \/ ~leaves /\ Proceed(q, "idle", "looked")
       \/ (leaves \/ KindOf[q] = "auto") /\ Proceed(q, "idle", "over")
  /\ settled' = (settled /\ KindOf[q] # "reopen")
  /\ UNCHANGED <<stepFile, tmpFile, pushTimer, unpushed, crashed>>

\* setStatus: what it has read, the new status and, if one is given, the session.
SetStatus(q) ==
  /\ Proceed(q, IF KindOf[q] = "complete" THEN "idle" ELSE "looked", "writing")
  /\ \E given \in BOOLEAN :
       sees' = [sees EXCEPT ![q] =
         CASE KindOf[q] = "touch" -> [status |-> "in_progress", session |-> TRUE]
           [] KindOf[q] = "reopen" -> [status |-> IF sees[q].session THEN "in_progress" ELSE "untouched",
                                       session |-> stepFile.session]
           [] Completing(q) -> [status |-> "complete", session |-> given]]
  /\ UNCHANGED <<stepFile, tmpFile, pushTimer, unpushed, settled, crashed>>

\* writeJson.
WriteTmp(q) ==
  /\ Proceed(q, "writing", "renaming") /\ tmpFile' = sees[q]
  /\ UNCHANGED <<sees, stepFile, pushTimer, unpushed, settled, crashed>>
RenameTmp(q) ==
  /\ tmpFile # NoFile /\ Proceed(q, "renaming", IF KindOf[q] = "touch" THEN "over" ELSE "logging")
  /\ stepFile' = tmpFile /\ tmpFile' = NoFile
  /\ settled' = IF Completing(q) THEN ~\E p \in StepRequests : Unsettling(p) ELSE settled
  /\ UNCHANGED <<sees, pushTimer, unpushed, crashed>>
\* Another request has renamed the file: ENOENT.
RenameFails(q) ==
  /\ tmpFile = NoFile /\ Proceed(q, "renaming", "over")
  /\ UNCHANGED <<sees, stepFile, tmpFile, pushTimer, unpushed, settled, crashed>>

\* A mutant of AppendEvent: clearing the old timer is all a second one does.
AppendEventClears(q) ==
  /\ Proceed(q, "logging", "over")
  /\ IF Completing(q) THEN pushTimer' = ~pushTimer /\ unpushed' = unpushed \cup {q}
     ELSE UNCHANGED <<pushTimer, unpushed>>
  /\ UNCHANGED <<sees, stepFile, tmpFile, settled, crashed>>

\* The event; a completion then schedules the push, in place of one scheduled.
AppendEvent(q) ==
  /\ Proceed(q, "logging", "over")
  /\ IF Completing(q) THEN pushTimer' = TRUE /\ unpushed' = unpushed \cup {q}
     ELSE UNCHANGED <<pushTimer, unpushed>>
  /\ UNCHANGED <<sees, stepFile, tmpFile, settled, crashed>>
AppendFails(q) ==
  /\ Proceed(q, "logging", "over")
  /\ UNCHANGED <<sees, stepFile, tmpFile, pushTimer, unpushed, settled, crashed>>

\* The timer fires and a push begins, with all that is on disk; it may fail.
BeginPush ==
  /\ pushTimer /\ pushTimer' = FALSE /\ unpushed' = {}
  /\ UNCHANGED <<doing, sees, stepFile, tmpFile, settled, crashed>>

CrashSteps ==
  /\ doing' = [q \in StepRequests |-> IF doing[q] = "idle" THEN "idle" ELSE "over"]
  /\ pushTimer' = FALSE /\ crashed' = TRUE
  /\ UNCHANGED <<sees, stepFile, tmpFile, unpushed, settled>>

StepsNext ==
  \/ \E q \in StepRequests : \/ FirstLook(q) \/ SetStatus(q) \/ WriteTmp(q) \/ RenameTmp(q) \/ RenameFails(q)
                             \/ AppendEvent(q) \/ AppendFails(q)
  \/ BeginPush \/ CrashSteps
StepsSpec == StepInit /\ [][StepsNext]_stepVars

-------------------------------------------------------------------------------
StepState == [status : {"untouched", "in_progress", "complete"}, session : BOOLEAN]
StepTypeOK ==
  /\ doing \in [StepRequests -> {"idle", "looked", "writing", "renaming", "logging", "over"}]
  /\ sees \in [StepRequests -> StepState] /\ stepFile \in StepState
  /\ tmpFile \in StepState \cup {NoFile}
  /\ unpushed \subseteq StepRequests /\ {pushTimer, settled, crashed} \subseteq BOOLEAN

\* A completed step stays complete: turns that begin later, and sessions that are
\* opened later, do not take it back; unless it is reopened, or the completion
\* met a request that was already under way.
CompletionStays == settled => stepFile.status = "complete"

\* While a completion waits to be pushed a push is scheduled, though each takes
\* the place of the one before; unless the server died, which forgets it.
PushIsScheduled == unpushed # {} => pushTimer \/ crashed

\* A completion is kept in the state file and on its way to the remote.
StepsAreKept == CompletionStays /\ PushIsScheduled
===============================================================================
