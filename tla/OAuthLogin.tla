------------------------------ MODULE OAuthLogin ------------------------------
(***************************************************************************)
(* Logging an owner in with the claude CLI: server/shared/utils/           *)
(* oauth-flow.ts, claude-oauth-driver.ts, and the handlers start, code,    *)
(* cancel and delete of an OAuth credential.                               *)
(*                                                                         *)
(* A flow is a request to start, and names its row, its child process and  *)
(* its temporary home.  All flows are of one owner, whose rows the unique  *)
(* index allows one at a time.  The CLI is external: once it has the code  *)
(* it writes the credentials, or does not, and exits; SIGTERM ends it.     *)
(***************************************************************************)
CONSTANTS
  Flows,
  Codes, Cancels   \* flows for which a code, a cancellation is posted
ASSUME LoginAssumption == Codes \subseteq Flows /\ Cancels \subseteq Flows

VARIABLES
  login,       \* where a start request is
  sweep,       \* the rows it found and has still to sweep
  victim,      \* the row it is sweeping
  flowRow,     \* the row of a flow: "none", "pending" or "authorized"
  driver,      \* ClaudeOAuthDriver.flows, each with its 15-minute timer
  cli,         \* the child process: "none", "live", "killed" or "gone"
  tmpHome,     \* its home: "none", "empty" or "credentials"
  submit,      \* where the flow's code request is
  cancelling,  \* where its cancel request is
  erasing,     \* flows whose row is deleted and whose home deleteCredential is to remove
  interrupted, \* history: flows whose code request failed after the code was sent
  orphaned     \* history: flows whose CLI outlived the server
driverVars == <<driver, cli, submit, interrupted>>
loginVars == <<login, sweep, victim, flowRow, driverVars, tmpHome, cancelling, erasing, orphaned>>

LoginAt(f, place) == login[f] = place
Turn(f, place) == login' = [login EXCEPT ![f] = place]
Credentials == {f \in Flows : flowRow[f] # "none"}

LoginInit ==
  /\ login = [f \in Flows |-> "idle"] /\ sweep = [f \in Flows |-> {}] /\ victim = [f \in Flows |-> f]
  /\ flowRow = [f \in Flows |-> "none"] /\ driver = {} /\ cli = [f \in Flows |-> "none"]
  /\ tmpHome = [f \in Flows |-> "none"] /\ submit = [f \in Flows |-> "idle"]
  /\ cancelling = [f \in Flows |-> "idle"] /\ erasing = {} /\ interrupted = {} /\ orphaned = {}

\* _cancelInternal: nothing unless the flow is in the map.
Kill(f) ==
  IF f \notin driver THEN UNCHANGED driverVars
  ELSE /\ driver' = driver \ {f} /\ cli' = [cli EXCEPT ![f] = "killed"]
       /\ submit' = [submit EXCEPT ![f] = IF @ = "submitted" THEN "over" ELSE @]
       /\ interrupted' = IF submit[f] = "submitted" THEN interrupted \cup {f} ELSE interrupted

\* deleteCredential: the row, then the home.
DeleteRow(f) == flowRow' = [flowRow EXCEPT ![f] = "none"] /\ erasing' = erasing \cup {f}

-------------------------------------------------------------------------------
\* startOAuthFlowFor: every row of the owner is swept, then one is inserted.
ListRows(f) ==
  /\ LoginAt(f, "idle") /\ Turn(f, "sweeping") /\ sweep' = [sweep EXCEPT ![f] = Credentials]
  /\ UNCHANGED <<victim, flowRow, driverVars, tmpHome, cancelling, erasing, orphaned>>
SweepFlow(f) ==
  /\ LoginAt(f, "sweeping") /\ Turn(f, "wiping") /\ victim[f] \notin erasing
  /\ \E g \in sweep[f] : victim' = [victim EXCEPT ![f] = g] /\ Kill(g)
  /\ UNCHANGED <<sweep, flowRow, tmpHome, cancelling, erasing, orphaned>>
SweepHome(f) ==
  /\ LoginAt(f, "wiping") /\ Turn(f, "dropping") /\ tmpHome' = [tmpHome EXCEPT ![victim[f]] = "none"]
  /\ UNCHANGED <<sweep, victim, flowRow, driverVars, cancelling, erasing, orphaned>>
SweepRow(f) ==
  /\ LoginAt(f, "dropping") /\ Turn(f, "sweeping") /\ DeleteRow(victim[f])
  /\ sweep' = [sweep EXCEPT ![f] = @ \ {victim[f]}]
  /\ UNCHANGED <<victim, driverVars, tmpHome, cancelling, orphaned>>
InsertCredential(f) ==
  /\ LoginAt(f, "sweeping") /\ sweep[f] = {} /\ victim[f] \notin erasing
  /\ IF Credentials = {} THEN Turn(f, "inserted") /\ flowRow' = [flowRow EXCEPT ![f] = "pending"]
     ELSE Turn(f, "failed") /\ UNCHANGED flowRow
  /\ victim' = [victim EXCEPT ![f] = f]
  /\ UNCHANGED <<sweep, driverVars, tmpHome, cancelling, erasing, orphaned>>

\* startLogin: the home, the process with its timer, and the wait for the URL.
MakeHome(f) ==
  /\ LoginAt(f, "inserted") /\ Turn(f, "homed") /\ tmpHome' = [tmpHome EXCEPT ![f] = "empty"]
  /\ UNCHANGED <<sweep, victim, flowRow, driverVars, cancelling, erasing, orphaned>>
Spawn(f) ==
  /\ LoginAt(f, "homed") /\ Turn(f, "waiting")
  /\ driver' = driver \cup {f} /\ cli' = [cli EXCEPT ![f] = "live"]
  /\ UNCHANGED <<sweep, victim, flowRow, submit, interrupted, tmpHome, cancelling, erasing, orphaned>>
UrlArrives(f) ==
  /\ LoginAt(f, "waiting") /\ Turn(f, "answered")
  /\ UNCHANGED <<sweep, victim, flowRow, driverVars, tmpHome, cancelling, erasing, orphaned>>
\* The flow has died, or thirty seconds have passed.
NoUrl(f) ==
  /\ LoginAt(f, "waiting") /\ Turn(f, "undoing") /\ Kill(f)
  /\ UNCHANGED <<sweep, victim, flowRow, tmpHome, cancelling, erasing, orphaned>>
UndoHome(f) ==
  /\ LoginAt(f, "undoing") /\ Turn(f, "undone") /\ tmpHome' = [tmpHome EXCEPT ![f] = "none"]
  /\ UNCHANGED <<sweep, victim, flowRow, driverVars, cancelling, erasing, orphaned>>
UndoRow(f) ==
  /\ LoginAt(f, "undone") /\ Turn(f, "failed")
  /\ DeleteRow(f) \/ UNCHANGED <<flowRow, erasing>>
  /\ UNCHANGED <<sweep, victim, driverVars, tmpHome, cancelling, orphaned>>

-------------------------------------------------------------------------------
\* code.post.ts finds the row, submits the code and waits for the CLI.
FindRow(f) ==
  /\ f \in Codes /\ submit[f] = "idle" /\ flowRow[f] # "none" /\ submit' = [submit EXCEPT ![f] = "found"]
  /\ UNCHANGED <<login, sweep, victim, flowRow, driver, cli, interrupted, tmpHome, cancelling, erasing, orphaned>>
\* A mutant of SubmitCode: the flow leaves the map, and its timer is cleared.
SubmitCodeTakes(f) ==
  /\ submit[f] = "found" /\ driver' = driver \ {f}
  /\ submit' = [submit EXCEPT ![f] = IF f \in driver THEN "submitted" ELSE "refused"]
  /\ UNCHANGED <<login, sweep, victim, flowRow, cli, interrupted, tmpHome, cancelling, erasing, orphaned>>

SubmitCode(f) ==
  /\ submit[f] = "found"
  /\ submit' = [submit EXCEPT ![f] = IF f \in driver THEN "submitted" ELSE "refused"]
  /\ UNCHANGED <<login, sweep, victim, flowRow, driver, cli, interrupted, tmpHome, cancelling, erasing, orphaned>>
ReadCredentials(f) ==
  /\ submit[f] = "reading"
  /\ submit' = [submit EXCEPT ![f] = IF tmpHome[f] = "credentials" THEN "marking" ELSE "cleaning"]
  /\ UNCHANGED <<login, sweep, victim, flowRow, driver, cli, interrupted, tmpHome, cancelling, erasing, orphaned>>
\* A mutant of MarkAuthorized: a failure ends the request.
MarkAuthorizedThrows(f) ==
  /\ submit[f] = "marking"
  /\ \/ submit' = [submit EXCEPT ![f] = "cleaning"] /\ flowRow' = [flowRow EXCEPT ![f] = "authorized"]
     \/ submit' = [submit EXCEPT ![f] = "over"] /\ UNCHANGED flowRow
  /\ UNCHANGED <<login, sweep, victim, driver, cli, interrupted, tmpHome, cancelling, erasing, orphaned>>

\* markOAuthAuthorized: the row may be gone, encrypting and writing may fail.
MarkAuthorized(f) ==
  /\ submit[f] = "marking" /\ submit' = [submit EXCEPT ![f] = "cleaning"]
  /\ flowRow' \in {flowRow, [flowRow EXCEPT ![f] = IF @ = "none" THEN @ ELSE "authorized"]}
  /\ UNCHANGED <<login, sweep, victim, driver, cli, interrupted, tmpHome, cancelling, erasing, orphaned>>
CleanHome(f) ==
  /\ submit[f] = "cleaning" /\ submit' = [submit EXCEPT ![f] = "over"]
  /\ tmpHome' = [tmpHome EXCEPT ![f] = "none"]
  /\ UNCHANGED <<login, sweep, victim, flowRow, driver, cli, interrupted, cancelling, erasing, orphaned>>

\* cancel.post.ts: a pending row only.
FindPending(f) ==
  /\ f \in Cancels /\ cancelling[f] = "idle" /\ flowRow[f] = "pending" /\ cancelling' = [cancelling EXCEPT ![f] = "found"]
  /\ UNCHANGED <<login, sweep, victim, flowRow, driverVars, tmpHome, erasing, orphaned>>
CancelFlow(f) ==
  /\ cancelling[f] = "found" /\ cancelling' = [cancelling EXCEPT ![f] = "killed"] /\ Kill(f)
  /\ UNCHANGED <<login, sweep, victim, flowRow, tmpHome, erasing, orphaned>>
DropCancelled(f) ==
  /\ cancelling[f] = "killed" /\ cancelling' = [cancelling EXCEPT ![f] = "over"]
  /\ DeleteRow(f)
  /\ UNCHANGED <<login, sweep, victim, driverVars, tmpHome, orphaned>>
\* [id].delete.ts, which leaves the driver alone.
DeleteCredential(f) ==
  /\ flowRow[f] # "none" /\ DeleteRow(f)
  /\ UNCHANGED <<login, sweep, victim, driverVars, tmpHome, cancelling, orphaned>>
EraseHome(f) ==
  /\ f \in erasing /\ erasing' = erasing \ {f} /\ tmpHome' = [tmpHome EXCEPT ![f] = "none"]
  /\ UNCHANGED <<login, sweep, victim, flowRow, driverVars, cancelling, orphaned>>

-------------------------------------------------------------------------------
FlowTimesOut(f) ==
  /\ f \in driver /\ Kill(f)
  /\ UNCHANGED <<login, sweep, victim, flowRow, tmpHome, cancelling, erasing, orphaned>>
CliWrites(f) ==
  /\ cli[f] \in {"live", "killed"} /\ submit[f] \in {"submitted", "over"} /\ tmpHome[f] = "empty"
  /\ tmpHome' = [tmpHome EXCEPT ![f] = "credentials"]
  /\ UNCHANGED <<login, sweep, victim, flowRow, driverVars, cancelling, erasing, orphaned>>
\* The close event: with exit code 0 the code request goes on.
CliExits(f) ==
  /\ cli[f] = "live" /\ cli' = [cli EXCEPT ![f] = "gone"] /\ driver' = driver \ {f}
  /\ IF submit[f] # "submitted" THEN UNCHANGED <<submit, interrupted>>
     ELSE \/ submit' = [submit EXCEPT ![f] = "reading"] /\ UNCHANGED interrupted
          \/ submit' = [submit EXCEPT ![f] = "over"] /\ interrupted' = interrupted \cup {f}
  /\ UNCHANGED <<login, sweep, victim, flowRow, tmpHome, cancelling, erasing, orphaned>>
CliDies(f) ==
  /\ cli[f] = "killed" /\ cli' = [cli EXCEPT ![f] = "gone"]
  /\ UNCHANGED <<login, sweep, victim, flowRow, driver, submit, interrupted, tmpHome, cancelling, erasing, orphaned>>

\* The server dies, the CLI does not.
CrashLogin ==
  /\ login' = [f \in Flows |-> IF LoginAt(f, "idle") \/ LoginAt(f, "answered") THEN login[f] ELSE "failed"]
  /\ submit' = [f \in Flows |-> IF submit[f] \in {"idle", "refused"} THEN submit[f]
                                ELSE IF submit[f] = "found" THEN "refused" ELSE "over"]
  /\ interrupted' = interrupted \cup
       {f \in Flows : submit[f] \in {"submitted", "reading", "marking", "cleaning"}}
  /\ cancelling' = [f \in Flows |-> IF cancelling[f] = "idle" THEN "idle" ELSE "over"]
  /\ orphaned' = orphaned \cup {f \in Flows : cli[f] \in {"live", "killed"}}
  /\ sweep' = [f \in Flows |-> {}] /\ victim' = [f \in Flows |-> f]
  /\ driver' = {} /\ erasing' = {} /\ UNCHANGED <<flowRow, cli, tmpHome>>

FlowStep(f) ==
  \/ ListRows(f) \/ SweepFlow(f) \/ SweepHome(f) \/ SweepRow(f) \/ InsertCredential(f)
  \/ MakeHome(f) \/ Spawn(f) \/ UrlArrives(f) \/ NoUrl(f) \/ UndoHome(f) \/ UndoRow(f)
  \/ FindRow(f) \/ SubmitCode(f) \/ ReadCredentials(f) \/ MarkAuthorized(f) \/ CleanHome(f)
  \/ FindPending(f) \/ CancelFlow(f) \/ DropCancelled(f) \/ DeleteCredential(f)
  \/ EraseHome(f) \/ FlowTimesOut(f) \/ CliWrites(f) \/ CliExits(f) \/ CliDies(f)
LoginNext == CrashLogin \/ \E f \in Flows : FlowStep(f)
LoginSpec == LoginInit /\ [][LoginNext]_loginVars
\* Timers fire, and a process that is sent SIGTERM ends.
LoginFairness == \A f \in Flows : WF_loginVars(FlowTimesOut(f)) /\ WF_loginVars(CliDies(f))

-------------------------------------------------------------------------------
LoginTypeOK ==
  /\ login \in [Flows -> {"idle", "sweeping", "wiping", "dropping", "inserted", "homed", "waiting",
                          "undoing", "undone", "answered", "failed"}]
  /\ sweep \in [Flows -> SUBSET Flows] /\ victim \in [Flows -> Flows]
  /\ flowRow \in [Flows -> {"none", "pending", "authorized"}] /\ driver \subseteq Flows
  /\ cli \in [Flows -> {"none", "live", "killed", "gone"}]
  /\ tmpHome \in [Flows -> {"none", "empty", "credentials"}]
  /\ submit \in [Flows -> {"idle", "found", "refused", "submitted", "reading", "marking", "cleaning", "over"}]
  /\ cancelling \in [Flows -> {"idle", "found", "killed", "over"}]
  /\ erasing \subseteq Flows /\ interrupted \subseteq Flows /\ orphaned \subseteq Flows

\* Credentials in the clear are on disk only while the request that stores them
\* is at work, whatever else sweeps, cancels, deletes or fails to store the row;
\* but for a request that failed after the code had been sent.
CredentialsLeaveDisk ==
  \A f \in Flows : tmpHome[f] = "credentials" =>
    submit[f] \in {"submitted", "reading", "marking", "cleaning"} \/ f \in interrupted

\* A CLI does not stay: not when its owner walks away, nor when its row is
\* swept or deleted before it is spawned; unless the server dies first.
ChildrenEnd ==
  \A f \in Flows : cli[f] \in {"live", "killed"} ~> cli[f] = "gone" \/ f \in orphaned
===============================================================================
