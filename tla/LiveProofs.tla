------------------------------ MODULE LiveProofs ------------------------------
(* Theorems about the components that wait for something, for every number *)
(* of streams, requests, logins and runs: CapabilityApproval (the gate     *)
(* decides as the set of grants says, every request keeps its promise, and *)
(* the record agrees with the answers), OAuthLogin, AgentRunners and       *)
(* TurnStream.                                                             *)
EXTENDS MCLive, TurnBrokerProofs, StepwiseRecursion

-----------------------------------------------------------------------------
(* OAuthLogin: credentials in the clear do not stay on disk                *)

(* The driver has live children only, and a child is born once.            *)
ChildIsDriven(f) ==
  /\ f \in driver => cli[f] = "live"
  /\ login[f] \in {"idle", "sweeping", "wiping", "dropping", "inserted", "homed"} => cli[f] = "none"

(* While the CLI may still write, the code request waits for it, or failed. *)
CodeIsAwaited(f) ==
  /\ submit[f] = "submitted" => f \in driver
  /\ submit[f] \in {"reading", "marking", "cleaning"} => cli[f] = "gone"
  /\ submit[f] = "over" => cli[f] = "gone" \/ f \in interrupted

(* CredentialsLeaveDisk, for one flow.                                     *)
HomeIsTended(f) ==
  tmpHome[f] = "credentials" =>
    submit[f] \in {"submitted", "reading", "marking", "cleaning"} \/ f \in interrupted

FlowIsSound(f) == ChildIsDriven(f) /\ CodeIsAwaited(f) /\ HomeIsTended(f)
LoginInv == LoginTypeOK /\ \A f \in Flows : FlowIsSound(f)

(* What killing a flow does to it, and that it does nothing to the others. *)
LEMMA KillLemma ==
  ASSUME LoginInv, NEW g \in Flows, Kill(g)
  PROVE  /\ driver' \subseteq driver /\ interrupted \subseteq interrupted' /\ interrupted' \subseteq Flows
         /\ cli' \in [Flows -> {"none", "live", "killed", "gone"}]
         /\ submit' \in [Flows -> {"idle", "found", "refused", "submitted", "reading", "marking",
                                   "cleaning", "over"}]
         /\ \A f \in Flows \ {g} : /\ cli'[f] = cli[f] /\ submit'[f] = submit[f]
                                   /\ f \in driver' <=> f \in driver
                                   /\ f \in interrupted' <=> f \in interrupted
         /\ \/ /\ cli'[g] = cli[g] /\ submit'[g] = submit[g]
               /\ g \in driver' <=> g \in driver
               /\ g \in interrupted' <=> g \in interrupted
            \/ /\ g \in driver /\ g \notin driver' /\ cli'[g] = "killed"
               /\ IF submit[g] = "submitted" THEN submit'[g] = "over" /\ g \in interrupted'
                  ELSE submit'[g] = submit[g]
<1>1. CASE g \notin driver
  BY <1>1 DEF Kill, driverVars, LoginInv, LoginTypeOK
<1>2. CASE g \in driver
  <2>1. /\ driver' = driver \ {g} /\ cli' = [cli EXCEPT ![g] = "killed"]
        /\ submit' = [submit EXCEPT ![g] = IF submit[g] = "submitted" THEN "over" ELSE submit[g]]
        /\ interrupted' = IF submit[g] = "submitted" THEN interrupted \cup {g} ELSE interrupted
    BY <1>2 DEF Kill
  <2>2. CASE submit[g] = "submitted"
    BY <1>2, <2>1, <2>2 DEF LoginInv, LoginTypeOK
  <2>3. CASE submit[g] # "submitted"
    BY <1>2, <2>1, <2>3 DEF LoginInv, LoginTypeOK
  <2>4. QED
    BY <2>2, <2>3
<1>3. QED
  BY <1>1, <1>2

(* A step that kills one flow at most, and otherwise leaves the driver and  *)
(* the homes alone.                                                        *)
LEMMA KillKeeps ==
  ASSUME LoginInv, NEW g \in Flows, Kill(g), UNCHANGED tmpHome,
         \A f \in Flows :
           \/ login'[f] = login[f]
           \/ login'[f] \in {"sweeping", "wiping", "undoing"} /\ login[f] \in {"idle", "sweeping", "waiting"}
              /\ (login'[f] # "undoing" => login[f] \in {"idle", "sweeping"})
  PROVE  \A f \in Flows : FlowIsSound(f)'
<1> SUFFICES ASSUME NEW f \in Flows
             PROVE  FlowIsSound(f)'
  OBVIOUS
<1>1. FlowIsSound(f)
  BY DEF LoginInv
<1>2. CASE f # g
  <2>1. /\ cli'[f] = cli[f] /\ submit'[f] = submit[f]
        /\ f \in driver' <=> f \in driver
        /\ f \in interrupted' <=> f \in interrupted
    BY <1>2, KillLemma
  <2>2. QED
    BY <1>1, <2>1 DEF FlowIsSound, ChildIsDriven, CodeIsAwaited, HomeIsTended
<1>3. CASE f = g
  BY <1>1, <1>3, KillLemma DEF FlowIsSound, ChildIsDriven, CodeIsAwaited, HomeIsTended
<1>4. QED
  BY <1>2, <1>3

LEMMA LoginTypeStep ==
  ASSUME LoginInv, [LoginNext]_loginVars
  PROVE  LoginTypeOK'
<1>0. LoginTypeOK
  BY DEF LoginInv
<1>1. CASE UNCHANGED loginVars
  BY <1>0, <1>1 DEF LoginTypeOK, loginVars, driverVars
<1>2. CASE CrashLogin
  BY <1>0, <1>2 DEF LoginTypeOK, CrashLogin, LoginAt
<1>3. ASSUME NEW f \in Flows, FlowStep(f)
      PROVE  LoginTypeOK'
  <2>1. CASE ListRows(f) \/ SweepHome(f) \/ SweepRow(f) \/ InsertCredential(f)
    BY <1>0, <2>1 DEF ListRows, SweepHome, SweepRow, InsertCredential, DeleteRow, Turn, LoginAt, Credentials,
                      LoginTypeOK, driverVars
  <2>2. CASE SweepFlow(f)
    <3>1. PICK g \in sweep[f] : victim' = [victim EXCEPT ![f] = g] /\ Kill(g)
      BY <2>2 DEF SweepFlow
    <3>2. g \in Flows
      BY <1>0 DEF LoginTypeOK
    <3>3. /\ driver' \subseteq Flows /\ cli' \in [Flows -> {"none", "live", "killed", "gone"}]
          /\ submit' \in [Flows -> {"idle", "found", "refused", "submitted", "reading", "marking", "cleaning", "over"}]
          /\ interrupted' \subseteq Flows
      BY <1>0, <3>1, <3>2, KillLemma DEF LoginTypeOK
    <3>4. QED
      BY <1>0, <2>2, <3>1, <3>2, <3>3 DEF SweepFlow, Turn, LoginTypeOK
  <2>3. CASE MakeHome(f) \/ Spawn(f) \/ UrlArrives(f) \/ UndoHome(f) \/ UndoRow(f)
    BY <1>0, <2>3 DEF MakeHome, Spawn, UrlArrives, UndoHome, UndoRow, DeleteRow, Turn, LoginAt, LoginTypeOK, driverVars
  <2>4. CASE NoUrl(f) \/ CancelFlow(f) \/ FlowTimesOut(f)
    <3>1. Kill(f)
      BY <2>4 DEF NoUrl, CancelFlow, FlowTimesOut
    <3>2. /\ driver' \subseteq Flows /\ cli' \in [Flows -> {"none", "live", "killed", "gone"}]
          /\ submit' \in [Flows -> {"idle", "found", "refused", "submitted", "reading", "marking", "cleaning", "over"}]
          /\ interrupted' \subseteq Flows
      BY <1>0, <3>1, KillLemma DEF LoginTypeOK
    <3>3. QED
      BY <1>0, <2>4, <3>2 DEF NoUrl, CancelFlow, FlowTimesOut, Turn, LoginTypeOK
  <2>5. CASE FindRow(f) \/ SubmitCode(f) \/ ReadCredentials(f) \/ MarkAuthorized(f) \/ CleanHome(f)
    BY <1>0, <2>5 DEF FindRow, SubmitCode, ReadCredentials, MarkAuthorized, CleanHome, LoginTypeOK
  <2>6. CASE FindPending(f) \/ DropCancelled(f) \/ DeleteCredential(f) \/ EraseHome(f)
    BY <1>0, <2>6 DEF FindPending, DropCancelled, DeleteCredential, EraseHome, DeleteRow, LoginTypeOK, driverVars
  <2>7. CASE CliWrites(f) \/ CliExits(f) \/ CliDies(f)
    BY <1>0, <2>7 DEF CliWrites, CliExits, CliDies, LoginTypeOK, driverVars
  <2>8. QED
    BY <1>3, <2>1, <2>2, <2>3, <2>4, <2>5, <2>6, <2>7 DEF FlowStep
<1>4. QED
  BY <1>1, <1>2, <1>3 DEF LoginNext

(* A flow that no action names is left as it is.                           *)
LEMMA OtherFlowsStay ==
  ASSUME LoginInv, NEW f \in Flows, NEW g \in Flows \ {f},
         login'[g] = login[g], cli'[g] = cli[g], submit'[g] = submit[g],
         tmpHome'[g] = tmpHome[g] \/ tmpHome'[g] # "credentials",
         driver' \ {f} = driver \ {f}, interrupted' \ {f} = interrupted \ {f}
  PROVE  FlowIsSound(g)'
<1>1. FlowIsSound(g) /\ (g \in driver' <=> g \in driver) /\ (g \in interrupted' <=> g \in interrupted)
  BY DEF LoginInv
<1>2. QED
  BY <1>1 DEF FlowIsSound, ChildIsDriven, CodeIsAwaited, HomeIsTended

LEMMA LoginInvStep ==
  ASSUME LoginInv, [LoginNext]_loginVars
  PROVE  LoginInv'
<1>0. LoginTypeOK /\ LoginTypeOK' /\ \A g \in Flows : FlowIsSound(g)
  BY LoginTypeStep DEF LoginInv
<1>1. CASE UNCHANGED loginVars
  BY <1>0, <1>1 DEF LoginInv, FlowIsSound, ChildIsDriven, CodeIsAwaited, HomeIsTended, loginVars, driverVars
<1>2. CASE CrashLogin
  <2> SUFFICES ASSUME NEW g \in Flows
               PROVE  FlowIsSound(g)'
    BY <1>0 DEF LoginInv
  <2>1. /\ login'[g] = IF login[g] = "idle" \/ login[g] = "answered" THEN login[g] ELSE "failed"
        /\ submit'[g] = IF submit[g] \in {"idle", "refused"} THEN submit[g]
                        ELSE IF submit[g] = "found" THEN "refused" ELSE "over"
        /\ g \in interrupted' <=>
             g \in interrupted \/ submit[g] \in {"submitted", "reading", "marking", "cleaning"}
        /\ driver' = {} /\ cli' = cli /\ tmpHome' = tmpHome
    BY <1>2 DEF CrashLogin, LoginAt
  <2>2. submit[g] \in {"idle", "found", "refused", "submitted", "reading", "marking", "cleaning", "over"}
    BY <1>0 DEF LoginTypeOK
  <2>3. QED
    BY <1>0, <2>1, <2>2 DEF FlowIsSound, ChildIsDriven, CodeIsAwaited, HomeIsTended
<1>3. ASSUME NEW f \in Flows, FlowStep(f)
      PROVE  \A g \in Flows : FlowIsSound(g)'
  <2>0. FlowIsSound(f)
    BY <1>0
  <2>1. CASE ListRows(f) \/ InsertCredential(f) \/ MakeHome(f) \/ UrlArrives(f) \/ UndoHome(f) \/ UndoRow(f)
    <3>1. /\ UNCHANGED driverVars
          /\ tmpHome'[f] = tmpHome[f] \/ tmpHome'[f] # "credentials"
          /\ \A g \in Flows \ {f} : login'[g] = login[g] /\ tmpHome'[g] = tmpHome[g]
          /\ login'[f] \in {"idle", "sweeping", "wiping", "dropping", "inserted", "homed"} =>
               login[f] \in {"idle", "sweeping", "wiping", "dropping", "inserted", "homed"}
      BY <1>0, <2>1 DEF ListRows, InsertCredential, MakeHome, UrlArrives, UndoHome, UndoRow, Turn, LoginAt, LoginTypeOK
    <3>2. FlowIsSound(f)'
      BY <2>0, <3>1 DEF FlowIsSound, ChildIsDriven, CodeIsAwaited, HomeIsTended, driverVars
    <3>3. \A g \in Flows \ {f} : FlowIsSound(g)'
      BY <3>1, OtherFlowsStay DEF driverVars
    <3>4. QED
      BY <3>2, <3>3
  <2>2. CASE SweepHome(f) \/ SweepRow(f)
    <3>1. /\ UNCHANGED driverVars
          /\ \A g \in Flows : tmpHome'[g] = tmpHome[g] \/ tmpHome'[g] # "credentials"
          /\ \A g \in Flows \ {f} : login'[g] = login[g]
          /\ login[f] \in {"wiping", "dropping"} /\ login'[f] \in {"dropping", "sweeping"}
      BY <1>0, <2>2 DEF SweepHome, SweepRow, Turn, LoginAt, LoginTypeOK
    <3>2. FlowIsSound(f)'
      BY <2>0, <3>1 DEF FlowIsSound, ChildIsDriven, CodeIsAwaited, HomeIsTended, driverVars
    <3>3. \A g \in Flows \ {f} : FlowIsSound(g)'
      BY <3>1, OtherFlowsStay DEF driverVars
    <3>4. QED
      BY <3>2, <3>3
  <2>3. CASE SweepFlow(f)
    <3>1. PICK g \in sweep[f] : Kill(g)
      BY <2>3 DEF SweepFlow
    <3>2. /\ g \in Flows /\ UNCHANGED tmpHome
          /\ login[f] = "sweeping" /\ login'[f] = "wiping" /\ \A h \in Flows \ {f} : login'[h] = login[h]
      BY <1>0, <2>3 DEF SweepFlow, Turn, LoginAt, LoginTypeOK
    <3>3. QED
      BY <3>1, <3>2, KillKeeps
  <2>4. CASE Spawn(f)
    <3>1. /\ login[f] = "homed" /\ login'[f] = "waiting" /\ \A g \in Flows \ {f} : login'[g] = login[g]
          /\ cli'[f] = "live" /\ \A g \in Flows \ {f} : cli'[g] = cli[g]
          /\ driver' = driver \cup {f} /\ UNCHANGED <<submit, interrupted, tmpHome>>
      BY <1>0, <2>4 DEF Spawn, Turn, LoginAt, LoginTypeOK
    <3>2. FlowIsSound(f)'
      BY <2>0, <3>1 DEF FlowIsSound, ChildIsDriven, CodeIsAwaited, HomeIsTended
    <3>3. \A g \in Flows \ {f} : FlowIsSound(g)'
      BY <3>1, OtherFlowsStay
    <3>4. QED
      BY <3>2, <3>3
  <2>5. CASE NoUrl(f) \/ CancelFlow(f) \/ FlowTimesOut(f)
    <3>1. /\ Kill(f) /\ UNCHANGED tmpHome
          /\ \A g \in Flows : login'[g] = login[g] \/ (login'[g] = "undoing" /\ login[g] = "waiting")
      BY <1>0, <2>5 DEF NoUrl, CancelFlow, FlowTimesOut, Turn, LoginAt, LoginTypeOK
    <3>2. QED
      BY <3>1, KillKeeps
  <2>6. CASE FindRow(f) \/ SubmitCode(f) \/ ReadCredentials(f) \/ MarkAuthorized(f) \/ CleanHome(f)
    <3>1. /\ UNCHANGED <<login, driver, cli, interrupted>>
          /\ \A g \in Flows \ {f} : submit'[g] = submit[g] /\ tmpHome'[g] = tmpHome[g]
      BY <1>0, <2>6 DEF FindRow, SubmitCode, ReadCredentials, MarkAuthorized, CleanHome, LoginTypeOK
    <3>2. \/ submit[f] = "idle" /\ submit'[f] = "found" /\ UNCHANGED tmpHome
          \/ submit[f] = "found" /\ UNCHANGED tmpHome
             /\ submit'[f] = IF f \in driver THEN "submitted" ELSE "refused"
          \/ submit[f] \in {"reading", "marking"} /\ submit'[f] \in {"marking", "cleaning"} /\ UNCHANGED tmpHome
          \/ submit[f] = "cleaning" /\ submit'[f] = "over" /\ tmpHome'[f] = "none"
      BY <1>0, <2>6 DEF FindRow, SubmitCode, ReadCredentials, MarkAuthorized, CleanHome, LoginTypeOK
    <3>3. FlowIsSound(f)'
      BY <2>0, <3>1, <3>2 DEF FlowIsSound, ChildIsDriven, CodeIsAwaited, HomeIsTended
    <3>4. \A g \in Flows \ {f} : FlowIsSound(g)'
      BY <3>1, OtherFlowsStay
    <3>5. QED
      BY <3>3, <3>4
  <2>7. CASE FindPending(f) \/ DropCancelled(f) \/ DeleteCredential(f) \/ EraseHome(f)
    <3>1. /\ UNCHANGED <<login, driverVars>>
          /\ \A g \in Flows : tmpHome'[g] = tmpHome[g] \/ tmpHome'[g] # "credentials"
      BY <1>0, <2>7 DEF FindPending, DropCancelled, DeleteCredential, EraseHome, LoginTypeOK
    <3>2. QED
      BY <1>0, <3>1 DEF FlowIsSound, ChildIsDriven, CodeIsAwaited, HomeIsTended, driverVars
  <2>8. CASE CliWrites(f)
    <3>1. /\ UNCHANGED <<login, driverVars>> /\ cli[f] \in {"live", "killed"} /\ submit[f] \in {"submitted", "over"}
          /\ \A g \in Flows \ {f} : tmpHome'[g] = tmpHome[g]
      BY <1>0, <2>8 DEF CliWrites, LoginTypeOK
    <3>2. QED
      BY <1>0, <3>1 DEF FlowIsSound, ChildIsDriven, CodeIsAwaited, HomeIsTended, driverVars
  <2>9. CASE CliExits(f)
    <3>1. /\ UNCHANGED <<login, tmpHome>> /\ cli[f] = "live" /\ cli'[f] = "gone"
          /\ driver' = driver \ {f} /\ \A g \in Flows \ {f} : cli'[g] = cli[g]
      BY <1>0, <2>9 DEF CliExits, LoginTypeOK
    <3>2. \/ submit[f] # "submitted" /\ UNCHANGED <<submit, interrupted>>
          \/ /\ \A g \in Flows \ {f} : submit'[g] = submit[g]
             /\ submit[f] = "submitted" /\ submit'[f] = "reading" /\ UNCHANGED interrupted
          \/ /\ \A g \in Flows \ {f} : submit'[g] = submit[g]
             /\ submit[f] = "submitted" /\ submit'[f] = "over" /\ interrupted' = interrupted \cup {f}
      BY <1>0, <2>9 DEF CliExits, LoginTypeOK
    <3>3. FlowIsSound(f)'
      BY <2>0, <3>1, <3>2 DEF FlowIsSound, ChildIsDriven, CodeIsAwaited, HomeIsTended
    <3>4. \A g \in Flows \ {f} : FlowIsSound(g)'
      BY <3>1, <3>2, OtherFlowsStay
    <3>5. QED
      BY <3>3, <3>4
  <2>10. CASE CliDies(f)
    <3>1. /\ UNCHANGED <<login, tmpHome, driver, submit, interrupted>> /\ cli[f] = "killed" /\ cli'[f] = "gone"
          /\ \A g \in Flows \ {f} : cli'[g] = cli[g]
      BY <1>0, <2>10 DEF CliDies, LoginTypeOK
    <3>2. QED
      BY <1>0, <3>1 DEF FlowIsSound, ChildIsDriven, CodeIsAwaited, HomeIsTended
  <2>11. QED
    BY <1>3, <2>1, <2>2, <2>3, <2>4, <2>5, <2>6, <2>7, <2>8, <2>9, <2>10 DEF FlowStep
<1>4. QED
  BY <1>0, <1>1, <1>2, <1>3 DEF LoginNext, LoginInv

(* Whoever sweeps, cancels, deletes, exits or dies between the steps of a   *)
(* login (oauth-flow.ts, claude-oauth-driver.ts), credentials stay in a     *)
(* home only while the request that stores them is at work, or after one    *)
(* that failed once the code was sent; for every number of logins.          *)
THEOREM CredentialsLeave == LoginSpec => [](LoginTypeOK /\ CredentialsLeaveDisk)
<1>1. LoginInit => LoginInv
  <2> SUFFICES ASSUME LoginInit
               PROVE  LoginInv
    OBVIOUS
  <2>1. LoginTypeOK
    BY DEF LoginInit, LoginTypeOK
  <2>2. \A f \in Flows : FlowIsSound(f)
    BY DEF LoginInit, FlowIsSound, ChildIsDriven, CodeIsAwaited, HomeIsTended
  <2>3. QED
    BY <2>1, <2>2 DEF LoginInv
<1>2. LoginInv /\ [LoginNext]_loginVars => LoginInv'
  BY LoginInvStep
<1>3. LoginInv => LoginTypeOK /\ CredentialsLeaveDisk
  BY DEF LoginInv, FlowIsSound, HomeIsTended, CredentialsLeaveDisk
<1>4. QED
  BY <1>1, <1>2, <1>3, PTL DEF LoginSpec

-----------------------------------------------------------------------------
(* AgentRunners: who is told how a run ended                               *)

Verdicts == {"resolved", "failed", "aborted"}
TaskRecord == [kind : Plain \cup {"acp", "command"},
               at : {"idle", "open", "opening", "prompting", "closing", "over"},
               then : {"none"} \cup Verdicts, verdict : {"pending"} \cup Verdicts]
AgentRecord == [is : {"none", "unborn", "failed", "runs", "exited"},
                good : BOOLEAN, result : BOOLEAN, term : BOOLEAN]
StopRecord == [aborted : BOOLEAN, heard : BOOLEAN, cancelled : BOOLEAN]
OddRecord == [broken : BOOLEAN, deaf : BOOLEAN, late : BOOLEAN]
RunnersTyped ==
  /\ task \in [AgentRuns -> TaskRecord] /\ agent \in [AgentRuns -> AgentRecord]
  /\ stopped \in [AgentRuns -> StopRecord] /\ odd \in [AgentRuns -> OddRecord]

(* Where the run of t is and what became of its child a; what its session  *)
(* is about to say.                                                        *)
RunFitsChild(t, a) ==
  /\ t.at = "idle" <=> a.is = "none"
  /\ a.is \in {"none", "unborn"} => t.verdict = "pending" /\ t.at \in {"idle", "open", "opening"}
  /\ t.at = "open" => t.kind # "acp"
  /\ t.kind # "acp" => t.then = "none"
  /\ t.at \in {"opening", "prompting", "closing"} => t.kind = "acp"
  /\ a.is = "failed" => IF t.kind = "acp" THEN t.then = "failed" /\ t.at \in {"closing", "over"}
                        ELSE t.verdict = "failed"
ClosesFor(t, a, s) ==
  /\ t.at = "closing" => t.then # "none"
  /\ t.then = "resolved" => a.is # "failed"
  /\ t.then = "aborted" => s.aborted

(* ChildrenAreGone, for one run.                                           *)
TaughtRight(t, a, s, o) ==
  /\ t.verdict # "pending" /\ a.is = "runs" => o.broken \/ o.deaf
  /\ o.late => t.kind = "acp" \/ o.broken
  /\ t.verdict = "resolved" =>
       /\ t.at = "over" /\ a.is # "failed"
       /\ t.kind = "acp" \/ (a.is = "exited" /\ (a.good \/ a.result))
  /\ t.verdict = "aborted" => s.aborted

(* A plain run waits for 'close'.                                          *)
WaitsForClose(t, a, o) ==
  t.kind \in Plain /\ t.at = "open" /\ t.verdict # "pending" => o.broken \/ a.is = "failed"

RunIsSound(t, a, s, o) ==
  RunFitsChild(t, a) /\ ClosesFor(t, a, s) /\ TaughtRight(t, a, s, o) /\ WaitsForClose(t, a, o)
RunnersInv == RunnersTyped /\ \A r \in AgentRuns : RunIsSound(task[r], agent[r], stopped[r], odd[r])

(* What SIGTERM does to the record of a child.                             *)
LEMMA TerminateLemma ==
  ASSUME RunnersTyped, NEW r \in AgentRuns, Terminate(r)
  PROVE  /\ agent' \in [AgentRuns -> AgentRecord]
         /\ \A q \in AgentRuns \ {r} : agent'[q] = agent[q]
         /\ agent'[r].is = agent[r].is /\ agent'[r].good = agent[r].good /\ agent'[r].result = agent[r].result
<1> DEFINE new == [agent[r] EXCEPT !.term = agent[r].term \/ agent[r].is = "runs"]
<1>1. agent' = [agent EXCEPT ![r] = new]
  BY DEF Terminate
<1>2. agent[r] \in AgentRecord /\ agent \in [AgentRuns -> AgentRecord]
  BY DEF RunnersTyped
<1>3. (agent[r].term \/ agent[r].is = "runs") \in BOOLEAN
  OBVIOUS
<1>4. /\ new \in AgentRecord
      /\ new.is = agent[r].is /\ new.good = agent[r].good /\ new.result = agent[r].result
  <2> DEFINE b == agent[r].term \/ agent[r].is = "runs"
  <2>1. b \in BOOLEAN
    BY <1>3
  <2> HIDE DEF b
  <2>2. [agent[r] EXCEPT !.term = b] \in AgentRecord
    BY <1>2, <2>1 DEF AgentRecord
  <2>3. QED
    BY <1>2, <2>2 DEF AgentRecord, b
<1> HIDE DEF new
<1>5. QED
  BY <1>1, <1>2, <1>4

(* What becomes of the four records of r, as far as the invariant looks at  *)
(* them; those of other runs stay.                                         *)
Places == {"idle", "open", "opening", "prompting", "closing", "over"}
TaskIs(r, place, then, verdict) ==
  /\ task' \in [AgentRuns -> TaskRecord] /\ \A q \in AgentRuns \ {r} : task'[q] = task[q]
  /\ task'[r].kind = task[r].kind /\ task'[r].at = place
  /\ task'[r].then = then /\ task'[r].verdict = verdict
AgentIs(r, is, good, result) ==
  /\ agent' \in [AgentRuns -> AgentRecord] /\ \A q \in AgentRuns \ {r} : agent'[q] = agent[q]
  /\ agent'[r].is = is /\ agent'[r].good = good /\ agent'[r].result = result
StopIs(r, aborted) ==
  /\ stopped' \in [AgentRuns -> StopRecord] /\ \A q \in AgentRuns \ {r} : stopped'[q] = stopped[q]
  /\ stopped'[r].aborted = aborted
OddIs(r, broken, deaf, late) ==
  /\ odd' \in [AgentRuns -> OddRecord] /\ \A q \in AgentRuns \ {r} : odd'[q] = odd[q]
  /\ odd'[r].broken = broken /\ odd'[r].deaf = deaf /\ odd'[r].late = late

LEMMA TaskStep ==
  ASSUME RunnersTyped, NEW r \in AgentRuns, NEW p \in Places,
         NEW w \in {"none"} \cup Verdicts, NEW v \in {"pending"} \cup Verdicts
  PROVE  /\ task' = task => TaskIs(r, task[r].at, task[r].then, task[r].verdict)
         /\ task' = [task EXCEPT ![r].at = p] => TaskIs(r, p, task[r].then, task[r].verdict)
         /\ task' = [task EXCEPT ![r].verdict = v] => TaskIs(r, task[r].at, task[r].then, v)
         /\ task' = [task EXCEPT ![r].at = p, ![r].then = w] => TaskIs(r, p, w, task[r].verdict)
         /\ task' = [task EXCEPT ![r].at = p, ![r].verdict = v] => TaskIs(r, p, task[r].then, v)
<1>1. task[r] \in TaskRecord
  BY DEF RunnersTyped
<1>2. ASSUME NEW t \in TaskRecord, t.kind = task[r].kind, task' = [task EXCEPT ![r] = t]
      PROVE  TaskIs(r, t.at, t.then, t.verdict)
  BY <1>2 DEF TaskIs, RunnersTyped
<1>3. task' = task => TaskIs(r, task[r].at, task[r].then, task[r].verdict)
  BY DEF TaskIs, RunnersTyped
<1>4. task' = [task EXCEPT ![r].at = p] => TaskIs(r, p, task[r].then, task[r].verdict)
  <2> DEFINE t == [task[r] EXCEPT !.at = p]
  <2>1. t \in TaskRecord /\ t.kind = task[r].kind /\ t.at = p /\ t.then = task[r].then /\ t.verdict = task[r].verdict
    BY <1>1 DEF TaskRecord, Places
  <2>2. task' = [task EXCEPT ![r].at = p] => task' = [task EXCEPT ![r] = t]
    OBVIOUS
  <2> HIDE DEF t
  <2>3. QED
    BY <1>2, <2>1, <2>2
<1>5. task' = [task EXCEPT ![r].verdict = v] => TaskIs(r, task[r].at, task[r].then, v)
  <2> DEFINE t == [task[r] EXCEPT !.verdict = v]
  <2>1. t \in TaskRecord /\ t.kind = task[r].kind /\ t.at = task[r].at /\ t.then = task[r].then /\ t.verdict = v
    BY <1>1 DEF TaskRecord
  <2>2. task' = [task EXCEPT ![r].verdict = v] => task' = [task EXCEPT ![r] = t]
    OBVIOUS
  <2> HIDE DEF t
  <2>3. QED
    BY <1>2, <2>1, <2>2
<1>6. task' = [task EXCEPT ![r].at = p, ![r].then = w] => TaskIs(r, p, w, task[r].verdict)
  <2> DEFINE t == [task[r] EXCEPT !.at = p, !.then = w]
  <2>1. t \in TaskRecord /\ t.kind = task[r].kind /\ t.at = p /\ t.then = w /\ t.verdict = task[r].verdict
    BY <1>1 DEF TaskRecord, Places
  <2>2. task' = [task EXCEPT ![r].at = p, ![r].then = w] => task' = [task EXCEPT ![r] = t]
    BY DEF RunnersTyped
  <2> HIDE DEF t
  <2>3. QED
    BY <1>2, <2>1, <2>2
<1>7. task' = [task EXCEPT ![r].at = p, ![r].verdict = v] => TaskIs(r, p, task[r].then, v)
  <2> DEFINE t == [task[r] EXCEPT !.at = p, !.verdict = v]
  <2>1. t \in TaskRecord /\ t.kind = task[r].kind /\ t.at = p /\ t.then = task[r].then /\ t.verdict = v
    BY <1>1 DEF TaskRecord, Places
  <2>2. task' = [task EXCEPT ![r].at = p, ![r].verdict = v] => task' = [task EXCEPT ![r] = t]
    BY DEF RunnersTyped
  <2> HIDE DEF t
  <2>3. QED
    BY <1>2, <2>1, <2>2
<1>8. QED
  BY <1>3, <1>4, <1>5, <1>6, <1>7

LEMMA AgentStep ==
  ASSUME RunnersTyped, NEW r \in AgentRuns, NEW i \in {"none", "unborn", "failed", "runs", "exited"},
         NEW b \in BOOLEAN
  PROVE  /\ agent' = agent \/ Terminate(r) => AgentIs(r, agent[r].is, agent[r].good, agent[r].result)
         /\ agent' = [agent EXCEPT ![r].is = i] => AgentIs(r, i, agent[r].good, agent[r].result)
         /\ agent' = [agent EXCEPT ![r].is = i, ![r].term = b] => AgentIs(r, i, agent[r].good, agent[r].result)
         /\ agent' = [agent EXCEPT ![r].is = i, ![r].good = b] => AgentIs(r, i, b, agent[r].result)
         /\ agent' = [agent EXCEPT ![r].result = b] => AgentIs(r, agent[r].is, agent[r].good, b)
<1>1. agent[r] \in AgentRecord
  BY DEF RunnersTyped
<1>2. ASSUME NEW a \in AgentRecord, agent' = [agent EXCEPT ![r] = a]
      PROVE  AgentIs(r, a.is, a.good, a.result)
  BY <1>2 DEF AgentIs, RunnersTyped
<1>3. agent' = agent \/ Terminate(r) => AgentIs(r, agent[r].is, agent[r].good, agent[r].result)
  BY TerminateLemma DEF AgentIs, RunnersTyped
<1>4. agent' = [agent EXCEPT ![r].is = i] => AgentIs(r, i, agent[r].good, agent[r].result)
  <2> DEFINE a == [agent[r] EXCEPT !.is = i]
  <2>1. a \in AgentRecord /\ a.is = i /\ a.good = agent[r].good /\ a.result = agent[r].result
    BY <1>1 DEF AgentRecord
  <2>2. agent' = [agent EXCEPT ![r].is = i] => agent' = [agent EXCEPT ![r] = a]
    OBVIOUS
  <2> HIDE DEF a
  <2>3. QED
    BY <1>2, <2>1, <2>2
<1>5. agent' = [agent EXCEPT ![r].is = i, ![r].term = b] => AgentIs(r, i, agent[r].good, agent[r].result)
  <2> DEFINE a == [agent[r] EXCEPT !.is = i, !.term = b]
  <2>1. a \in AgentRecord /\ a.is = i /\ a.good = agent[r].good /\ a.result = agent[r].result
    BY <1>1 DEF AgentRecord
  <2>2. agent' = [agent EXCEPT ![r].is = i, ![r].term = b] => agent' = [agent EXCEPT ![r] = a]
    BY DEF RunnersTyped
  <2> HIDE DEF a
  <2>3. QED
    BY <1>2, <2>1, <2>2
<1>6. agent' = [agent EXCEPT ![r].is = i, ![r].good = b] => AgentIs(r, i, b, agent[r].result)
  <2> DEFINE a == [agent[r] EXCEPT !.is = i, !.good = b]
  <2>1. a \in AgentRecord /\ a.is = i /\ a.good = b /\ a.result = agent[r].result
    BY <1>1 DEF AgentRecord
  <2>2. agent' = [agent EXCEPT ![r].is = i, ![r].good = b] => agent' = [agent EXCEPT ![r] = a]
    BY DEF RunnersTyped
  <2> HIDE DEF a
  <2>3. QED
    BY <1>2, <2>1, <2>2
<1>7. agent' = [agent EXCEPT ![r].result = b] => AgentIs(r, agent[r].is, agent[r].good, b)
  <2> DEFINE a == [agent[r] EXCEPT !.result = b]
  <2>1. a \in AgentRecord /\ a.is = agent[r].is /\ a.good = agent[r].good /\ a.result = b
    BY <1>1 DEF AgentRecord
  <2>2. agent' = [agent EXCEPT ![r].result = b] => agent' = [agent EXCEPT ![r] = a]
    OBVIOUS
  <2> HIDE DEF a
  <2>3. QED
    BY <1>2, <2>1, <2>2
<1>8. QED
  BY <1>3, <1>4, <1>5, <1>6, <1>7

LEMMA StopStep ==
  ASSUME RunnersTyped, NEW r \in AgentRuns, NEW b \in BOOLEAN
  PROVE  /\ stopped' = stopped \/ stopped' = [stopped EXCEPT ![r].heard = b]
            \/ stopped' = [stopped EXCEPT ![r].cancelled = b] => StopIs(r, stopped[r].aborted)
         /\ stopped' = [stopped EXCEPT ![r].aborted = b] => StopIs(r, b)
  BY DEF RunnersTyped, StopIs, StopRecord

LEMMA OddStep ==
  ASSUME RunnersTyped, NEW r \in AgentRuns, NEW b \in BOOLEAN
  PROVE  /\ odd' = odd => OddIs(r, odd[r].broken, odd[r].deaf, odd[r].late)
         /\ odd' = [odd EXCEPT ![r].broken = b] => OddIs(r, b, odd[r].deaf, odd[r].late)
         /\ odd' = [odd EXCEPT ![r].deaf = b] => OddIs(r, odd[r].broken, b, odd[r].late)
         /\ odd' = [odd EXCEPT ![r].late = b] => OddIs(r, odd[r].broken, odd[r].deaf, b)
  BY DEF RunnersTyped, OddIs, OddRecord

Sound(k, p, w, v, i, g, u, ab, br, de, la) ==
  RunIsSound([kind |-> k, at |-> p, then |-> w, verdict |-> v], [is |-> i, good |-> g, result |-> u],
             [aborted |-> ab], [broken |-> br, deaf |-> de, late |-> la])

LEMMA RunKept ==
  ASSUME NEW r, NEW p, NEW w, NEW v, TaskIs(r, p, w, v), NEW i, NEW g, NEW u, AgentIs(r, i, g, u),
         NEW ab, StopIs(r, ab), NEW br, NEW de, NEW la, OddIs(r, br, de, la),
         Sound(task[r].kind, p, w, v, i, g, u, ab, br, de, la)
  PROVE  /\ RunnersTyped'
         /\ RunIsSound(task[r], agent[r], stopped[r], odd[r])'
         /\ \A q \in AgentRuns \ {r} : /\ task'[q] = task[q] /\ agent'[q] = agent[q]
                                       /\ stopped'[q] = stopped[q] /\ odd'[q] = odd[q]
<1>1. /\ RunnersTyped'
      /\ \A q \in AgentRuns \ {r} : /\ task'[q] = task[q] /\ agent'[q] = agent[q]
                                    /\ stopped'[q] = stopped[q] /\ odd'[q] = odd[q]
  BY DEF TaskIs, AgentIs, StopIs, OddIs, RunnersTyped
<1>2. /\ task'[r].kind = task[r].kind /\ task'[r].at = p /\ task'[r].then = w /\ task'[r].verdict = v
      /\ agent'[r].is = i /\ agent'[r].good = g /\ agent'[r].result = u /\ stopped'[r].aborted = ab
      /\ odd'[r].broken = br /\ odd'[r].deaf = de /\ odd'[r].late = la
  BY DEF TaskIs, AgentIs, StopIs, OddIs
<1>3. RunIsSound(task[r], agent[r], stopped[r], odd[r])'
  BY <1>2 DEF Sound, RunIsSound, RunFitsChild, ClosesFor, TaughtRight, WaitsForClose
<1>4. QED
  BY <1>1, <1>3

(* What a step does to the run it is about.                                *)
LEMMA RunStep ==
  ASSUME RunnersTyped, NEW r \in AgentRuns, RunOf(r),
         RunIsSound(task[r], agent[r], stopped[r], odd[r])
  PROVE  /\ RunnersTyped'
         /\ RunIsSound(task[r], agent[r], stopped[r], odd[r])'
         /\ \A q \in AgentRuns \ {r} : /\ task'[q] = task[q] /\ agent'[q] = agent[q]
                                       /\ stopped'[q] = stopped[q] /\ odd'[q] = odd[q]
<1> DEFINE t == task[r]
           a == agent[r]
           Kept == /\ RunnersTyped'
                   /\ RunIsSound(task[r], agent[r], stopped[r], odd[r])'
                   /\ \A q \in AgentRuns \ {r} : /\ task'[q] = task[q] /\ agent'[q] = agent[q]
                                                 /\ stopped'[q] = stopped[q] /\ odd'[q] = odd[q]
<1>0. /\ t.kind \in Plain \cup {"acp", "command"} /\ t.at \in Places
      /\ t.then \in {"none"} \cup Verdicts /\ t.verdict \in {"pending"} \cup Verdicts
      /\ a.is \in {"none", "unborn", "failed", "runs", "exited"} /\ a.good \in BOOLEAN /\ a.result \in BOOLEAN
      /\ stopped[r].aborted \in BOOLEAN
      /\ odd[r].broken \in BOOLEAN /\ odd[r].deaf \in BOOLEAN /\ odd[r].late \in BOOLEAN
  BY DEF RunnersTyped, TaskRecord, AgentRecord, StopRecord, OddRecord, Places
<1> USE DEF Plain, Verdicts, Places
<1>1. ASSUME NEW born \in BOOLEAN, SpawnAgent(r, born)
      PROVE  Kept
  <2> DEFINE p == IF t.kind = "acp" THEN "opening" ELSE "open"
             i == IF born THEN "runs" ELSE "unborn"
             b == born /\ stopped[r].aborted /\ t.kind \in Plain
             h == t.kind \in Plain
  <2>1. /\ t.at = "idle" /\ task' = [task EXCEPT ![r].at = p]
        /\ agent' = [agent EXCEPT ![r].is = i, ![r].term = b]
        /\ stopped' = [stopped EXCEPT ![r].heard = h] /\ odd' = odd
    BY <1>1 DEF SpawnAgent, RunnerOf
  <2>2. /\ p \in {"open", "opening"} /\ (p = "opening" <=> t.kind = "acp")
        /\ i \in {"runs", "unborn"} /\ b \in BOOLEAN /\ h \in BOOLEAN
    OBVIOUS
  <2> HIDE DEF p, i, b, h
  <2>3. TaskIs(r, p, t.then, t.verdict)
    BY <1>0, <2>1, <2>2, TaskStep
  <2>4. AgentIs(r, i, a.good, a.result)
    BY <1>0, <2>1, <2>2, AgentStep
  <2>5. StopIs(r, stopped[r].aborted) /\ OddIs(r, odd[r].broken, odd[r].deaf, odd[r].late)
    BY <1>0, <2>1, <2>2, StopStep, OddStep
  <2>6. Sound(t.kind, p, t.then, t.verdict, i, a.good, a.result, stopped[r].aborted,
              odd[r].broken, odd[r].deaf, odd[r].late)
    BY <1>0, <2>1, <2>2 DEF Sound, RunIsSound, RunFitsChild, ClosesFor, TaughtRight, WaitsForClose
  <2>7. QED
    BY <2>3, <2>4, <2>5, <2>6, RunKept
<1>2. CASE Abort(r) \/ Cancel(r)
  <2>1. PICK b \in BOOLEAN : /\ task' = task /\ odd' = odd /\ (agent' = agent \/ Terminate(r))
                             /\ (stopped[r].aborted => b)
                             /\ \/ stopped' = [stopped EXCEPT ![r].aborted = TRUE] /\ b = TRUE
                                \/ stopped' = [stopped EXCEPT ![r].cancelled = TRUE] /\ b = stopped[r].aborted
    BY <1>0, <1>2 DEF Abort, Cancel
  <2>2. /\ TaskIs(r, t.at, t.then, t.verdict) /\ AgentIs(r, a.is, a.good, a.result)
        /\ StopIs(r, b) /\ OddIs(r, odd[r].broken, odd[r].deaf, odd[r].late)
    BY <1>0, <2>1, TaskStep, AgentStep, StopStep, OddStep
  <2>3. Sound(t.kind, t.at, t.then, t.verdict, a.is, a.good, a.result, b, odd[r].broken, odd[r].deaf, odd[r].late)
    BY <1>0, <2>1, <2>2 DEF Sound, RunIsSound, RunFitsChild, ClosesFor, TaughtRight, WaitsForClose
  <2>4. QED
    BY <2>1, <2>2, <2>3, RunKept
<1>3. ASSUME NEW result \in BOOLEAN, AgentSays(r, result)
      PROVE  Kept
  <2>1. PICK u \in BOOLEAN, l \in BOOLEAN :
          /\ a.is \in {"runs", "exited"} /\ agent' = [agent EXCEPT ![r].result = u] /\ (a.result => u)
          /\ t.kind \in Plain \cup {"acp"} /\ (t.kind \in Plain => t.at = "open")
          /\ odd' = [odd EXCEPT ![r].late = l] /\ task' = task /\ stopped' = stopped
          /\ (l => odd[r].late \/ t.verdict # "pending")
    BY <1>0, <1>3 DEF AgentSays, RunnerOf, Settled
  <2>2. /\ TaskIs(r, t.at, t.then, t.verdict) /\ AgentIs(r, a.is, a.good, u)
        /\ StopIs(r, stopped[r].aborted) /\ OddIs(r, odd[r].broken, odd[r].deaf, l)
    BY <1>0, <2>1, TaskStep, AgentStep, StopStep, OddStep
  <2>3. Sound(t.kind, t.at, t.then, t.verdict, a.is, a.good, u, stopped[r].aborted, odd[r].broken, odd[r].deaf, l)
    BY <1>0, <2>1, <2>2 DEF Sound, RunIsSound, RunFitsChild, ClosesFor, TaughtRight, WaitsForClose
  <2>4. QED
    BY <2>1, <2>2, <2>3, RunKept
<1>4. ASSUME NEW good \in BOOLEAN, AgentExits(r, good)
      PROVE  Kept
  <2>1. /\ a.is = "runs" /\ agent' = [agent EXCEPT ![r].is = "exited", ![r].good = good]
        /\ task' = task /\ stopped' = stopped /\ odd' = odd
    BY <1>4 DEF AgentExits
  <2>2. /\ TaskIs(r, t.at, t.then, t.verdict) /\ AgentIs(r, "exited", good, a.result)
        /\ StopIs(r, stopped[r].aborted) /\ OddIs(r, odd[r].broken, odd[r].deaf, odd[r].late)
    BY <1>0, <2>1, TaskStep, AgentStep, StopStep, OddStep
  <2>3. Sound(t.kind, t.at, t.then, t.verdict, "exited", good, a.result, stopped[r].aborted, odd[r].broken, odd[r].deaf, odd[r].late)
    BY <1>0, <2>1, <2>2 DEF Sound, RunIsSound, RunFitsChild, ClosesFor, TaughtRight, WaitsForClose
  <2>4. QED
    BY <2>1, <2>2, <2>3, RunKept
<1>5. CASE StdinFails(r)
  <2>1. PICK v \in {"pending"} \cup Verdicts :
          /\ task' = [task EXCEPT ![r].verdict = v] /\ v = IF t.verdict # "pending" THEN t.verdict ELSE "failed"
          /\ t.kind \in Plain /\ a.is \in {"runs", "exited"} /\ odd' = [odd EXCEPT ![r].broken = TRUE]
          /\ agent' = agent /\ stopped' = stopped
    BY <1>0, <1>5 DEF StdinFails, RunnerOf, Settled
  <2>2. /\ TaskIs(r, t.at, t.then, v) /\ AgentIs(r, a.is, a.good, a.result)
        /\ StopIs(r, stopped[r].aborted) /\ OddIs(r, TRUE, odd[r].deaf, odd[r].late)
    BY <1>0, <2>1, TaskStep, AgentStep, StopStep, OddStep
  <2>3. Sound(t.kind, t.at, t.then, v, a.is, a.good, a.result, stopped[r].aborted, TRUE, odd[r].deaf, odd[r].late)
    BY <1>0, <2>1, <2>2 DEF Sound, RunIsSound, RunFitsChild, ClosesFor, TaughtRight, WaitsForClose
  <2>4. QED
    BY <2>1, <2>2, <2>3, RunKept
<1>6. CASE SpawnErrs(r)
  <2>1. a.is = "unborn" /\ agent' = [agent EXCEPT ![r].is = "failed"] /\ stopped' = stopped /\ odd' = odd
    BY <1>6 DEF SpawnErrs
  <2>2. t.verdict = "pending"
    BY <2>1 DEF RunIsSound, RunFitsChild
  <2>3. /\ AgentIs(r, "failed", a.good, a.result)
        /\ StopIs(r, stopped[r].aborted) /\ OddIs(r, odd[r].broken, odd[r].deaf, odd[r].late)
    BY <1>0, <2>1, AgentStep, StopStep, OddStep
  <2>4. CASE t.kind = "acp"
    <3>1. task' = [task EXCEPT ![r].at = "closing", ![r].then = "failed"]
      BY <1>6, <2>4 DEF SpawnErrs, RunnerOf, RunnersTyped
    <3>2. TaskIs(r, "closing", "failed", t.verdict)
      BY <1>0, <3>1, TaskStep
    <3>3. Sound(t.kind, "closing", "failed", t.verdict, "failed", a.good, a.result, stopped[r].aborted, odd[r].broken, odd[r].deaf, odd[r].late)
      BY <1>0, <2>1, <2>2, <2>3, <2>4, <3>2 DEF Sound, RunIsSound, RunFitsChild, ClosesFor, TaughtRight, WaitsForClose
    <3>4. QED
      BY <2>1, <2>2, <2>3, <2>4, <3>2, <3>3, RunKept
  <2>5. CASE t.kind # "acp"
    <3>1. task' = [task EXCEPT ![r].verdict = "failed"]
      BY <1>6, <2>2, <2>5 DEF SpawnErrs, RunnerOf, Settled
    <3>2. TaskIs(r, t.at, t.then, "failed")
      BY <1>0, <3>1, TaskStep
    <3>3. Sound(t.kind, t.at, t.then, "failed", "failed", a.good, a.result, stopped[r].aborted, odd[r].broken, odd[r].deaf, odd[r].late)
      BY <1>0, <2>1, <2>2, <2>3, <2>5, <3>2 DEF Sound, RunIsSound, RunFitsChild, ClosesFor, TaughtRight, WaitsForClose
    <3>4. QED
      BY <2>1, <2>2, <2>3, <2>5, <3>2, <3>3, RunKept
  <2>6. QED
    BY <2>4, <2>5
<1>7. CASE ChildCloses(r)
  <2>1. PICK v \in Verdicts :
          /\ t.at = "open" /\ a.is \in {"exited", "failed"}
          /\ task' = [task EXCEPT ![r].at = "over", ![r].verdict = v] /\ UNCHANGED <<agent, stopped, odd>>
          /\ t.verdict # "pending" => v = t.verdict
          /\ t.verdict = "pending" /\ v = "resolved" => a.good \/ a.result
          /\ t.verdict = "pending" /\ v = "aborted" => stopped[r].aborted
    BY <1>0, <1>7 DEF ChildCloses, Settled, VerdictOfClose
  <2>2. /\ TaskIs(r, "over", t.then, v) /\ AgentIs(r, a.is, a.good, a.result)
        /\ StopIs(r, stopped[r].aborted) /\ OddIs(r, odd[r].broken, odd[r].deaf, odd[r].late)
    BY <1>0, <2>1, TaskStep, AgentStep, StopStep, OddStep
  <2>3. Sound(t.kind, "over", t.then, v, a.is, a.good, a.result, stopped[r].aborted, odd[r].broken, odd[r].deaf, odd[r].late)
    BY <1>0, <2>1, <2>2 DEF Sound, RunIsSound, RunFitsChild, ClosesFor, TaughtRight, WaitsForClose
  <2>4. QED
    BY <2>1, <2>2, <2>3, RunKept
<1>8. ASSUME NEW v \in Verdicts, BeginClose(r, v), odd' = odd, t.at \in {"opening", "prompting"},
             a.is \in {"runs", "exited"}, v = "aborted" => stopped[r].aborted
      PROVE  Kept
  <2>1. /\ TaskIs(r, "closing", v, t.verdict) /\ AgentIs(r, a.is, a.good, a.result)
        /\ StopIs(r, stopped[r].aborted) /\ OddIs(r, odd[r].broken, odd[r].deaf, odd[r].late)
    BY <1>0, <1>8, TaskStep, AgentStep, StopStep, OddStep DEF BeginClose
  <2>2. Sound(t.kind, "closing", v, t.verdict, a.is, a.good, a.result, stopped[r].aborted, odd[r].broken, odd[r].deaf, odd[r].late)
    BY <1>0, <1>8, <2>1 DEF Sound, RunIsSound, RunFitsChild, ClosesFor, TaughtRight, WaitsForClose
  <2>3. QED
    BY <1>8, <2>1, <2>2, RunKept
<1>9. CASE SessionOpens(r)
  <2>1. CASE stopped[r].aborted
    BY <1>8, <1>9, <2>1 DEF SessionOpens
  <2>2. CASE ~stopped[r].aborted
    <3>1. /\ task' = [task EXCEPT ![r].at = "prompting"] /\ odd' = odd
          /\ stopped' = [stopped EXCEPT ![r].heard = TRUE] /\ agent' = agent
          /\ t.at = "opening" /\ a.is = "runs"
      BY <1>9, <2>2 DEF SessionOpens
    <3>2. /\ TaskIs(r, "prompting", t.then, t.verdict) /\ AgentIs(r, a.is, a.good, a.result)
          /\ StopIs(r, stopped[r].aborted) /\ OddIs(r, odd[r].broken, odd[r].deaf, odd[r].late)
      BY <1>0, <3>1, TaskStep, AgentStep, StopStep, OddStep
    <3>3. Sound(t.kind, "prompting", t.then, t.verdict, a.is, a.good, a.result, stopped[r].aborted, odd[r].broken, odd[r].deaf, odd[r].late)
      BY <1>0, <3>1, <3>2 DEF Sound, RunIsSound, RunFitsChild, ClosesFor, TaughtRight, WaitsForClose
    <3>4. QED
      BY <3>1, <3>2, <3>3, RunKept
  <2>3. QED
    BY <2>1, <2>2
<1>10. CASE SessionFails(r)
  BY <1>8, <1>10 DEF SessionFails
<1>11. CASE PromptAnswers(r)
  BY <1>8, <1>11 DEF PromptAnswers
<1>12. CASE PromptFails(r)
  <2>1. CASE stopped[r].aborted
    BY <1>8, <1>12, <2>1 DEF PromptFails
  <2>2. CASE ~stopped[r].aborted
    BY <1>8, <1>12, <2>2 DEF PromptFails
  <2>3. QED
    BY <2>1, <2>2
<1>13. CASE CloseEnds(r) \/ CloseGivesUp(r)
  <2>1. PICK d \in BOOLEAN :
          /\ t.at = "closing" /\ task' = [task EXCEPT ![r].at = "over", ![r].verdict = t.then]
          /\ (odd' = odd /\ d = odd[r].deaf) \/ (odd' = [odd EXCEPT ![r].deaf = TRUE] /\ d = TRUE)
          /\ (d \/ a.is = "exited") /\ (odd[r].deaf => d) /\ agent' = agent /\ stopped' = stopped
    BY <1>0, <1>13 DEF CloseEnds, CloseGivesUp
  <2>2. t.then \in Verdicts
    BY <1>0, <2>1 DEF RunIsSound, ClosesFor
  <2>3. /\ TaskIs(r, "over", t.then, t.then) /\ AgentIs(r, a.is, a.good, a.result)
        /\ StopIs(r, stopped[r].aborted) /\ OddIs(r, odd[r].broken, d, odd[r].late)
    BY <1>0, <2>1, <2>2, TaskStep, AgentStep, StopStep, OddStep
  <2>4. Sound(t.kind, "over", t.then, t.then, a.is, a.good, a.result, stopped[r].aborted, odd[r].broken, d, odd[r].late)
    BY <1>0, <2>1, <2>2, <2>3 DEF Sound, RunIsSound, RunFitsChild, ClosesFor, TaughtRight, WaitsForClose
  <2>5. QED
    BY <2>1, <2>2, <2>3, <2>4, RunKept
<1>14. QED
  BY <1>1, <1>2, <1>3, <1>4, <1>5, <1>6, <1>7, <1>9, <1>10, <1>11, <1>12, <1>13 DEF RunOf

LEMMA RunnersInvStep ==
  ASSUME RunnersInv, [RunnersNext]_runnerVars
  PROVE  RunnersInv'
<1>0. RunnersTyped /\ \A q \in AgentRuns : RunIsSound(task[q], agent[q], stopped[q], odd[q])
  BY DEF RunnersInv
<1>1. CASE UNCHANGED runnerVars
  <2>1. /\ RunnersTyped'
        /\ \A q \in AgentRuns : RunIsSound(task[q], agent[q], stopped[q], odd[q])'
    BY <1>0, <1>1 DEF runnerVars, RunnersTyped
  <2>2. QED
    BY <2>1 DEF RunnersInv
<1>2. ASSUME NEW r \in AgentRuns, RunOf(r)
      PROVE  RunnersInv'
  <2>1. /\ RunnersTyped' /\ RunIsSound(task[r], agent[r], stopped[r], odd[r])'
        /\ \A q \in AgentRuns \ {r} : /\ task'[q] = task[q] /\ agent'[q] = agent[q]
                                      /\ stopped'[q] = stopped[q] /\ odd'[q] = odd[q]
    BY <1>0, <1>2, RunStep
  <2>2. ASSUME NEW q \in AgentRuns
        PROVE  RunIsSound(task[q], agent[q], stopped[q], odd[q])'
    <3>1. CASE q # r
      <4>1. /\ task'[q] = task[q] /\ agent'[q] = agent[q]
            /\ stopped'[q] = stopped[q] /\ odd'[q] = odd[q]
        BY <2>1, <3>1
      <4>2. QED
        BY <1>0, <4>1
    <3>2. QED
      BY <2>1, <3>1
  <2>3. QED
    BY <2>1, <2>2 DEF RunnersInv
<1>3. QED
  BY <1>1, <1>2 DEF RunnersNext

(* A caller that is told how its run ended has no child left in the         *)
(* directory, unless stdin failed or SIGTERM was not heeded, and hears no   *)
(* more of a plain runner unless stdin failed; a success is                 *)
(* a result, an exit code of 0 or an answer; and who is told "aborted" had  *)
(* aborted (claude-code, hermes and acp runners, utils/process.js), for     *)
(* every number of runs.                                                   *)
THEOREM ChildrenGone == RunnersSpec => [](RunnersTypeOK /\ ChildrenAreGone)
<1>1. RunnersInit => RunnersInv
  <2> SUFFICES ASSUME RunnersInit
               PROVE  RunnersInv
    OBVIOUS
  <2>1. /\ agent \in [AgentRuns -> AgentRecord] /\ stopped \in [AgentRuns -> StopRecord]
        /\ odd \in [AgentRuns -> OddRecord]
    BY DEF RunnersInit, AgentRecord, StopRecord, OddRecord
  <2>2. \A r \in AgentRuns :
          /\ task[r] \in TaskRecord /\ task[r].at = "idle" /\ task[r].then = "none" /\ task[r].verdict = "pending"
          /\ agent[r].is = "none" /\ ~odd[r].late
    BY DEF RunnersInit, TaskRecord, Plain
  <2>3. task \in [AgentRuns -> TaskRecord]
    BY <2>2 DEF RunnersInit
  <2>4. QED
    BY <2>1, <2>2, <2>3 DEF RunnersInv, RunnersTyped, RunIsSound, RunFitsChild, ClosesFor, TaughtRight, WaitsForClose
<1>2. RunnersInv /\ [RunnersNext]_runnerVars => RunnersInv'
  BY RunnersInvStep
<1>3. RunnersInv => RunnersTypeOK /\ ChildrenAreGone
  <2> SUFFICES ASSUME RunnersInv
               PROVE  RunnersTypeOK /\ ChildrenAreGone
    OBVIOUS
  <2>1. RunnersTypeOK
    BY DEF RunnersInv, RunnersTyped, RunnersTypeOK, TaskRecord, AgentRecord, Verdicts
  <2>2. ChildrenAreGone
    BY DEF RunnersInv, RunIsSound, TaughtRight, ChildrenAreGone, Settled, RunnerOf
  <2>3. QED
    BY <2>1, <2>2
<1>4. QED
  BY <1>1, <1>2, <1>3, PTL DEF RunnersSpec

-----------------------------------------------------------------------------
(* CapabilityApproval: the gate of capability-gate.js                      *)

USE ApprovalAssumption

(* A nonempty set of indices has a least one, which `find` returns.        *)
LEMMA FirstCovering ==
  ASSUME NEW u \in Uses, Covering(u) # {}
  PROVE  \E i \in Covering(u) : \A j \in Covering(u) : i <= j
<1>1. Covering(u) \subseteq Nat
  BY DEF Covering
<1>2. PICK i \in Covering(u) : \A j \in Covering(u) : <<j, i>> \notin OpToRel(<, Nat)
  BY <1>1, NatLessThanWellFounded, WFMin, Zenon
<1>3. \A j \in Covering(u) : i <= j
  <2> TAKE j \in Covering(u)
  <2>1. i \in Nat /\ j \in Nat /\ ~(j < i)
    BY <1>1, <1>2 DEF OpToRel
  <2>2. QED
    BY <2>1
<1>4. QED
  BY <1>3

(* An element of a sequence is of the sequence's type.                     *)
LEMMA ElementOfSeq ==
  ASSUME NEW S, NEW s \in Seq(S), NEW i \in DOMAIN s
  PROVE  s[i] \in S
  OBVIOUS

(* The grant that find returns is one of the agent's, and covers the use.  *)
LEMMA FindGrantCovers ==
  ASSUME NEW u \in Uses, Covering(u) # {}
  PROVE  /\ FindGrant(u) \in [class : STRING, sub : STRING]
         /\ Covers(FindGrant(u), u.wants)
<1> DEFINE i == CHOOSE i \in Covering(u) : \A j \in Covering(u) : i <= j
<1>1. i \in Covering(u) /\ FindGrant(u) = u.grants[i]
  BY FirstCovering, Zenon DEF FindGrant
<1> HIDE DEF i
<1>2. /\ u.grants \in Seq([class : STRING, sub : STRING])
      /\ i \in DOMAIN u.grants /\ Covers(u.grants[i], u.wants)
  BY <1>1 DEF Covering
<1>3. u.grants[i] \in [class : STRING, sub : STRING]
  BY <1>2, ElementOfSeq, Zenon
<1>4. QED
  BY <1>1, <1>2, <1>3

(* A sensitive grant covers sensitive uses only: neither of the two        *)
(* sensitive capabilities is a wildcard, and all of class account is.      *)
LEMMA SensitiveGrant ==
  ASSUME NEW g \in [class : STRING, sub : STRING], NEW w \in [class : STRING, sub : STRING],
         Covers(g, w), IsSensitive(g)
  PROVE  IsSensitive(w)
<1>1. CASE g = w
  BY <1>1
<1>2. CASE g.class = w.class /\ g.sub = "any"
  <2>1. g \notin SensitiveCapabilities
    BY <1>2 DEF SensitiveCapabilities, Cap
  <2>2. QED
    BY <1>2, <2>1 DEF IsSensitive
<1>3. QED
  BY <1>1, <1>2 DEF Covers

(* checkCapability looks only at the first grant that matches; whatever    *)
(* their order, its verdict is the one the set of grants has.              *)
THEOREM GateIsExact ==
  \A u \in Uses :
    /\ CheckCapability(u) = "forbidden" <=> ~Entitled(u)
    /\ CheckCapability(u) = "approval" <=> Entitled(u) /\ Guarded(u)
    /\ CheckCapability(u) = "granted" <=> Entitled(u) /\ ~Guarded(u)
<1> SUFFICES ASSUME NEW u \in Uses
             PROVE  /\ CheckCapability(u) = "forbidden" <=> ~Entitled(u)
                    /\ CheckCapability(u) = "approval" <=> Entitled(u) /\ Guarded(u)
                    /\ CheckCapability(u) = "granted" <=> Entitled(u) /\ ~Guarded(u)
  OBVIOUS
<1>1. Covering(u) = {} <=> ~Entitled(u)
  BY DEF Covering, Entitled
<1>2. ASSUME Covering(u) # {}, IsSensitive(FindGrant(u))
      PROVE  Guarded(u)
  <2>1. u.wants \in [class : STRING, sub : STRING]
    OBVIOUS
  <2>2. QED
    BY <1>2, <2>1, FindGrantCovers, SensitiveGrant DEF Guarded
<1>3. QED
  BY <1>1, <1>2 DEF CheckCapability, Guarded

-----------------------------------------------------------------------------
(* Type correctness                                                        *)

(* The verdicts of the gate, and the decisions of a timeout.               *)
LEMMA VerdictTypes ==
  /\ \A u \in Uses : CheckCapability(u) \in {"forbidden", "approval", "granted"}
  /\ \A p \in Policies : DecisionForTimeout(p) \in {"escalated", "denied"}
  BY DEF CheckCapability, DecisionForTimeout

(* Leaving `pending` with a decision that an event can record.             *)
LEMMA CloseType ==
  ASSUME ApprovalTypeOK, NEW r \in Requests,
         NEW type \in {"approval_decided", "approval_timeout"},
         NEW d \in {"approved", "denied", "escalated"},
         NEW by \in {"user", "acp", "timeout"}, NEW to,
         Close(r, type, d, by, to),
         UNCHANGED <<use, owner, active, events>>, asked' \subseteq Requests
  PROVE  ApprovalTypeOK'
<1>1. /\ stage' \in [Requests -> Stages] /\ approvalTimers' \subseteq Requests
      /\ appends' \subseteq EventType
  BY DEF ApprovalTypeOK, Close, Stages, EventType
<1>2. /\ DOMAIN answer' = Requests
      /\ \A q \in Requests : answer'[q] = IF q = r THEN [decision |-> d, by |-> by, to |-> to]
                                           ELSE answer[q]
  BY DEF ApprovalTypeOK, Close
<1>3. QED
  BY <1>1, <1>2 DEF ApprovalTypeOK

LEMMA ApprovalTypeStep ==
  ASSUME ApprovalTypeOK, [ApprovalNext]_approvalVars
  PROVE  ApprovalTypeOK'
<1>1. ASSUME NEW r \in Requests, NEW k \in Runtimes, Authorize(r, k)
      PROVE  ApprovalTypeOK'
  <2> DEFINE verdict == CheckCapability(use[r])
  <2>1. verdict \in {"forbidden", "approval", "granted"}
    BY VerdictTypes DEF ApprovalTypeOK
  <2>2. owner' \in [Requests -> Runtimes \cup {None}] /\ stage' \in [Requests -> Stages]
    BY <1>1 DEF ApprovalTypeOK, Authorize, Stages
  <2>3. /\ DOMAIN answer' = Requests
        /\ \A q \in Requests :
             answer'[q] = IF q = r /\ verdict # "approval"
                          THEN [decision |-> verdict, by |-> "gate", to |-> None] ELSE answer[q]
    BY <1>1 DEF ApprovalTypeOK, Authorize
  <2> HIDE DEF verdict
  <2>4. QED
    BY <1>1, <2>1, <2>2, <2>3 DEF ApprovalTypeOK, Authorize
<1>2. ASSUME NEW r \in Requests, Enter(r) \/ EnterFails(r)
      PROVE  ApprovalTypeOK'
  BY <1>2 DEF ApprovalTypeOK, Enter, EnterFails, Stages, EventType
<1>3. ASSUME NEW r \in Requests, TimerFires(r)
      PROVE  ApprovalTypeOK'
  <2>1. CASE stage[r] = "pending"
    <3>1. use[r].policy \in Policies
      BY DEF ApprovalTypeOK
    <3>2. QED
      BY <1>3, <2>1, <3>1, CloseType, VerdictTypes DEF ApprovalTypeOK, TimerFires
  <2>2. CASE stage[r] # "pending"
    BY <1>3, <2>2 DEF ApprovalTypeOK, TimerFires
  <2>3. QED
    BY <2>1, <2>2
<1>4. ASSUME NEW r \in Requests, NEW d \in {"approved", "denied", "escalated"}, Decide(r, d)
      PROVE  ApprovalTypeOK'
  BY <1>4, CloseType DEF ApprovalTypeOK, Decide, Resolve
<1>5. ASSUME NEW r \in Requests, NEW d \in {"approved", "denied", "undefined"}, TransportAnswers(r, d)
      PROVE  ApprovalTypeOK'
  <2>1. CASE stage[r] = "pending" /\ d \in {"approved", "denied"}
    BY <1>5, <2>1, CloseType DEF ApprovalTypeOK, TransportAnswers, Resolve
  <2>2. CASE ~(stage[r] = "pending" /\ d \in {"approved", "denied"})
    BY <1>5, <2>2 DEF ApprovalTypeOK, TransportAnswers, Resolve
  <2>3. QED
    BY <2>1, <2>2
<1>6. ASSUME NEW k \in Runtimes, Register(k) \/ Deregister(k)
      PROVE  ApprovalTypeOK'
  BY <1>6 DEF ApprovalTypeOK, Register, Deregister, requestVars
<1>7. ASSUME NEW e \in appends, LandEvent(e)
      PROVE  ApprovalTypeOK'
  BY <1>7 DEF ApprovalTypeOK, LandEvent, requestVars
<1>8. ASSUME CrashApprovals
      PROVE  ApprovalTypeOK'
  BY <1>8 DEF ApprovalTypeOK, CrashApprovals, Stages
<1>9. ASSUME UNCHANGED approvalVars
      PROVE  ApprovalTypeOK'
  BY <1>9 DEF ApprovalTypeOK, approvalVars
<1>10. QED
  BY <1>1, <1>2, <1>3, <1>4, <1>5, <1>6, <1>7, <1>8, <1>9 DEF ApprovalNext, RequestStep

(* Every variable keeps its type.                                          *)
THEOREM ApprovalTypeCorrect == ApprovalSpec => []ApprovalTypeOK
<1>1. ApprovalInit => ApprovalTypeOK
  BY DEF ApprovalInit, ApprovalTypeOK, Stages, Unanswered
<1>2. ApprovalTypeOK /\ [ApprovalNext]_approvalVars => ApprovalTypeOK'
  BY ApprovalTypeStep
<1>3. QED
  BY <1>1, <1>2, PTL DEF ApprovalSpec

-----------------------------------------------------------------------------
(* The record and the answers                                              *)

(* A request has no answer before it is answered.                          *)
AnsweredOnce == \A r \in Requests : stage[r] # "answered" => answer[r] = Unanswered

(* A request is on disk before it waits.                                   *)
RequestOnDisk ==
  \A r \in Requests : stage[r] = "pending" =>
    \E f \in events : f.request = r /\ f.type = "approval_requested"

ApprovalInv == ApprovalTypeOK /\ AnsweredOnce /\ RequestOnDisk /\ RecordMatchesAnswer

(* Closing a pending request records its answer and disturbs no other.     *)
LEMMA CloseKeepsRecord ==
  ASSUME ApprovalInv, NEW r \in Requests, stage[r] = "pending",
         NEW type \in {"approval_decided", "approval_timeout"},
         NEW d \in {"approved", "denied", "escalated"},
         NEW by \in {"user", "acp", "timeout"}, NEW to,
         by = "timeout" <=> type = "approval_timeout",
         Close(r, type, d, by, to), UNCHANGED events
  PROVE  AnsweredOnce' /\ RequestOnDisk' /\ RecordMatchesAnswer'
<1> DEFINE new == [request |-> r, type |-> type, decision |-> d]
<1>1. /\ \A q \in Requests : stage'[q] = IF q = r THEN "answered" ELSE stage[q]
      /\ \A q \in Requests : answer'[q] = IF q = r THEN [decision |-> d, by |-> by, to |-> to]
                                           ELSE answer[q]
      /\ appends' = appends \cup {new} /\ events' = events
  BY DEF ApprovalInv, ApprovalTypeOK, Close
<1>2. /\ new.request = r /\ new.type = type /\ new.decision = d
      /\ new.type # "approval_requested"
  OBVIOUS
<1> HIDE DEF new
<1>3. AnsweredOnce' /\ RequestOnDisk'
  BY <1>1 DEF ApprovalInv, AnsweredOnce, RequestOnDisk
<1>4. RecordMatchesAnswer'
  <2>1. \A e \in events \cup appends : e.request \in Requests
    BY DEF ApprovalInv, ApprovalTypeOK, EventType
  <2>2. \A e \in events \cup appends : e.type # "approval_requested" => e.request # r
    BY DEF ApprovalInv, RecordMatchesAnswer
  <2>3. \E f \in events : f.request = r /\ f.type = "approval_requested"
    BY DEF ApprovalInv, RequestOnDisk
  <2>4. QED
    BY <1>1, <1>2, <2>1, <2>2, <2>3 DEF ApprovalInv, RecordMatchesAnswer
<1>5. QED
  BY <1>3, <1>4

(* Steps that add no event keep the record when the answers stand.         *)
LEMMA QuietStepKeepsRecord ==
  ASSUME ApprovalInv, ApprovalTypeOK',
         events \subseteq events', events' \subseteq events \cup appends,
         appends' \subseteq appends,
         \A r \in Requests :
           /\ stage[r] = "answered" => stage'[r] = "answered" /\ answer'[r] = answer[r]
           /\ stage'[r] # "answered" => answer'[r] = answer[r] /\ stage[r] # "answered"
           /\ stage'[r] = "pending" => stage[r] = "pending"
  PROVE  AnsweredOnce' /\ RequestOnDisk' /\ RecordMatchesAnswer'
<1>1. AnsweredOnce' /\ RequestOnDisk'
  BY DEF ApprovalInv, AnsweredOnce, RequestOnDisk
<1>2. \A e \in events \cup appends : e.request \in Requests
  BY DEF ApprovalInv, ApprovalTypeOK, EventType
<1>3. RecordMatchesAnswer'
  BY <1>2 DEF ApprovalInv, RecordMatchesAnswer
<1>4. QED
  BY <1>1, <1>3

LEMMA ApprovalInvStep ==
  ASSUME ApprovalInv, [ApprovalNext]_approvalVars
  PROVE  ApprovalInv'
<1>0. ApprovalTypeOK /\ ApprovalTypeOK'
  BY ApprovalTypeStep DEF ApprovalInv
<1> DEFINE Kept == AnsweredOnce' /\ RequestOnDisk' /\ RecordMatchesAnswer'
<1>1. ASSUME NEW r \in Requests, NEW k \in Runtimes, Authorize(r, k)
      PROVE  Kept
  <2> DEFINE verdict == CheckCapability(use[r])
  <2>1. \A q \in Requests :
          /\ q # r => stage'[q] = stage[q] /\ answer'[q] = answer[q]
          /\ stage'[r] = IF verdict = "approval" THEN "logging" ELSE "answered"
          /\ verdict = "approval" => answer'[r] = answer[r]
    BY <1>0, <1>1 DEF ApprovalTypeOK, Authorize
  <2>2. stage[r] = "idle" /\ events' = events /\ appends' = appends
    BY <1>1 DEF Authorize
  <2> HIDE DEF verdict
  <2>3. QED
    BY <1>0, <2>1, <2>2, QuietStepKeepsRecord
<1>2. ASSUME NEW r \in Requests, Enter(r)
      PROVE  Kept
  <2> DEFINE new == [request |-> r, type |-> "approval_requested", decision |-> "none"]
  <2>1. /\ stage[r] = "logging" /\ answer' = answer
        /\ \A q \in Requests : stage'[q] = IF q = r THEN "pending" ELSE stage[q]
        /\ events' = events \cup {new} /\ appends' = appends
    BY <1>0, <1>2 DEF ApprovalTypeOK, Enter
  <2>2. new.request = r /\ new.type = "approval_requested"
    OBVIOUS
  <2> HIDE DEF new
  <2>3. AnsweredOnce' /\ RequestOnDisk'
    BY <2>1, <2>2 DEF ApprovalInv, AnsweredOnce, RequestOnDisk
  <2>4. \A e \in events \cup appends : e.request \in Requests
    BY <1>0 DEF ApprovalTypeOK, EventType
  <2>5. RecordMatchesAnswer'
    BY <2>1, <2>2, <2>4 DEF ApprovalInv, RecordMatchesAnswer
  <2>6. QED
    BY <2>3, <2>5
<1>3. ASSUME NEW r \in Requests, EnterFails(r)
      PROVE  Kept
  <2>1. /\ stage[r] = "logging"
        /\ \A q \in Requests : stage'[q] = IF q = r THEN "failed" ELSE stage[q]
    BY <1>0, <1>3 DEF ApprovalTypeOK, EnterFails
  <2>2. answer' = answer /\ events' = events /\ appends' = appends
    BY <1>3 DEF EnterFails
  <2>3. QED
    BY <1>0, <2>1, <2>2, QuietStepKeepsRecord
<1>4. ASSUME UNCHANGED <<stage, answer, appends, events>>
      PROVE  Kept
  BY <1>0, <1>4, QuietStepKeepsRecord
<1>5. ASSUME NEW r \in Requests, TimerFires(r)
      PROVE  Kept
  <2>1. use[r].policy \in Policies
    BY <1>0 DEF ApprovalTypeOK
  <2>2. CASE stage[r] = "pending"
    BY <1>5, <2>1, <2>2, CloseKeepsRecord, VerdictTypes DEF TimerFires
  <2>3. CASE stage[r] # "pending"
    BY <1>4, <1>5, <2>3 DEF TimerFires
  <2>4. QED
    BY <2>2, <2>3
<1>6. ASSUME NEW r \in Requests, NEW d \in {"approved", "denied", "escalated"}, Decide(r, d)
      PROVE  Kept
  BY <1>6, CloseKeepsRecord DEF Decide, Resolve
<1>7. ASSUME NEW r \in Requests, NEW d \in {"approved", "denied", "undefined"}, TransportAnswers(r, d)
      PROVE  Kept
  <2>1. CASE stage[r] = "pending" /\ d \in {"approved", "denied"}
    BY <1>7, <2>1, CloseKeepsRecord DEF TransportAnswers, Resolve
  <2>2. CASE ~(stage[r] = "pending" /\ d \in {"approved", "denied"})
    BY <1>4, <1>7, <2>2 DEF TransportAnswers, Resolve
  <2>3. QED
    BY <2>1, <2>2
<1>8. ASSUME NEW e \in appends, LandEvent(e)
      PROVE  Kept
  <2>1. /\ events \subseteq events' /\ events' \subseteq events \cup appends
        /\ appends' \subseteq appends
    BY <1>8 DEF LandEvent
  <2>2. stage' = stage /\ answer' = answer
    BY <1>8 DEF LandEvent, requestVars
  <2>3. QED
    BY <1>0, <2>1, <2>2, QuietStepKeepsRecord
<1>9. ASSUME CrashApprovals
      PROVE  Kept
  <2>1. \A q \in Requests :
          stage'[q] = IF stage[q] \in {"logging", "pending"} THEN "lost" ELSE stage[q]
    BY <1>9 DEF CrashApprovals
  <2>2. answer' = answer /\ events' = events /\ appends' = {}
    BY <1>9 DEF CrashApprovals
  <2>3. QED
    BY <1>0, <2>1, <2>2, QuietStepKeepsRecord
<1>10. (\E k \in Runtimes : Register(k) \/ Deregister(k)) \/ UNCHANGED approvalVars
         => UNCHANGED <<stage, answer, appends, events>>
  BY DEF Register, Deregister, requestVars, approvalVars
<1>11. Kept
  BY <1>1, <1>2, <1>3, <1>4, <1>5, <1>6, <1>7, <1>8, <1>9, <1>10 DEF ApprovalNext, RequestStep
<1>12. QED
  BY <1>0, <1>11 DEF ApprovalInv

LEMMA ApprovalInvHolds == ApprovalSpec => []ApprovalInv
<1>1. ApprovalInit => ApprovalInv
  <2>1. ApprovalInit => ApprovalTypeOK
    BY DEF ApprovalInit, ApprovalTypeOK, Stages, Unanswered
  <2>2. QED
    BY <2>1 DEF ApprovalInit, ApprovalInv, AnsweredOnce, RequestOnDisk, RecordMatchesAnswer
<1>2. ApprovalInv /\ [ApprovalNext]_approvalVars => ApprovalInv'
  BY ApprovalInvStep
<1>3. QED
  BY <1>1, <1>2, PTL DEF ApprovalSpec

(* Whoever answers first, whichever appends fail and whenever the server   *)
(* dies: the record of a request has one ending at most, the one the agent *)
(* was told, and only after the record of its beginning.                   *)
THEOREM RecordsMatchAnswers == ApprovalSpec => []RecordMatchesAnswer
<1>1. ApprovalInv => RecordMatchesAnswer
  BY DEF ApprovalInv
<1>2. QED
  BY <1>1, ApprovalInvHolds, PTL

-----------------------------------------------------------------------------
(* CapabilityApproval implements ApprovalPromise                           *)

(* Moving one request moves one outcome.                                   *)
LEMMA SettleOne ==
  ASSUME NEW r \in Requests, NEW o, NEW v, use' = use,
         Outcome(r)' = o, answer'[r].by = v,
         \A q \in Requests \ {r} : Outcome(q)' = Outcome(q) /\ answer'[q].by = answer[q].by
  PROVE  Promise!Settle(r, o, v)
  BY DEF Promise!Settle

(* What a step that touches one request leaves of the others.              *)
LEMMA OthersKeepOutcome ==
  ASSUME NEW r \in Requests,
         \A q \in Requests \ {r} : stage'[q] = stage[q] /\ answer'[q] = answer[q]
  PROVE  \A q \in Requests \ {r} : Outcome(q)' = Outcome(q) /\ answer'[q].by = answer[q].by
  BY DEF Outcome

(* A decision given while the request waits is an answer or an expiry.     *)
LEMMA CloseSettles ==
  ASSUME ApprovalInv, NEW r \in Requests, stage[r] = "pending", use' = use,
         NEW type, NEW d, NEW by, NEW to, Close(r, type, d, by, to)
  PROVE  /\ Outcome(r) = "waiting"
         /\ Promise!Settle(r, IF d \in {"granted", "approved"} THEN "allowed" ELSE "refused", by)
<1> DEFINE o == IF d \in {"granted", "approved"} THEN "allowed" ELSE "refused"
<1>1. /\ stage'[r] = "answered" /\ answer'[r].decision = d /\ answer'[r].by = by
      /\ \A q \in Requests \ {r} : stage'[q] = stage[q] /\ answer'[q] = answer[q]
  BY DEF ApprovalInv, ApprovalTypeOK, Close
<1>2. Outcome(r)' = o
  BY <1>1 DEF Outcome
<1> HIDE DEF o
<1>3. Promise!Settle(r, o, by)
  BY <1>1, <1>2, OthersKeepOutcome, SettleOne
<1>4. Outcome(r) = "waiting"
  BY DEF Outcome
<1>5. QED
  BY <1>3, <1>4 DEF o

(* A step that changes no stage and no answer is a stutter.                *)
LEMMA QuietStepStutters ==
  ASSUME use' = use, stage' = stage, answer' = answer
  PROVE  UNCHANGED Promise!promiseVars
  BY DEF Promise!promiseVars, Outcome

(* Every action of the gate, the service and the handlers is a step of the *)
(* promise, or a stutter.                                                  *)
LEMMA StepKeepsPromise ==
  ASSUME ApprovalInv, [ApprovalNext]_approvalVars
  PROVE  [Promise!PromiseNext]_(Promise!promiseVars)
<1>0. ApprovalTypeOK /\ AnsweredOnce
  BY DEF ApprovalInv
<1> DEFINE Goal == [Promise!PromiseNext]_(Promise!promiseVars)
<1>1. ASSUME NEW r \in Requests, NEW k \in Runtimes, Authorize(r, k)
      PROVE  Goal
  <2> DEFINE verdict == CheckCapability(use[r])
  <2>1. use[r] \in Uses
    BY <1>0 DEF ApprovalTypeOK
  <2>2. /\ verdict = "forbidden" <=> ~Entitled(use[r])
        /\ verdict = "approval" <=> Entitled(use[r]) /\ Guarded(use[r])
        /\ verdict = "granted" <=> Entitled(use[r]) /\ ~Guarded(use[r])
    BY <2>1, GateIsExact
  <2>3. stage[r] = "idle" /\ use' = use /\ answer[r] = Unanswered
    BY <1>0, <1>1 DEF Authorize, AnsweredOnce
  <2>4. /\ \A q \in Requests \ {r} : stage'[q] = stage[q] /\ answer'[q] = answer[q]
        /\ stage'[r] = IF verdict = "approval" THEN "logging" ELSE "answered"
        /\ answer'[r] = IF verdict = "approval" THEN answer[r]
                        ELSE [decision |-> verdict, by |-> "gate", to |-> None]
    BY <1>0, <1>1 DEF ApprovalTypeOK, Authorize
  <2> HIDE DEF verdict
  <2>5. verdict \in {"forbidden", "approval", "granted"}
    BY <2>1, VerdictTypes DEF verdict
  <2>6. Outcome(r) = "none"
    BY <2>3 DEF Outcome
  <2>7. \A q \in Requests \ {r} : Outcome(q)' = Outcome(q) /\ answer'[q].by = answer[q].by
    BY <2>4, OthersKeepOutcome
  <2>8. CASE verdict = "forbidden"
    <3>1. Outcome(r)' = "refused" /\ answer'[r].by = "gate"
      BY <2>4, <2>8 DEF Outcome
    <3>2. Promise!Settle(r, "refused", "gate")
      BY <2>3, <2>7, <3>1, SettleOne
    <3>3. QED
      BY <2>2, <2>6, <2>8, <3>2 DEF Promise!Judge, Promise!PromiseNext
  <2>9. CASE verdict = "granted"
    <3>1. Outcome(r)' = "allowed" /\ answer'[r].by = "gate"
      BY <2>4, <2>9 DEF Outcome
    <3>2. Promise!Settle(r, "allowed", "gate")
      BY <2>3, <2>7, <3>1, SettleOne
    <3>3. QED
      BY <2>2, <2>6, <2>9, <3>2 DEF Promise!Judge, Promise!PromiseNext
  <2>10. CASE verdict = "approval"
    <3>1. Outcome(r)' = "waiting" /\ answer'[r].by = "none"
      BY <2>3, <2>4, <2>10 DEF Outcome, Unanswered
    <3>2. Promise!Settle(r, "waiting", "none")
      BY <2>3, <2>7, <3>1, SettleOne
    <3>3. QED
      BY <2>2, <2>6, <2>10, <3>2 DEF Promise!Judge, Promise!PromiseNext
  <2>11. QED
    BY <2>5, <2>8, <2>9, <2>10
<1>2. ASSUME UNCHANGED <<use, stage, answer>>
      PROVE  Goal
  BY <1>2, QuietStepStutters
<1>3. ASSUME NEW r \in Requests, Enter(r)
      PROVE  Goal
  <2>1. /\ stage[r] = "logging" /\ stage'[r] = "pending" /\ use' = use /\ answer' = answer
        /\ \A q \in Requests \ {r} : stage'[q] = stage[q]
    BY <1>0, <1>3 DEF ApprovalTypeOK, Enter
  <2>2. \A q \in Requests : Outcome(q)' = Outcome(q)
    BY <2>1 DEF Outcome
  <2>3. UNCHANGED Promise!promiseVars
    BY <2>1, <2>2 DEF Promise!promiseVars
  <2>4. QED
    BY <2>3
<1>4. ASSUME NEW r \in Requests, EnterFails(r)
      PROVE  Goal
  <2>1. /\ stage[r] = "logging" /\ stage'[r] = "failed" /\ use' = use /\ answer' = answer
        /\ \A q \in Requests \ {r} : stage'[q] = stage[q]
    BY <1>0, <1>4 DEF ApprovalTypeOK, EnterFails
  <2>2. Outcome(r) = "waiting" /\ Outcome(r)' = "failed" /\ answer'[r].by = "none"
    BY <1>0, <2>1 DEF Outcome, AnsweredOnce, Unanswered
  <2>3. Promise!Settle(r, "failed", "none")
    BY <2>1, <2>2, OthersKeepOutcome, SettleOne
  <2>4. QED
    BY <2>2, <2>3 DEF Promise!Abandon, Promise!PromiseNext
<1>5. ASSUME NEW r \in Requests, TimerFires(r)
      PROVE  Goal
  <2>1. CASE stage[r] = "pending"
    <3>1. use[r].policy \in Policies /\ use' = use
      BY <1>0, <1>5 DEF ApprovalTypeOK, TimerFires
    <3>2. DecisionForTimeout(use[r].policy) \notin {"granted", "approved"}
      BY <3>1, VerdictTypes
    <3>3. Outcome(r) = "waiting" /\ Promise!Settle(r, "refused", "timeout")
      BY <1>5, <2>1, <3>1, <3>2, CloseSettles DEF TimerFires
    <3>4. QED
      BY <3>3 DEF Promise!Expire, Promise!PromiseNext
  <2>2. CASE stage[r] # "pending"
    BY <1>2, <1>5, <2>2 DEF TimerFires
  <2>3. QED
    BY <2>1, <2>2
<1>6. ASSUME NEW r \in Requests, NEW d, NEW by \in {"user", "acp"},
             stage[r] = "pending", use' = use, Close(r, "approval_decided", d, by, None)
      PROVE  Goal
  <2>1. /\ Outcome(r) = "waiting"
        /\ \E o \in {"allowed", "refused"} : Promise!Settle(r, o, by)
    BY <1>6, CloseSettles
  <2>2. QED
    BY <2>1 DEF Promise!Answer, Promise!PromiseNext
<1>7. ASSUME NEW r \in Requests, NEW d \in {"approved", "denied", "escalated"}, Decide(r, d)
      PROVE  Goal
  BY <1>6, <1>7 DEF Decide, Resolve
<1>8. ASSUME NEW r \in Requests, NEW d \in {"approved", "denied", "undefined"}, TransportAnswers(r, d)
      PROVE  Goal
  <2>1. CASE stage[r] = "pending" /\ d \in {"approved", "denied"}
    BY <1>6, <1>8, <2>1 DEF TransportAnswers, Resolve
  <2>2. CASE ~(stage[r] = "pending" /\ d \in {"approved", "denied"})
    BY <1>2, <1>8, <2>2 DEF TransportAnswers, Resolve
  <2>3. QED
    BY <2>1, <2>2
<1>9. ASSUME CrashApprovals
      PROVE  Goal
  <2>1. /\ use' = use /\ answer' = answer
        /\ \A q \in Requests :
             stage'[q] = IF stage[q] \in {"logging", "pending"} THEN "lost" ELSE stage[q]
    BY <1>9 DEF CrashApprovals
  <2>2. \A q \in Requests :
          Outcome(q)' = IF Outcome(q) = "waiting" THEN "lost" ELSE Outcome(q)
    BY <1>0, <2>1 DEF Outcome, ApprovalTypeOK, Stages
  <2>3. Promise!LoseAll
    BY <2>1, <2>2 DEF Promise!LoseAll
  <2>4. QED
    BY <2>3 DEF Promise!PromiseNext
<1>10. (\E k \in Runtimes : Register(k) \/ Deregister(k)) \/ (\E e \in appends : LandEvent(e))
         \/ UNCHANGED approvalVars
         => UNCHANGED <<use, stage, answer>>
  BY DEF Register, Deregister, LandEvent, requestVars, approvalVars
<1>11. QED
  BY <1>1, <1>2, <1>3, <1>4, <1>5, <1>7, <1>8, <1>9, <1>10 DEF ApprovalNext, RequestStep

(* A guarded use is allowed only after a person said so, silence and lost  *)
(* answers refuse, and an outcome is final: for all grants, all orders of  *)
(* decision, client and timer, and every crash.                            *)
THEOREM PromiseIsKept == ApprovalSpec => ImplementsPromise
<1>1. ApprovalInit => Promise!PromiseInit
  BY DEF ApprovalInit, Promise!PromiseInit, Outcome, Unanswered
<1>2. ApprovalInv /\ [ApprovalNext]_approvalVars => [Promise!PromiseNext]_(Promise!promiseVars)
  BY StepKeepsPromise
<1>3. QED
  BY <1>1, <1>2, ApprovalInvHolds, PTL DEF ApprovalSpec, ImplementsPromise, Promise!PromiseSpec

-----------------------------------------------------------------------------
(* TurnStream: what a stream reads, keeps and pushes                       *)

(* What readEventsSince returns is a sequence of events.                   *)
LEMMA SinceType ==
  ASSUME NEW s \in Seq(Event), NEW after \in Nat
  PROVE  EventsSince(s, after) \in Seq(Event)
<1> DEFINE N == Len(s)
           Q == Seq(Event)
           Grow(n, r) == IF s[n].seq > after THEN Append(r, s[n]) ELSE r
           Body(f) == [n \in 0..N |-> IF n = 0 THEN <<>> ELSE Grow(n, f[n - 1])]
           kept == CHOOSE f : f = Body(f)
<1>1. N \in Nat /\ <<>> \in Q /\ \A n \in 1..N, r \in Q : Grow(n, r) \in Q
  <2>1. N \in Nat /\ \A n \in 1..N : s[n] \in Event
    OBVIOUS
  <2> HIDE DEF N
  <2>2. QED
    BY <2>1
<1>2. EventsSince(s, after) = kept[N]
  BY DEF EventsSince
<1> HIDE DEF N, Q, Grow
<1> DEFINE step == [n \in 1..N |-> [r \in Q |-> Grow(n, r)]]
<1>3. step \in [1..N -> [Q -> Q]] /\ \A n \in 1..N, r \in Q : step[n][r] = Grow(n, r)
  BY <1>1
<1>4. PICK g \in [0..N -> Q] : g[0] = <<>> /\ \A n \in 1..N : g[n] = step[n][g[n - 1]]
  <2> HIDE DEF step
  <2>1. N \in Nat /\ <<>> \in Q /\ step \in [1..N -> [Q -> Q]]
    BY <1>1, <1>3
  <2>2. Counted(N, Q, <<>>, step) # {}
    BY <2>1, CountUpDefines
  <2>3. QED
    BY <2>2 DEF Counted
<1> HIDE DEF step
<1>5. g = Body(g)
  <2>1. \A n \in 1..N : g[n - 1] \in Q
    BY <1>1
  <2>2. \A n \in 0..N : g[n] = IF n = 0 THEN <<>> ELSE Grow(n, g[n - 1])
    BY <1>1, <1>3, <1>4, <2>1
  <2>3. QED
    BY <2>2
<1>6. kept = Body(kept)
  <2> HIDE DEF Body
  <2>1. QED
    BY <1>5
<1> HIDE DEF kept
<1> DEFINE S == {n \in 0..N : kept[n] \in Q}
<1>7. 0 \in S /\ \A n \in 1..N : n - 1 \in S => n \in S
  <2>1. 0 \in 0..N /\ \A n \in 1..N : n \in 0..N /\ n # 0
    BY <1>1
  <2>2. \A n \in 0..N : kept[n] = IF n = 0 THEN <<>> ELSE Grow(n, kept[n - 1])
    BY <1>6
  <2>3. QED
    BY <1>1, <2>1, <2>2
<1> HIDE DEF S
<1>8. N \in 0..N /\ \A n \in 0..N : n \in S
  <2>1. N \in 0..N
    BY <1>1
  <2>2. \A n \in 0..N : n \in S
    BY <1>1, <1>7, CountUp
  <2>3. QED
    BY <2>1, <2>2
<1>9. kept[N] \in Q
  BY <1>8 DEF S
<1>10. QED
  BY <1>2, <1>9 DEF Q

(* What is pushed is of the events, and the highest seq a number.          *)
LEMMA PushedType ==
  ASSUME NEW s \in Seq(Event), NEW from \in Nat
  PROVE  Pushed(s, from).sent \subseteq Event /\ Pushed(s, from).highest \in Nat
<1> DEFINE N == Len(s)
           Q == Nat
           Grow(n, r) == Higher(r, s[n].seq)
           Body(f) == [n \in 0..N |-> IF n = 0 THEN from ELSE Grow(n, f[n - 1])]
           top == CHOOSE f : f = Body(f)
           out == {s[i] : i \in {j \in 1..N : s[j].seq > top[j - 1]}}
<1>1. N \in Nat /\ (\A n \in 1..N : s[n] \in Event) /\ \A n \in 1..N, r \in Q : Grow(n, r) \in Q
  <2>1. N \in Nat /\ \A n \in 1..N : s[n] \in Event
    OBVIOUS
  <2> HIDE DEF N
  <2>2. QED
    BY <2>1 DEF Event, Higher
<1>2. Pushed(s, from) = [sent |-> out, highest |-> top[N]]
  BY DEF Pushed
<1>3. out \subseteq Event
  <2> HIDE DEF top, N
  <2>1. QED
    BY <1>1
<1>2a. from \in Q
  OBVIOUS
<1> HIDE DEF N, Q, Grow, out
<1> DEFINE step == [n \in 1..N |-> [r \in Q |-> Grow(n, r)]]
<1>4. step \in [1..N -> [Q -> Q]] /\ \A n \in 1..N, r \in Q : step[n][r] = Grow(n, r)
  BY <1>1
<1>4a. N \in Nat
  BY <1>1
<1>5. PICK g \in [0..N -> Q] : g[0] = from /\ \A n \in 1..N : g[n] = step[n][g[n - 1]]
  <2> HIDE DEF step
  <2>1. Counted(N, Q, from, step) # {}
    BY <1>1, <1>2a, <1>4, <1>4a, CountUpDefines
  <2>2. QED
    BY <2>1 DEF Counted
<1> HIDE DEF step
<1>6. g = Body(g)
  <2>1. \A n \in 1..N : g[n - 1] \in Q
    BY <1>1
  <2>2. \A n \in 0..N : g[n] = IF n = 0 THEN from ELSE Grow(n, g[n - 1])
    BY <1>1, <1>4, <1>5, <2>1
  <2>3. QED
    BY <2>2
<1>7. top = Body(top)
  <2> HIDE DEF Body
  <2>1. QED
    BY <1>6
<1> HIDE DEF top
<1> DEFINE S == {n \in 0..N : top[n] \in Q}
<1>8. 0 \in S /\ \A n \in 1..N : n - 1 \in S => n \in S
  <2>1. 0 \in 0..N /\ \A n \in 1..N : n \in 0..N /\ n # 0
    BY <1>1
  <2>2. \A n \in 0..N : top[n] = IF n = 0 THEN from ELSE Grow(n, top[n - 1])
    BY <1>7
  <2>3. QED
    BY <1>1, <1>2a, <2>1, <2>2
<1> HIDE DEF S
<1>9. N \in 0..N /\ \A n \in 0..N : n \in S
  <2>1. N \in 0..N
    BY <1>4a
  <2>2. \A n \in 0..N : n \in S
    BY <1>4a, <1>8, CountUp
  <2>3. QED
    BY <2>1, <2>2
<1>10. top[N] \in Q
  BY <1>9 DEF S
<1>11. QED
  BY <1>2, <1>3, <1>10 DEF Q

StreamTyped == TypeOK /\ StreamTypeOK
LEMMA StreamTypeStep == StreamTyped /\ [StreamNext]_allVars => StreamTyped'
<1> SUFFICES ASSUME StreamTyped, [StreamNext]_allVars PROVE StreamTyped'
  OBVIOUS
<1>1. TypeOK'
  <2>1. [Next]_vars
    BY DEF allVars, vars, broker, turnVars, StreamNext, Next, OpenStream, StreamStep, ReadLog, ReplayLog, FlushOne, Flushed
  <2>2. QED
    BY <2>1, TypeStep DEF StreamTyped
<1>2. /\ log \in Seq(Event) /\ pending \subseteq Event /\ base \in [Turns -> Nat]
      /\ spc \in [Streams -> {"idle", "reading", "replaying", "flushing", "live", "closed"}]
      /\ since \in [Streams -> Nat] /\ highest \in [Streams -> Nat]
      /\ replay \in [Streams -> Seq(Event)] /\ buffer \in [Streams -> Seq(Event)] /\ sent \in [Streams -> SUBSET Event]
  BY DEF StreamTyped, TypeOK, StreamTypeOK
<1>3. ASSUME UNCHANGED streamVars PROVE StreamTypeOK'
  <2>1. spc' = spc /\ since' = since /\ highest' = highest /\ replay' = replay /\ buffer' = buffer /\ sent' = sent
    BY <1>3 DEF streamVars
  <2>2. QED
    BY <1>2, <2>1 DEF StreamTypeOK
<1>4. ASSUME NEW e \in pending, Deliver(e) PROVE StreamTypeOK'
  <2>1. e \in Event /\ e.seq \in Nat
    BY <1>2 DEF Event
  <2>2. since' = since /\ replay' = replay
    BY <1>4 DEF Deliver
  <2>3. buffer' \in [Streams -> Seq(Event)]
    BY <1>2, <1>4, <2>1 DEF Deliver
  <2>4. sent' \in [Streams -> SUBSET Event]
    BY <1>2, <1>4, <2>1 DEF Deliver
  <2>5. highest' \in [Streams -> Nat]
    BY <1>2, <1>4, <2>1 DEF Deliver
  <2>6. spc' \in [Streams -> {"idle", "reading", "replaying", "flushing", "live", "closed"}]
    BY <1>2, <1>4 DEF Deliver
  <2>7. QED
    BY <1>2, <2>2, <2>3, <2>4, <2>5, <2>6 DEF StreamTypeOK
<1>5. ASSUME CloseAll PROVE StreamTypeOK'
  <2>1. spc' \in [Streams -> {"idle", "reading", "replaying", "flushing", "live", "closed"}]
    BY <1>2, <1>5 DEF CloseAll
  <2>2. since' = since /\ highest' = highest /\ replay' = replay /\ buffer' = buffer /\ sent' = sent
    BY <1>5 DEF CloseAll
  <2>3. QED
    BY <1>2, <2>1, <2>2 DEF StreamTypeOK
<1>6. ASSUME NEW s \in Streams, NEW t \in Turns, OpenStream(s, t) PROVE StreamTypeOK'
  BY <1>2, <1>6 DEF OpenStream, StreamTypeOK
<1>7. ASSUME NEW s \in Streams, ReadLog(s) PROVE StreamTypeOK'
  <2>1. EventsSince(log, since[s]) \in Seq(Event)
    BY <1>2, SinceType
  <2>2. QED
    BY <1>2, <1>7, <2>1 DEF ReadLog, StreamTypeOK
<1>8. ASSUME NEW s \in Streams, ReplayLog(s) PROVE StreamTypeOK'
  <2> DEFINE p == Pushed(replay[s], highest[s])
  <2>1. p.sent \subseteq Event /\ p.highest \in Nat
    BY <1>2, PushedType
  <2>2. /\ sent' = [sent EXCEPT ![s] = @ \cup p.sent] /\ highest' = [highest EXCEPT ![s] = p.highest]
        /\ replay' = [replay EXCEPT ![s] = <<>>] /\ spc' = [spc EXCEPT ![s] = "flushing"] /\ UNCHANGED <<since, buffer>>
    BY <1>8 DEF ReplayLog
  <2> HIDE DEF p
  <2>3. QED
    BY <1>2, <2>1, <2>2 DEF StreamTypeOK
<1>9. ASSUME NEW s \in Streams, FlushOne(s) PROVE StreamTypeOK'
  <2> DEFINE e == Head(buffer[s])
             p == Pushed(<<e>>, highest[s])
  <2>1. buffer[s] # <<>> /\ buffer[s] \in Seq(Event)
    BY <1>2, <1>9 DEF FlushOne
  <2>2. e \in Event /\ Tail(buffer[s]) \in Seq(Event) /\ <<e>> \in Seq(Event)
    BY <2>1
  <2>3. p.sent \subseteq Event /\ p.highest \in Nat
    BY <1>2, <2>2, PushedType
  <2>4. /\ sent' = [sent EXCEPT ![s] = @ \cup p.sent] /\ highest' = [highest EXCEPT ![s] = p.highest]
        /\ spc' = [spc EXCEPT ![s] = IF Terminal(e) THEN "closed" ELSE @]
        /\ buffer' = [buffer EXCEPT ![s] = Tail(@)] /\ UNCHANGED <<since, replay>>
    BY <1>9 DEF FlushOne
  <2> HIDE DEF p, e
  <2>5. QED
    BY <1>2, <2>2, <2>3, <2>4 DEF StreamTypeOK
<1>10. ASSUME NEW s \in Streams, Flushed(s) PROVE StreamTypeOK'
  BY <1>2, <1>10 DEF Flushed, StreamTypeOK
<1>11. StreamTypeOK'
  <2>1. ASSUME UNCHANGED allVars PROVE StreamTypeOK'
    <3>1. UNCHANGED streamVars
      BY <2>1 DEF allVars
    <3>2. QED
      BY <3>1, <1>3
  <2>2. ASSUME StreamNext PROVE StreamTypeOK'
    BY <1>3, <1>4, <1>5, <1>6, <1>7, <1>8, <1>9, <1>10, <2>2 DEF StreamNext, StreamStep
  <2>3. QED
    BY <2>1, <2>2
<1>12. QED
  BY <1>1, <1>11 DEF StreamTyped

(* The events of the broker and what each stream has of them are of their   *)
(* types in every reachable state.                                          *)
THEOREM StreamTypes == StreamSpec => []StreamTyped
<1>1. StreamInit => StreamTyped
  <2>1. StreamInit => Init
    BY DEF StreamInit
  <2>2. Init => TypeOK
    BY TypeInit
  <2>3. StreamInit => StreamTypeOK
    BY DEF StreamInit, StreamTypeOK
  <2>4. QED
    BY <2>1, <2>2, <2>3 DEF StreamTyped
<1>2. StreamTyped /\ [StreamNext]_allVars => StreamTyped'
  BY StreamTypeStep
<1>3. QED
  BY <1>1, <1>2, PTL DEF StreamSpec

-----------------------------------------------------------------------------
(* Streams, approvals, logins and runs of an agent together                *)

(* What is proved of each by itself holds when one of them moves at a      *)
(* time.                                                                   *)
THEOREM LiveIsParts == LiveSpec => StreamSpec /\ ApprovalSpec /\ LoginSpec /\ RunnersSpec
<1>1. LiveInit => StreamInit /\ ApprovalInit /\ LoginInit /\ RunnersInit
  BY DEF LiveInit
<1>2. [LiveNext]_liveVars =>
      [StreamNext]_allVars /\ [ApprovalNext]_approvalVars /\ [LoginNext]_loginVars /\ [RunnersNext]_runnerVars
  BY DEF LiveNext, liveVars
<1>3. QED
  BY <1>1, <1>2, PTL DEF LiveSpec, StreamSpec, ApprovalSpec, LoginSpec, RunnersSpec

(* Whichever of them moves, every variable of it keeps its type.           *)
THEOREM LiveTyped == LiveSpec => []LiveTypeOK
<1>1. StreamTyped /\ ApprovalTypeOK /\ LoginTypeOK /\ RunnersTypeOK => LiveTypeOK
  BY DEF LiveTypeOK, StreamTyped
<1>2. QED
  BY <1>1, LiveIsParts, StreamTypes, ApprovalTypeCorrect, CredentialsLeave, ChildrenGone, PTL
===============================================================================
