-------------------------------- MODULE MCLive --------------------------------
(***************************************************************************)
(* An instance for the run of the components that wait for something:      *)
(* streams of turns, approvals, logins, runs of an agent.  They share no   *)
(* variable, so they are explored one at a time: `part` says which one     *)
(* moves, while the others stay in an initial state.                       *)
(***************************************************************************)
EXTENDS TurnStream, CapabilityApproval, OAuthLogin, AgentRunners

CONSTANTS Parts

VARIABLE part
liveVars == <<part, allVars, approvalVars, loginVars, runnerVars>>

UseOf(grants, wants, policy, to) ==
  [grants |-> grants, wants |-> wants, policy |-> policy, escalateTo |-> to, reportsTo |-> None]
Pay == Cap("payment", "execute_unrestricted")
MCUses ==
  {UseOf(<<>>, Pay, "deny", None),
   UseOf(<<Cap("payment", "any"), Pay>>, Pay, "escalate-to-ceo", "sec"),
   UseOf(<<Cap("account", "any")>>, Cap("account", "open"), "retry-once", None),
   UseOf(<<Cap("account", "any"), Cap("fs", "any")>>, Cap("fs", "write"), "deny", None)}

\* Bound of the run: a row whose cancellation is posted is deleted by that or by
\* the sweep of another start, not by a delete request.
DeletedOrCancelled == \A f \in Cancels : ~DeleteCredential(f)

LiveInit ==
  /\ part \in Parts
  /\ StreamInit /\ LoginInit
  /\ ApprovalInit /\ (part # "approvals" => use = [r \in Requests |-> CHOOSE u \in Uses : TRUE])
  /\ RunnersInit /\ (part # "runners" => \A r \in AgentRuns : RunnerOf(r) = "acp")

LiveNext ==
  /\ UNCHANGED part
  /\ \/ part = "turns" /\ StreamNext /\ UNCHANGED <<approvalVars, loginVars, runnerVars>>
     \/ part = "approvals" /\ ApprovalNext /\ UNCHANGED <<allVars, loginVars, runnerVars>>
     \/ part = "login" /\ LoginNext /\ DeletedOrCancelled /\ UNCHANGED <<allVars, approvalVars, runnerVars>>
     \/ part = "runners" /\ RunnersNext /\ UNCHANGED <<allVars, approvalVars, loginVars>>

\* The fair actions of a part are disabled in its initial states.
LiveSpec ==
  /\ LiveInit /\ [][LiveNext]_liveVars
  /\ StreamFairness /\ ApprovalFairness /\ LoginFairness /\ RunnersFairness

LiveTypeOK ==
  /\ part = "turns" => StreamTypeOK
  /\ part = "approvals" => ApprovalTypeOK
  /\ part = "login" => LoginTypeOK
  /\ part = "runners" => RunnersTypeOK

\* Nobody is left waiting for a child that was told to stop: neither the CLI of a
\* login that is over, nor an agent whose run was aborted or cancelled.
ChildrenAreStopped == ChildrenEnd /\ StoppedRunsEnd
===============================================================================
