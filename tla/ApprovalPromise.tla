---------------------------- MODULE ApprovalPromise ----------------------------
(***************************************************************************)
(* What the capability gate and its approvals promise an organisation: an  *)
(* agent's use of a capability is allowed only if the agent is entitled to *)
(* it; a guarded use is allowed only after a person said so; each use gets *)
(* one outcome, which is final.  A use that waits is lost when the server  *)
(* dies, and fails when the request cannot be recorded.                    *)
(* CapabilityApproval is shown to implement this module.                   *)
(***************************************************************************)
CONSTANTS Requests, Uses, Entitled(_), Guarded(_)

VARIABLES
  use,       \* the use each request asks for: who holds which grants, what is wanted
  outcome,   \* how far each request is
  voice      \* whose word the outcome is
promiseVars == <<use, outcome, voice>>

PromiseInit ==
  /\ use \in [Requests -> Uses]
  /\ outcome = [r \in Requests |-> "none"]
  /\ voice = [r \in Requests |-> "none"]

Settle(r, o, v) ==
  /\ outcome' = [outcome EXCEPT ![r] = o]
  /\ voice' = [voice EXCEPT ![r] = v]
  /\ UNCHANGED use

\* The gate needs nobody's consent, or gives none itself.
Judge(r) ==
  /\ outcome[r] = "none"
  /\ \/ ~Entitled(use[r]) /\ Settle(r, "refused", "gate")
     \/ Entitled(use[r]) /\ ~Guarded(use[r]) /\ Settle(r, "allowed", "gate")
     \/ Entitled(use[r]) /\ Guarded(use[r]) /\ Settle(r, "waiting", "none")

\* A person answers: on the page, or in the client of the agent.
Answer(r) ==
  /\ outcome[r] = "waiting"
  /\ \E o \in {"allowed", "refused"}, v \in {"user", "acp"} : Settle(r, o, v)

\* Silence never allows anything.
Expire(r) == outcome[r] = "waiting" /\ Settle(r, "refused", "timeout")

Abandon(r) == outcome[r] = "waiting" /\ Settle(r, "failed", "none")

\* The server dies with everything that waits.
LoseAll ==
  /\ outcome' = [r \in Requests |-> IF outcome[r] = "waiting" THEN "lost" ELSE outcome[r]]
  /\ UNCHANGED <<use, voice>>

PromiseNext == LoseAll \/ \E r \in Requests : Judge(r) \/ Answer(r) \/ Expire(r) \/ Abandon(r)

PromiseSpec == PromiseInit /\ [][PromiseNext]_promiseVars
================================================================================
