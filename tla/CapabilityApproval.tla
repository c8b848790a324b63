-------------------------- MODULE CapabilityApproval --------------------------
(***************************************************************************)
(* An agent's use of a capability: the gate of src/core/capability-gate.js,*)
(* the approvals of src/core/capability-approval-service.js, and the       *)
(* handlers mcp/[slug]/authorize.post.ts and approvals/[id]/decide.post.ts.*)
(*                                                                         *)
(* A runtime owns one approval service.  A request waits in the service's  *)
(* `pending` map until the first of: a decision posted by a person, the    *)
(* answer of a connected ACP client, or the timer.  decide.post.ts finds a *)
(* request only through the registry of active companies, whereas timers   *)
(* and ACP clients outlive their company's registration.  An action is the *)
(* code between two awaits.  The timeout's value is not modelled: a timer  *)
(* may fire at any time.                                                   *)
(***************************************************************************)
EXTENDS Naturals, Sequences, FiniteSets

CONSTANTS
  Requests,   \* calls of authorize.post.ts
  Runtimes,   \* runtimes that may be registered, each of them once
  Uses,       \* uses of a capability: [grants, wants, policy, escalateTo, reportsTo]
  None        \* no value

Policies == {"deny", "retry-once", "escalate-to-ceo", "unknown"}
ASSUME ApprovalAssumption ==
  /\ Runtimes \cap {None} = {}
  /\ \A u \in Uses : /\ u.policy \in Policies
                     /\ u.wants \in [class : STRING, sub : STRING]
                     /\ u.grants \in Seq([class : STRING, sub : STRING])

VARIABLES
  use,        \* what each request asks for, an input
  owner,      \* the runtime whose service has the request
  stage,      \* how far requestApproval is for the request
  answer,     \* what authorizeWithApproval returned
  approvalTimers,  \* requests whose timer is armed
  asked,      \* requests an ACP client has been asked about and has not answered
  active,     \* runtimes: "new", in the registry ("on"), or out of it again ("off")
  appends,    \* events whose append nobody awaits and that are not on disk yet
  events      \* events on disk
requestVars == <<use, owner, stage, answer, approvalTimers, asked>>
approvalVars == <<use, owner, stage, answer, approvalTimers, asked, active, appends, events>>

Stages == {"idle", "logging", "pending", "answered", "failed", "lost"}
Unanswered == [decision |-> "none", by |-> "none", to |-> None]

-------------------------------------------------------------------------------
\* The gate.
Cap(c, s) == [class |-> c, sub |-> s]
SensitiveCapabilities == {Cap("payment", "execute_unrestricted"), Cap("secrets", "read_vault")}
IsSensitive(cap) == cap \in SensitiveCapabilities \/ cap.class = "account"

Covers(grant, cap) == grant = cap \/ (grant.class = cap.class /\ grant.sub = "any")
Covering(u) == {i \in DOMAIN u.grants : Covers(u.grants[i], u.wants)}
FindGrant(u) == u.grants[CHOOSE i \in Covering(u) : \A j \in Covering(u) : i <= j]

\* A mutant of CheckCapability: only the grant's sensitivity counts.
CheckGrantOnly(u) ==
  IF Covering(u) = {} THEN "forbidden" ELSE IF IsSensitive(FindGrant(u)) THEN "approval" ELSE "granted"

CheckCapability(u) ==
  IF Covering(u) = {} THEN "forbidden"
  ELSE IF IsSensitive(FindGrant(u)) \/ IsSensitive(u.wants) THEN "approval" ELSE "granted"

\* What an agent's grants mean, whatever their order.
Entitled(u) == \E i \in DOMAIN u.grants : Covers(u.grants[i], u.wants)
Guarded(u) == IsSensitive(u.wants)

\* The timeout policies and whom a timed-out request goes to.
DecisionForTimeout(policy) == IF policy = "escalate-to-ceo" THEN "escalated" ELSE "denied"
EscalationTarget(u) ==
  IF u.escalateTo # None THEN u.escalateTo
  ELSE IF u.reportsTo # None THEN u.reportsTo ELSE "ceo"

-------------------------------------------------------------------------------
ApprovalInit ==
  /\ use \in [Requests -> Uses]
  /\ owner = [r \in Requests |-> None]
  /\ stage = [r \in Requests |-> "idle"]
  /\ answer = [r \in Requests |-> Unanswered]
  /\ approvalTimers = {} /\ asked = {} /\ appends = {} /\ events = {}
  /\ active = [k \in Runtimes |-> "new"]

Register(k) ==
  /\ active[k] = "new" /\ active' = [active EXCEPT ![k] = "on"]
  /\ UNCHANGED <<requestVars, appends, events>>
Deregister(k) ==
  /\ active[k] = "on" /\ active' = [active EXCEPT ![k] = "off"]
  /\ UNCHANGED <<requestVars, appends, events>>

\* authorize.post.ts: the token names a registered runtime, whose gate answers
\* at once or whose service begins to record the request.
Authorize(r, k) ==
  /\ stage[r] = "idle" /\ active[k] = "on"
  /\ owner' = [owner EXCEPT ![r] = k]
  /\ LET verdict == CheckCapability(use[r]) IN
       /\ stage' = [stage EXCEPT ![r] = IF verdict = "approval" THEN "logging" ELSE "answered"]
       /\ answer' = [answer EXCEPT ![r] =
            IF verdict = "approval" THEN @ ELSE [decision |-> verdict, by |-> "gate", to |-> None]]
  /\ UNCHANGED <<use, approvalTimers, asked, active, appends, events>>

\* A mutant of Enter: without its timer.
EnterUntimed(r) ==
  /\ stage[r] = "logging"
  /\ events' = events \cup {[request |-> r, type |-> "approval_requested", decision |-> "none"]}
  /\ stage' = [stage EXCEPT ![r] = "pending"] /\ asked' = asked \cup {r}
  /\ UNCHANGED <<use, owner, answer, approvalTimers, active, appends>>

\* The append has ended: the channels are told, the ACP client is asked, the
\* timer is armed and the request entered into `pending`, in one turn.
Enter(r) ==
  /\ stage[r] = "logging"
  /\ events' = events \cup {[request |-> r, type |-> "approval_requested", decision |-> "none"]}
  /\ stage' = [stage EXCEPT ![r] = "pending"]
  /\ approvalTimers' = approvalTimers \cup {r}
  /\ asked' = asked \cup {r}
  /\ UNCHANGED <<use, owner, answer, active, appends>>

\* The append fails, and so does the agent's call.
EnterFails(r) ==
  /\ stage[r] = "logging"
  /\ stage' = [stage EXCEPT ![r] = "failed"]
  /\ UNCHANGED <<use, owner, answer, approvalTimers, asked, active, appends, events>>

\* Leave `pending` with an answer; the event is written behind its back.
Close(r, type, d, by, to) ==
  /\ stage' = [stage EXCEPT ![r] = "answered"]
  /\ approvalTimers' = approvalTimers \ {r}
  /\ answer' = [answer EXCEPT ![r] = [decision |-> d, by |-> by, to |-> to]]
  /\ appends' = appends \cup {[request |-> r, type |-> type, decision |-> d]}

\* A mutant of Resolve: whatever has become of the request.
ResolveAnyway(r, d, by) == Close(r, "approval_decided", d, by, None)

\* service.resolve: false, and nothing else, unless the request is pending.
Resolve(r, d, by) ==
  IF stage[r] = "pending" THEN Close(r, "approval_decided", d, by, None)
  ELSE UNCHANGED <<stage, approvalTimers, answer, appends>>

\* decide.post.ts: looks the request up in the registered runtimes and resolves
\* it in the same turn.
Decide(r, d) ==
  /\ owner[r] # None /\ active[owner[r]] = "on" /\ stage[r] = "pending"
  /\ Resolve(r, d, "user")
  /\ UNCHANGED <<use, owner, asked, active, events>>

\* The ACP client answers, has no opinion, or fails.
TransportAnswers(r, d) ==
  /\ r \in asked /\ asked' = asked \ {r}
  /\ IF d \in {"approved", "denied"} THEN Resolve(r, d, "acp")
     ELSE UNCHANGED <<stage, approvalTimers, answer, appends>>
  /\ UNCHANGED <<use, owner, active, events>>

TimerFires(r) ==
  /\ r \in approvalTimers
  /\ IF stage[r] = "pending"
     THEN LET d == DecisionForTimeout(use[r].policy) IN
            Close(r, "approval_timeout", d, "timeout",
                  IF d = "escalated" THEN EscalationTarget(use[r]) ELSE None)
     ELSE approvalTimers' = approvalTimers \ {r} /\ UNCHANGED <<stage, answer, appends>>
  /\ UNCHANGED <<use, owner, asked, active, events>>

\* An append ends, well or not; its failure is only emitted.
LandEvent(e) ==
  /\ e \in appends /\ appends' = appends \ {e}
  /\ events' \in {events, events \cup {e}}
  /\ UNCHANGED <<requestVars, active>>

\* The server dies: its promises, timers and unfinished appends are gone.
CrashApprovals ==
  /\ active' = [k \in Runtimes |-> IF active[k] = "on" THEN "off" ELSE active[k]]
  /\ stage' = [r \in Requests |-> IF stage[r] \in {"logging", "pending"} THEN "lost" ELSE stage[r]]
  /\ approvalTimers' = {} /\ asked' = {} /\ appends' = {}
  /\ UNCHANGED <<use, owner, answer, events>>

RequestStep(r) ==
  \/ \E k \in Runtimes : Authorize(r, k)
  \/ Enter(r) \/ EnterFails(r) \/ TimerFires(r)
  \/ \E d \in {"approved", "denied", "escalated"} : Decide(r, d)
  \/ \E d \in {"approved", "denied", "undefined"} : TransportAnswers(r, d)
ApprovalNext ==
  \/ \E r \in Requests : RequestStep(r)
  \/ \E k \in Runtimes : Register(k) \/ Deregister(k)
  \/ \E e \in appends : LandEvent(e)
  \/ CrashApprovals

ApprovalSpec == ApprovalInit /\ [][ApprovalNext]_approvalVars
\* Appends end and timers fire; nobody else has to do anything.
ApprovalFairness ==
  \A r \in Requests : /\ WF_approvalVars(Enter(r) \/ EnterFails(r))
                      /\ WF_approvalVars(TimerFires(r))

-------------------------------------------------------------------------------
EventType == [request : Requests, type : {"approval_requested", "approval_decided", "approval_timeout"},
              decision : {"none", "approved", "denied", "escalated"}]

ApprovalTypeOK ==
  /\ use \in [Requests -> Uses] /\ owner \in [Requests -> Runtimes \cup {None}]
  /\ stage \in [Requests -> Stages]
  /\ DOMAIN answer = Requests
  /\ \A r \in Requests :
       /\ answer[r].decision \in {"none", "granted", "forbidden", "approved", "denied", "escalated"}
       /\ answer[r].by \in {"none", "gate", "user", "acp", "timeout"}
  /\ approvalTimers \subseteq Requests /\ asked \subseteq Requests
  /\ active \in [Runtimes -> {"new", "on", "off"}]
  /\ appends \subseteq EventType /\ events \subseteq EventType

\* The outcome of a request as ApprovalPromise sees it: "escalated" refuses the
\* use, as authorizeWithApproval does.
Outcome(r) ==
  CASE stage[r] = "idle" -> "none"
    [] stage[r] \in {"logging", "pending"} -> "waiting"
    [] stage[r] = "answered" ->
         IF answer[r].decision \in {"granted", "approved"} THEN "allowed" ELSE "refused"
    [] OTHER -> stage[r]

Promise == INSTANCE ApprovalPromise WITH
  outcome <- [r \in Requests |-> Outcome(r)],
  voice <- [r \in Requests |-> answer[r].by]

\* A request is answered once and for good: by the gate, which looks at the
\* first grant that matches, exactly as the set of grants says; and otherwise
\* by a person or, with a refusal, by the timer, whichever comes first.
ImplementsPromise == Promise!PromiseSpec

\* The record on disk and on its way there agrees with what the agent was told:
\* one ending at most, of a recorded request, with the decision that was given.
RecordMatchesAnswer ==
  \A e \in events \cup appends : e.type # "approval_requested" =>
    /\ stage[e.request] = "answered" /\ answer[e.request].decision = e.decision
    /\ answer[e.request].by = "timeout" <=> e.type = "approval_timeout"
    /\ \A f \in events \cup appends :
         f.request = e.request /\ f.type # "approval_requested" => f = e
    /\ \E f \in events : f.request = e.request /\ f.type = "approval_requested"

\* An agent that waits for an approval is answered, though nobody decides, its
\* company is stopped, or the client never answers; unless the server dies.
EveryRequestAnswered ==
  \A r \in Requests :
    stage[r] \in {"logging", "pending"} ~> stage[r] \in {"answered", "failed", "lost"}
===============================================================================
