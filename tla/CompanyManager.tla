---------------------------- MODULE CompanyManager ----------------------------
(***************************************************************************)
(* Starting and stopping companies: company/start.post.ts, stop.post.ts,   *)
(* the registry of server/shared/utils/company-manager.ts, the network of  *)
(* src/runners/company-network.js and the persistent containers of         *)
(* src/runners/hermes-docker.js.                                           *)
(*                                                                         *)
(* A runtime is named by the start that builds it.  Registry and `starting`*)
(* are maps of the process; networks and containers are docker's and       *)
(* survive it.  A network is named by the company, a container only by the *)
(* project slug and the role.  An action is the code between two awaits.   *)
(***************************************************************************)
EXTENDS Naturals, FiniteSets

CONSTANTS
  Companies,    \* an organisation's project: the registry's keys
  SlugOf,       \* its slug, which another organisation's project may share
  Roles,        \* the roles with a persistent container
  Starts, Stops,
  Nobody        \* no runtime

Slugs == {SlugOf[c] : c \in Companies}
ASSUME ManagerAssumption ==
  /\ SlugOf \in [Companies -> Slugs] /\ Nobody \notin Starts
  /\ Starts \cap Stops = {}

VARIABLES
  calm,      \* do clients wait for an answer before the next request about a company
  about,     \* the company a request is about
  phase,     \* where a request stands
  target,    \* the runtime a stop request stops
  todo,      \* roles whose container is still to be started or removed
  role,      \* the role whose container is being started, or Nobody
  registry, starting,
  polling,   \* runtimes with open pollers
  reaped,    \* runtimes replaced in the registry, whose stop nobody awaits
  net,       \* docker networks: "none", "bare" (without its peers), "joined"
  box,       \* the runtime that ran the container of a slug and role
  orphans,   \* history: runtimes with a poller open when another failed to start
  kept       \* history: companies whose network could not be removed, or lost its server
handlerVars == <<about, phase, target, todo, role>>
managerVars == <<calm, handlerVars, registry, starting, polling, reaped, net, box, orphans, kept>>

Handlers == Starts \cup Stops
Boxes == Slugs \X Roles
BoxOf(h, r) == <<SlugOf[about[h]], r>>
At(h, place) == phase[h] = place
Goto(h, place) == phase' = [phase EXCEPT ![h] = place]
Busy(c) == \E h \in Handlers : ~At(h, "idle") /\ ~At(h, "done") /\ about[h] = c
\* A network in use cannot be removed.
InUse(c) == \E b \in Boxes : box[b] # Nobody /\ about[box[b]] = c

ManagerInit ==
  /\ calm \in BOOLEAN
  /\ about \in [Handlers -> Companies]
  /\ phase = [h \in Handlers |-> "idle"]
  /\ target = [h \in Stops |-> Nobody]
  /\ todo = [h \in Handlers |-> {}]
  /\ role = [s \in Starts |-> Nobody]
  /\ registry = [c \in Companies |-> Nobody] /\ starting = {}
  /\ polling = {} /\ reaped = [s \in Starts |-> "no"]
  /\ net = [c \in Companies |-> "none"]
  /\ box = [b \in Boxes |-> Nobody]
  /\ orphans = {} /\ kept = {}

-------------------------------------------------------------------------------
\* start.post.ts answers 409, or reads the organisation's state; the mark that
\* excludes another start comes after that.
StartRequest(s) ==
  /\ At(s, "idle") /\ (calm => ~Busy(about[s]))
  /\ IF registry[about[s]] # Nobody \/ about[s] \in starting
     THEN Goto(s, "done") ELSE Goto(s, "checked")
  /\ UNCHANGED <<calm, about, target, todo, role, registry, starting, polling, reaped, net, box, orphans, kept>>

MarkStarting(s) ==
  /\ At(s, "checked")
  /\ \/ Goto(s, "loading") /\ starting' = starting \cup {about[s]}
     \/ Goto(s, "done") /\ UNCHANGED starting    \* 503: the vault is not ready
  /\ UNCHANGED <<calm, about, target, todo, role, registry, polling, reaped, net, box, orphans, kept>>

\* Specs, profiles, secrets and images, each with an early return into the finally.
Preflight(s) ==
  /\ At(s, "loading")
  /\ \/ Goto(s, "inspecting") /\ UNCHANGED starting
     \/ Goto(s, "done") /\ starting' = starting \ {about[s]}
  /\ UNCHANGED <<calm, about, target, todo, role, registry, polling, reaped, net, box, orphans, kept>>

\* ensureCompanyNetwork: inspect, create unless it was seen, connect the peers.
InspectNetwork(s) ==
  /\ At(s, "inspecting")
  /\ Goto(s, IF net[about[s]] = "none" THEN "creating" ELSE "joining")
  /\ UNCHANGED <<calm, about, target, todo, role, registry, starting, polling, reaped, net, box, orphans, kept>>
CreateNetwork(s) ==
  /\ At(s, "creating")
  /\ \/ /\ net[about[s]] = "none" /\ Goto(s, "joining")
        /\ net' = [net EXCEPT ![about[s]] = "bare"] /\ UNCHANGED starting
     \/ Goto(s, "done") /\ starting' = starting \ {about[s]} /\ UNCHANGED net
  /\ UNCHANGED <<calm, about, target, todo, role, registry, polling, reaped, box, orphans, kept>>
ConnectPeers(s) ==
  /\ At(s, "joining") /\ Goto(s, "booting")
  /\ net' = [net EXCEPT ![about[s]] = IF @ = "none" THEN @ ELSE "joined"]
  /\ todo' = [todo EXCEPT ![s] = Roles]
  /\ UNCHANGED <<calm, about, target, role, registry, starting, polling, reaped, box, orphans, kept>>

\* runtime.start() up to its pollers: a container that runs is taken as it is;
\* any other of that name is removed before a new one is run.
InspectBox(s) ==
  /\ At(s, "booting")
  /\ \E r \in todo[s] :
       IF box[BoxOf(s, r)] # Nobody
       THEN todo' = [todo EXCEPT ![s] = @ \ {r}] /\ UNCHANGED <<phase, role>>
       ELSE Goto(s, "clearing") /\ role' = [role EXCEPT ![s] = r] /\ UNCHANGED todo
  /\ UNCHANGED <<calm, about, target, registry, starting, polling, reaped, net, box, orphans, kept>>
RemoveStaleBox(s) ==
  /\ At(s, "clearing") /\ Goto(s, "running")
  /\ box' = [box EXCEPT ![BoxOf(s, role[s])] = Nobody]
  /\ UNCHANGED <<calm, about, target, todo, role, registry, starting, polling, reaped, net, orphans, kept>>
RunBox(s) ==
  /\ At(s, "running") /\ box[BoxOf(s, role[s])] = Nobody /\ net[about[s]] # "none"
  /\ box' = [box EXCEPT ![BoxOf(s, role[s])] = s]
  /\ todo' = [todo EXCEPT ![s] = @ \ {role[s]}]
  /\ Goto(s, "booting")
  /\ UNCHANGED <<calm, about, target, role, registry, starting, polling, reaped, net, orphans, kept>>
OpenPollers(s) ==
  /\ At(s, "booting") /\ todo[s] = {} /\ s \notin polling
  /\ polling' = polling \cup {s}
  /\ UNCHANGED <<calm, handlerVars, registry, starting, reaped, net, box, orphans, kept>>

\* A mutant of BootFails: the network is left to the next start.
BootFailsUnplugged(s) ==
  /\ phase[s] \in {"booting", "running"} /\ Goto(s, "done")
  /\ starting' = starting \ {about[s]}
  /\ orphans' = IF s \in polling THEN orphans \cup {s} ELSE orphans
  /\ UNCHANGED <<calm, about, target, todo, role, registry, polling, reaped, net, box, kept>>

\* runtime.start() throws, which nobody answers with runtime.stop(): containers
\* and pollers it has opened stay.
BootFails(s) ==
  /\ phase[s] \in {"booting", "running"} /\ Goto(s, "unplugging")
  /\ starting' = starting \ {about[s]}
  /\ orphans' = IF s \in polling THEN orphans \cup {s} ELSE orphans
  /\ UNCHANGED <<calm, about, target, todo, role, registry, polling, reaped, net, box, kept>>

\* registerCompany: a runtime it replaces is stopped, unawaited.
RegisterCompany(s) ==
  /\ At(s, "booting") /\ s \in polling /\ Goto(s, "sentinel")
  /\ registry' = [registry EXCEPT ![about[s]] = s]
  /\ LET old == registry[about[s]] IN
       reaped' = IF old = Nobody THEN reaped ELSE [reaped EXCEPT ![old] = "pollers"]
  /\ UNCHANGED <<calm, about, target, todo, role, starting, polling, net, box, orphans, kept>>
FinishStart(s) ==
  /\ At(s, "sentinel") /\ Goto(s, "done")
  /\ starting' = starting \ {about[s]}
  /\ UNCHANGED <<calm, about, target, todo, role, registry, polling, reaped, net, box, orphans, kept>>

-------------------------------------------------------------------------------
\* runtime.stop() has been through the runtime's containers once.
Emptied(k) ==
  reaped[k] = "done" \/ \E q \in Stops : target[q] = k /\ phase[q] \in {"unplugging", "removing", "done"}

\* A mutant of StopRequest: the company is deregistered first.
StopRequestDeregisters(q) ==
  /\ At(q, "idle") /\ (calm => ~Busy(about[q]))
  /\ Goto(q, IF registry[about[q]] = Nobody THEN "done" ELSE "draining")
  /\ target' = [target EXCEPT ![q] = registry[about[q]]]
  /\ registry' = [registry EXCEPT ![about[q]] = Nobody]
  /\ UNCHANGED <<calm, about, todo, role, starting, polling, reaped, net, box, orphans, kept>>

\* stop.post.ts: 404, or runtime.stop(), deregistration and the network.
StopRequest(q) ==
  /\ At(q, "idle") /\ (calm => ~Busy(about[q]))
  /\ Goto(q, IF registry[about[q]] = Nobody THEN "done" ELSE "draining")
  /\ target' = [target EXCEPT ![q] = registry[about[q]]]
  /\ UNCHANGED <<calm, about, todo, role, registry, starting, polling, reaped, net, box, orphans, kept>>
StopPollers(q) ==
  /\ At(q, "draining") /\ Goto(q, "emptying")
  /\ polling' = polling \ {target[q]}
  /\ todo' = [todo EXCEPT ![q] = Roles]
  /\ UNCHANGED <<calm, about, target, role, registry, starting, reaped, net, box, orphans, kept>>
StopBox(q) ==
  /\ At(q, "emptying") /\ ~Emptied(target[q])
  /\ \E r \in todo[q] : /\ todo' = [todo EXCEPT ![q] = @ \ {r}]
                        /\ box' = [box EXCEPT ![BoxOf(q, r)] = Nobody]
  /\ UNCHANGED <<calm, about, phase, target, role, registry, starting, polling, reaped, net, orphans, kept>>
DeregisterCompany(q) ==
  /\ At(q, "emptying") /\ (todo[q] = {} \/ Emptied(target[q])) /\ Goto(q, "unplugging")
  /\ registry' = [registry EXCEPT ![about[q]] = Nobody]
  /\ UNCHANGED <<calm, about, target, todo, role, starting, polling, reaped, net, box, orphans, kept>>

\* removeCompanyNetwork, of a stop or of a start that failed.
DisconnectPeers(h) ==
  /\ At(h, "unplugging") /\ Goto(h, "removing")
  /\ net' = [net EXCEPT ![about[h]] = IF @ = "none" THEN @ ELSE "bare"]
  /\ UNCHANGED <<calm, about, target, todo, role, registry, starting, polling, reaped, box, orphans, kept>>
RemoveNetwork(h) ==
  /\ At(h, "removing") /\ Goto(h, "done")
  /\ IF net[about[h]] = "joined" \/ InUse(about[h])
     THEN kept' = kept \cup {about[h]} /\ UNCHANGED net
     ELSE net' = [net EXCEPT ![about[h]] = "none"] /\ UNCHANGED kept
  /\ UNCHANGED <<calm, about, target, todo, role, registry, starting, polling, reaped, box, orphans>>

\* The stop of a replaced runtime: its pollers, then the containers by name.
ReapPollers(s) ==
  /\ reaped[s] = "pollers" /\ reaped' = [reaped EXCEPT ![s] = "boxes"]
  /\ polling' = polling \ {s}
  /\ UNCHANGED <<calm, handlerVars, registry, starting, net, box, orphans, kept>>
ReapBoxes(s) ==
  /\ reaped[s] = "boxes" /\ reaped' = [reaped EXCEPT ![s] = "done"]
  /\ box' = [b \in Boxes |-> IF b[1] = SlugOf[about[s]] THEN Nobody ELSE box[b]]
  /\ UNCHANGED <<calm, handlerVars, registry, starting, polling, net, orphans, kept>>

\* A container ends by itself.
BoxDies(b) ==
  /\ box[b] # Nobody /\ box' = [box EXCEPT ![b] = Nobody]
  /\ UNCHANGED <<calm, handlerVars, registry, starting, polling, reaped, net, orphans, kept>>

\* The server dies: docker goes on.
CrashManager ==
  /\ phase' = [h \in Handlers |-> IF At(h, "idle") THEN "idle" ELSE "done"]
  /\ registry' = [c \in Companies |-> Nobody] /\ starting' = {}
  /\ polling' = {} /\ reaped' = [s \in Starts |-> "no"] /\ orphans' = {}
  /\ kept' = Companies
  /\ UNCHANGED <<calm, about, target, todo, role, net, box>>

StartStep(s) ==
  \/ StartRequest(s) \/ MarkStarting(s) \/ Preflight(s)
  \/ InspectNetwork(s) \/ CreateNetwork(s) \/ ConnectPeers(s)
  \/ InspectBox(s) \/ RemoveStaleBox(s) \/ RunBox(s) \/ OpenPollers(s)
  \/ BootFails(s) \/ RegisterCompany(s) \/ FinishStart(s)
  \/ ReapPollers(s) \/ ReapBoxes(s)
StopStep(q) == StopRequest(q) \/ StopPollers(q) \/ StopBox(q) \/ DeregisterCompany(q)

ManagerNext ==
  \/ \E s \in Starts : StartStep(s)
  \/ \E q \in Stops : StopStep(q)
  \/ \E h \in Handlers : DisconnectPeers(h) \/ RemoveNetwork(h)
  \/ \E b \in Boxes : BoxDies(b)
  \/ CrashManager
ManagerSpec == ManagerInit /\ [][ManagerNext]_managerVars

-------------------------------------------------------------------------------
Places == {"idle", "checked", "loading", "inspecting", "creating", "joining", "booting", "clearing",
           "running", "sentinel", "draining", "emptying", "unplugging", "removing", "done"}
ManagerTypeOK ==
  /\ calm \in BOOLEAN /\ about \in [Handlers -> Companies]
  /\ phase \in [Handlers -> Places] /\ target \in [Stops -> Starts \cup {Nobody}]
  /\ todo \in [Handlers -> SUBSET Roles] /\ role \in [Starts -> Roles \cup {Nobody}]
  /\ registry \in [Companies -> Starts \cup {Nobody}] /\ starting \subseteq Companies
  /\ polling \subseteq Starts /\ orphans \subseteq Starts /\ kept \subseteq Companies
  /\ reaped \in [Starts -> {"no", "pollers", "boxes", "done"}]
  /\ net \in [Companies -> {"none", "bare", "joined"}]
  /\ box \in [Boxes -> Starts \cup {Nobody}]

\* When clients wait for answers, a runtime that takes tasks is the registered
\* one of its company, or on its way there; but for a start that failed
\* between two pollers, nothing polls that no stop can reach.
RuntimesAreReachable ==
  calm => \A s \in polling :
    registry[about[s]] = s \/ At(s, "booting") \/ s \in orphans

\* When clients wait for answers, the network of a running company is there
\* with the server and the proxy attached, and a start that failed and a stop
\* leave none behind, unless docker refused to remove it or the server died.
NetworkFollowsCompany ==
  calm => \A c \in Companies :
    IF registry[c] # Nobody THEN net[c] = "joined"
    ELSE ~Busy(c) /\ c \notin kept => net[c] = "none"

\* What runs for a company is what the registry says, and nothing beside it.
CompaniesAreWhole == RuntimesAreReachable /\ NetworkFollowsCompany
===============================================================================
