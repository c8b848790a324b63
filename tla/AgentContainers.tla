---------------------------- MODULE AgentContainers ----------------------------
(***************************************************************************)
(* What the agents of a company may touch: company/start.post.ts resolves  *)
(* specs and secrets, capability-to-docker.js turns a spec into the flags  *)
(* of `docker run`, hermes-docker.js runs one container per dispatch, or   *)
(* one that lasts and in which each dispatch is a `docker exec`.           *)
(*                                                                         *)
(* One company, whose starts follow each other (CompanyManager has those   *)
(* that overlap).  The LLM credentials of a role are in LlmRouting.        *)
(***************************************************************************)
EXTENDS Naturals, FiniteSets

CONSTANTS
  Agents, Lasting,    \* roles, and those of runner_type persistent
  AgentSpecs,         \* what a spec may say: [caps, secrets]
  SecretKeys, OpsKey, \* env names, and COMPANY_OPS_TOKEN, which a spec may declare as well
  MaxBoots, MaxSpecEdits   \* starts; edits of specs and secrets (bound the model)
ASSUME ContainerAssumption ==
  /\ Lasting \subseteq Agents /\ OpsKey \in SecretKeys /\ MaxBoots \in Nat /\ MaxSpecEdits \in Nat
  /\ \A s \in AgentSpecs : s.secrets \subseteq SecretKeys

VARIABLES
  agentSpec,   \* .specify/org/agents: a spec, or NoSpec
  defined,     \* the secrets of the organisation and the project that have a value
  boot,        \* the start or the runtime: [at, number, checked, secrets, specs, todo]
  container,   \* the containers that last: what they were given, or NoContainer
  jobs,        \* dispatches that execute: [agent, number, in]
  specEdits,
  left,        \* history: starts that failed or died, or whose containers could not be removed
  edited       \* history: a spec was edited between the two reads of the last start
containerVars == <<agentSpec, defined, boot, container, jobs, specEdits, left, edited>>

Scopes == {"org", "project"}
NoSpec == [caps |-> {"none"}, secrets |-> {}]
NoValue == <<"unset">>
SecretOf(scope) == <<"secret", scope>>
TokenOf(n) == <<"token", n>>
NoContainer == [born |-> 0, mount |-> "none", network |-> FALSE, env |-> [k \in SecretKeys |-> NoValue]]
Present(specs) == {a \in Agents : specs[a] # NoSpec}

\* capabilityFlags.  The catch-all of a class counts as its strongest member.
RefusesToRun(caps) == "privileged" \in caps
MountOf(caps) ==
  IF caps \cap {"filesystem:write", "filesystem:any"} # {} THEN "rw"
  ELSE IF "filesystem:read" \in caps THEN "ro" ELSE "none"
HasNetwork(caps) == caps \cap {"network:http", "network:fetch", "network:any"} # {}
\* secretsResolver: the platform's own variables, then the declared ones that have a value.
EnvOf(n, spec, secrets) ==
  [k \in SecretKeys |-> IF k \in spec.secrets /\ secrets[k] # NoValue THEN secrets[k]
                        ELSE IF k = OpsKey THEN TokenOf(n) ELSE NoValue]
Grants(n, spec, secrets) ==
  [born |-> n, mount |-> MountOf(spec.caps), network |-> HasNetwork(spec.caps), env |-> EnvOf(n, spec, secrets)]
\* { ...orgSecrets, ...projectSecrets }
Merged == [k \in SecretKeys |-> IF k \in defined["project"] THEN SecretOf("project")
                                ELSE IF k \in defined["org"] THEN SecretOf("org") ELSE NoValue]

ContainerInit ==
  /\ agentSpec \in [Agents -> AgentSpecs]
  /\ defined = [s \in Scopes |-> {}]
  /\ boot = [at |-> "idle", number |-> 0, checked |-> agentSpec,
             secrets |-> [k \in SecretKeys |-> NoValue], specs |-> agentSpec, todo |-> {}]
  /\ container = [a \in Lasting |-> NoContainer]
  /\ jobs = {} /\ specEdits = 0 /\ left = {} /\ edited = FALSE

-------------------------------------------------------------------------------
\* Somebody edits a spec, or sets or deletes a secret.
EditSpec(a) ==
  /\ specEdits < MaxSpecEdits /\ specEdits' = specEdits + 1
  /\ \E s \in AgentSpecs \cup {NoSpec} : s # agentSpec[a] /\ agentSpec' = [agentSpec EXCEPT ![a] = s]
  /\ edited' = (edited \/ boot.at \in {"loaded", "checked"})
  /\ UNCHANGED <<defined, boot, container, jobs, left>>
SetOrDeleteSecret(scope, k) ==
  /\ specEdits < MaxSpecEdits /\ specEdits' = specEdits + 1
  /\ defined' = [defined EXCEPT ![scope] = IF k \in @ THEN @ \ {k} ELSE @ \cup {k}]
  /\ UNCHANGED <<agentSpec, boot, container, jobs, left, edited>>

\* start.post.ts.
Leave(n) == left' = left \cup {n}
BootFails == boot' = [boot EXCEPT !.at = "idle", !.todo = {}] /\ Leave(boot.number)
LoadSpecs ==
  /\ boot.at = "idle" /\ boot.number < MaxBoots /\ Present(agentSpec) # {}
  /\ boot' = [boot EXCEPT !.at = "loaded", !.number = @ + 1, !.checked = agentSpec]
  /\ edited' = FALSE
  /\ UNCHANGED <<agentSpec, defined, container, jobs, specEdits, left>>

Missing(secrets) == \E a \in Present(boot.checked) : \E k \in boot.checked[a].secrets : secrets[k] = NoValue
\* A mutant of CheckSecrets: what is missing is only reported.
CheckSecretsAnyway ==
  /\ boot.at = "loaded" /\ boot' = [boot EXCEPT !.at = "checked", !.secrets = Merged]
  /\ UNCHANGED <<agentSpec, defined, container, jobs, specEdits, left, edited>>
CheckSecrets ==
  /\ boot.at = "loaded"
  /\ IF Missing(Merged) THEN BootFails
     ELSE boot' = [boot EXCEPT !.at = "checked", !.secrets = Merged] /\ UNCHANGED left
  /\ UNCHANGED <<agentSpec, defined, container, jobs, specEdits, edited>>

\* CompanyRuntime.start reads the specs again.  A role that was not there the first
\* time has no queue and no image; images, the network or the catalog may fail.
LoadCompany ==
  /\ boot.at = "checked"
  /\ \/ BootFails
     \/ /\ Present(agentSpec) # {} /\ Present(agentSpec) \subseteq Present(boot.checked)
        /\ boot' = [boot EXCEPT !.at = "booting", !.specs = agentSpec, !.todo = Lasting \cap Present(agentSpec)]
        /\ UNCHANGED left
  /\ UNCHANGED <<agentSpec, defined, container, jobs, specEdits, edited>>
\* startPersistent: one that runs is taken as it is.
StartPersistent(a) ==
  /\ boot.at = "booting" /\ a \in boot.todo
  /\ \/ /\ container[a] # NoContainer
        /\ boot' = [boot EXCEPT !.todo = @ \ {a}] /\ UNCHANGED <<container, left>>
     \/ /\ container[a] = NoContainer /\ ~RefusesToRun(boot.specs[a].caps)
        /\ container' = [container EXCEPT ![a] = Grants(boot.number, boot.specs[a], boot.secrets)]
        /\ boot' = [boot EXCEPT !.todo = @ \ {a}] /\ UNCHANGED left
     \/ container[a] = NoContainer /\ BootFails /\ UNCHANGED container
  /\ UNCHANGED <<agentSpec, defined, jobs, specEdits, edited>>
RuntimeIsUp ==
  /\ boot.at = "booting" /\ boot.todo = {} /\ boot' = [boot EXCEPT !.at = "up"]
  /\ UNCHANGED <<agentSpec, defined, container, jobs, specEdits, left, edited>>

\* execute(): a refused capability, or a container that is gone, is an error.
Execute(a) ==
  /\ boot.at = "up" /\ a \in Present(boot.specs)
  /\ ~\E j \in jobs : j.agent = a /\ j.number = boot.number
  /\ IF a \in Lasting THEN container[a] # NoContainer ELSE ~RefusesToRun(boot.specs[a].caps)
  /\ jobs' = jobs \cup {[agent |-> a, number |-> boot.number,
                         in |-> IF a \in Lasting THEN container[a]
                                ELSE Grants(boot.number, boot.specs[a], boot.secrets)]}
  /\ UNCHANGED <<agentSpec, defined, boot, container, specEdits, left, edited>>
JobEnds(j) ==
  /\ jobs' = jobs \ {j}
  /\ UNCHANGED <<agentSpec, defined, boot, container, specEdits, left, edited>>

\* stop(): the pollers, then the containers.  What `docker rm` answers is ignored.
StopRuntime ==
  /\ boot.at = "up"
  /\ boot' = [boot EXCEPT !.at = "stopping", !.todo = Lasting \cap Present(boot.specs)]
  /\ UNCHANGED <<agentSpec, defined, container, jobs, specEdits, left, edited>>
\* A mutant of StopPersistent: a container that somebody uses is left alone.
StopPersistentUnused(a) ==
  /\ boot.at = "stopping" /\ a \in boot.todo /\ boot' = [boot EXCEPT !.todo = @ \ {a}]
  /\ container' = IF \E j \in jobs : j.agent = a THEN container ELSE [container EXCEPT ![a] = NoContainer]
  /\ UNCHANGED <<agentSpec, defined, jobs, specEdits, left, edited>>
StopPersistent(a) ==
  /\ boot.at = "stopping" /\ a \in boot.todo /\ boot' = [boot EXCEPT !.todo = @ \ {a}]
  /\ \/ /\ container' = [container EXCEPT ![a] = NoContainer]
        /\ jobs' = {j \in jobs : j.agent # a} /\ UNCHANGED left
     \/ UNCHANGED <<container, jobs>> /\ Leave(container[a].born)
  /\ UNCHANGED <<agentSpec, defined, specEdits, edited>>
RuntimeStopped ==
  /\ boot.at = "stopping" /\ boot.todo = {} /\ boot' = [boot EXCEPT !.at = "idle"]
  /\ UNCHANGED <<agentSpec, defined, container, jobs, specEdits, left, edited>>

\* The server dies, and docker goes on; a container ends by itself.
CrashServer ==
  /\ boot.at # "idle" /\ BootFails
  /\ UNCHANGED <<agentSpec, defined, container, jobs, specEdits, edited>>
ContainerDies(a) ==
  /\ container[a] # NoContainer /\ container' = [container EXCEPT ![a] = NoContainer]
  /\ jobs' = {j \in jobs : j.agent # a}
  /\ UNCHANGED <<agentSpec, defined, boot, specEdits, left, edited>>

ContainerNext ==
  \/ LoadSpecs \/ CheckSecrets \/ LoadCompany \/ RuntimeIsUp \/ StopRuntime \/ RuntimeStopped \/ CrashServer
  \/ \E a \in Agents : EditSpec(a) \/ Execute(a)
  \/ \E a \in Lasting : StartPersistent(a) \/ StopPersistent(a) \/ ContainerDies(a)
  \/ \E s \in Scopes, k \in SecretKeys : SetOrDeleteSecret(s, k)
  \/ \E j \in jobs : JobEnds(j)
ContainerSpec == ContainerInit /\ [][ContainerNext]_containerVars

-------------------------------------------------------------------------------
Values == {NoValue} \cup {SecretOf(s) : s \in Scopes} \cup {TokenOf(n) : n \in 1..MaxBoots}
GrantRecords == [born : 0..MaxBoots, mount : {"none", "ro", "rw"}, network : BOOLEAN, env : [SecretKeys -> Values]]
ContainerTypeOK ==
  /\ agentSpec \in [Agents -> AgentSpecs \cup {NoSpec}]
  /\ defined \in [Scopes -> SUBSET SecretKeys]
  /\ boot \in [at : {"idle", "loaded", "checked", "booting", "up", "stopping"}, number : 0..MaxBoots,
               checked : [Agents -> AgentSpecs \cup {NoSpec}], specs : [Agents -> AgentSpecs \cup {NoSpec}],
               secrets : [SecretKeys -> Values], todo : SUBSET Lasting]
  /\ container \in [Lasting -> GrantRecords]
  /\ \A j \in jobs : j.agent \in Agents /\ j.number \in 1..MaxBoots /\ j.in \in GrantRecords
  /\ specEdits \in 0..MaxSpecEdits /\ left \subseteq 0..MaxBoots /\ edited \in BOOLEAN

\* A dispatch executes with the grants of a runtime whose specs and secrets are not
\* the current one's only in a container of a start that failed or died, or that
\* could not be removed: an orderly stop leaves none to the next start, however
\* specs and secrets were edited.
GrantsAreCurrent ==
  boot.at = "up" => \A j \in jobs : j.number = boot.number /\ j.in.born \notin left =>
    /\ j.in.mount = "rw" => boot.specs[j.agent].caps \cap {"filesystem:write", "filesystem:any"} # {}
    /\ j.in.network => HasNetwork(boot.specs[j.agent].caps)
    /\ j.in.env[OpsKey] = TokenOf(boot.number) \/ OpsKey \in boot.specs[j.agent].secrets
\* And it has a value for every secret its spec declares, unless specs were edited
\* after the secrets were checked.
DeclaredSecretsAreThere ==
  boot.at = "up" /\ ~edited => \A j \in jobs : j.number = boot.number /\ j.in.born \notin left =>
    \A k \in boot.specs[j.agent].secrets : j.in.env[k] \in {SecretOf("org"), SecretOf("project")}
ContainersAreCurrent == GrantsAreCurrent /\ DeclaredSecretsAreThere
===============================================================================
