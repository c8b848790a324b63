----------------------------- MODULE ProjectProofs -----------------------------
(* Theorems about what a project owns besides its queues, for every set of *)
(* agents, secrets, files, events and requests: AgentContainers,           *)
(* ProjectRepository, EventHistory and ProjectWorkflow.                    *)
EXTENDS MCProject, CompanyRuntimeProofs, FiniteSetTheorems,
        WellFoundedInduction, TLAPS

-----------------------------------------------------------------------------
(* AgentContainers: what the containers of a runtime were given            *)

SpecOrNone == AgentSpecs \cup {NoSpec}
BootPlaces == {"idle", "loaded", "checked", "booting", "up", "stopping"}
BootRecord == [at : BootPlaces, number : 0..MaxBoots,
               checked : [Agents -> SpecOrNone], specs : [Agents -> SpecOrNone],
               secrets : [SecretKeys -> Values], todo : SUBSET Lasting]
JobTyped(j) == j.agent \in Agents /\ j.number \in 1..MaxBoots /\ j.in \in GrantRecords

(* What a container of the role is given by the present start.             *)
Issued(a) == Grants(boot.number, boot.specs[a], boot.secrets)

(* A container that is nobody's leftover is of the present start, and an    *)
(* orderly stop will remove it.                                            *)
ContainerIsOwned(a) ==
  container[a] # NoContainer /\ container[a].born \notin left =>
    /\ boot.at \in {"booting", "up", "stopping"} /\ container[a] = Issued(a)
    /\ a \in Present(boot.specs) /\ (boot.at = "stopping" => a \in boot.todo)

(* A dispatch of the present runtime has what this start gives its role.    *)
JobIsCurrent(j) ==
  /\ j.number <= boot.number
  /\ boot.at \in {"loaded", "checked", "booting"} => j.number < boot.number
  /\ boot.at = "up" /\ j.number = boot.number /\ j.in.born \notin left => j.in = Issued(j.agent)

(* What was checked is what runs, unless a spec was edited in between.      *)
BootIsChecked ==
  /\ boot.at # "idle" => boot.number \in 1..MaxBoots
  /\ boot.at = "booting" => boot.todo \subseteq Present(boot.specs)
  /\ boot.at \in {"loaded", "checked"} /\ ~edited => agentSpec = boot.checked
  /\ boot.at \in {"booting", "up"} /\ ~edited => boot.specs = boot.checked
  /\ boot.at \in {"checked", "booting", "up"} =>
       /\ \A a \in Present(boot.checked) : \A k \in boot.checked[a].secrets : boot.secrets[k] # NoValue
       /\ \A k \in SecretKeys : boot.secrets[k] \in {NoValue, SecretOf("org"), SecretOf("project")}

ContainerInv ==
  /\ ContainerTypeOK /\ BootIsChecked
  /\ \A a \in Lasting : ContainerIsOwned(a)
  /\ \A j \in jobs : JobIsCurrent(j)

LEMMA GrantsTyped ==
  ASSUME NEW n \in 1..MaxBoots, NEW s \in SpecOrNone, NEW secrets \in [SecretKeys -> Values]
  PROVE  Grants(n, s, secrets) \in GrantRecords /\ Grants(n, s, secrets).born = n
<1> USE ContainerAssumption
<1>1. TokenOf(n) \in Values /\ NoValue \in Values
  BY DEF Values
<1>2. EnvOf(n, s, secrets) \in [SecretKeys -> Values]
  BY <1>1 DEF EnvOf
<1>3. MountOf(s.caps) \in {"none", "ro", "rw"} /\ HasNetwork(s.caps) \in BOOLEAN /\ n \in 0..MaxBoots
  BY DEF MountOf, HasNetwork
<1> HIDE DEF EnvOf, MountOf, HasNetwork
<1>4. QED
  BY <1>2, <1>3 DEF Grants, GrantRecords

LEMMA MergedTyped ==
  /\ Merged \in [SecretKeys -> Values]
  /\ \A k \in SecretKeys : Merged[k] \in {NoValue, SecretOf("org"), SecretOf("project")}
  BY DEF Merged, Values, Scopes

(* Of a start that failed or died, everything is a leftover.               *)
LEMMA BootFailsLemma ==
  ASSUME ContainerInv, BootFails, boot.at # "idle",
         UNCHANGED <<agentSpec, defined, container, jobs, specEdits, edited>>
  PROVE  ContainerInv'
<1> USE DEF ContainerInv, ContainerTypeOK
<1>1. /\ boot' \in BootRecord /\ boot'.at = "idle" /\ boot'.number = boot.number /\ boot'.specs = boot.specs
      /\ boot'.secrets = boot.secrets /\ boot'.checked = boot.checked
      /\ left' = left \cup {boot.number} /\ left' \subseteq 0..MaxBoots
  BY DEF BootFails, Leave, BootRecord, BootPlaces, SpecOrNone
<1>2. ContainerTypeOK'
  BY <1>1 DEF BootRecord, BootPlaces, SpecOrNone
<1>3. \A a \in Lasting : ContainerIsOwned(a)'
  <2>1. ASSUME NEW a \in Lasting, ContainerIsOwned(a), boot.at # "idle",
               container[a] # NoContainer, container[a].born \notin left
        PROVE  container[a].born = boot.number
    <3>1. container[a] = Issued(a) /\ boot.number \in 1..MaxBoots
      BY <2>1 DEF ContainerIsOwned, BootIsChecked
    <3>2. boot.specs[a] \in SpecOrNone /\ boot.secrets \in [SecretKeys -> Values]
      BY ContainerAssumption DEF SpecOrNone
    <3>3. QED
      BY <3>1, <3>2, GrantsTyped DEF Issued
  <2>2. QED
    BY <1>1, <2>1 DEF ContainerIsOwned
<1>4. \A j \in jobs' : JobIsCurrent(j)'
  BY <1>1 DEF JobIsCurrent
<1>5. BootIsChecked'
  BY <1>1 DEF BootIsChecked
<1>6. QED
  BY <1>2, <1>3, <1>4, <1>5

(* Every other action keeps the invariant.                                 *)
LEMMA BootLemma ==
  ASSUME ContainerInv
  PROVE  /\ boot \in BootRecord /\ boot.at \in BootPlaces /\ boot.number \in 0..MaxBoots
         /\ boot.specs \in [Agents -> SpecOrNone] /\ boot.checked \in [Agents -> SpecOrNone]
         /\ boot.secrets \in [SecretKeys -> Values] /\ boot.todo \subseteq Lasting
         /\ \A a \in Lasting : container[a] \in GrantRecords
         /\ boot.at = "idle" \/ boot.number \in 1..MaxBoots
  BY DEF ContainerInv, ContainerTypeOK, BootRecord, BootPlaces, SpecOrNone, BootIsChecked

LEMMA LoadSpecsStep == ContainerInv /\ LoadSpecs => ContainerInv'
<1> SUFFICES ASSUME ContainerInv, LoadSpecs PROVE ContainerInv'
  OBVIOUS
<1> USE DEF ContainerInv
<1> DEFINE n == boot.number + 1
<1>a. /\ boot.number \in 0..MaxBoots /\ boot.number + 1 \in 1..MaxBoots /\ boot.number + 1 \in 0..MaxBoots
      /\ agentSpec \in [Agents -> SpecOrNone]
  BY BootLemma, ContainerAssumption DEF LoadSpecs, ContainerTypeOK, SpecOrNone
<1>1. /\ boot' \in BootRecord /\ boot'.at = "loaded" /\ boot'.number = boot.number + 1
      /\ boot'.checked = agentSpec /\ boot.at = "idle" /\ boot.number \in Nat /\ boot'.number \in 1..MaxBoots
      /\ UNCHANGED <<agentSpec, defined, container, jobs, specEdits, left>> /\ edited' = FALSE
  <2>1. /\ boot' = [boot EXCEPT !.at = "loaded", !.number = n, !.checked = agentSpec]
        /\ boot.at = "idle" /\ edited' = FALSE
        /\ UNCHANGED <<agentSpec, defined, container, jobs, specEdits, left>>
    BY DEF LoadSpecs
  <2>2. boot \in BootRecord /\ n \in 0..MaxBoots /\ n \in 1..MaxBoots
    BY <1>a, BootLemma
  <2> HIDE DEF n
  <2>3. boot' \in BootRecord /\ boot'.at = "loaded" /\ boot'.number = n /\ boot'.checked = agentSpec
    BY <1>a, <2>1, <2>2 DEF BootRecord, BootPlaces
  <2>4. QED
    BY <1>a, <2>1, <2>2, <2>3 DEF n
<1>2. ContainerTypeOK'
  BY <1>1 DEF ContainerTypeOK, BootRecord, BootPlaces, SpecOrNone
<1>3. \A a \in Lasting : ContainerIsOwned(a)'
  BY <1>1 DEF ContainerIsOwned
<1>4. \A j \in jobs' : JobIsCurrent(j)'
  BY <1>1 DEF JobIsCurrent, ContainerTypeOK
<1>5. BootIsChecked'
  BY <1>1 DEF BootIsChecked
<1>6. QED
  BY <1>2, <1>3, <1>4, <1>5

LEMMA CheckSecretsStep == ContainerInv /\ CheckSecrets => ContainerInv'
<1> SUFFICES ASSUME ContainerInv, CheckSecrets PROVE ContainerInv'
  OBVIOUS
<1> USE DEF ContainerInv
<1>1. CASE Missing(Merged)
  BY <1>1, BootFailsLemma DEF CheckSecrets
<1>2. CASE ~Missing(Merged)
  <2>1. /\ boot' \in BootRecord /\ boot'.at = "checked" /\ boot'.number = boot.number
        /\ boot'.checked = boot.checked /\ boot'.secrets = Merged /\ boot.at = "loaded"
        /\ UNCHANGED <<agentSpec, defined, container, jobs, specEdits, left, edited>>
    BY <1>2, BootLemma, MergedTyped DEF CheckSecrets, BootRecord, BootPlaces
  <2>2. ContainerTypeOK'
    BY <2>1 DEF ContainerTypeOK, BootRecord, BootPlaces, SpecOrNone
  <2>3. \A a \in Lasting : ContainerIsOwned(a)'
    BY <2>1 DEF ContainerIsOwned
  <2>4. \A j \in jobs' : JobIsCurrent(j)'
    BY <2>1 DEF JobIsCurrent
  <2>5. BootIsChecked'
    <3>1. \A a \in Present(boot.checked) : \A k \in boot.checked[a].secrets : Merged[k] # NoValue
      BY <1>2 DEF Missing
    <3>2. \A a \in Present(boot'.checked) : \A k \in boot'.checked[a].secrets : boot'.secrets[k] # NoValue
      BY <2>1, <3>1
    <3>3. \A k \in SecretKeys : boot'.secrets[k] \in {NoValue, SecretOf("org"), SecretOf("project")}
      BY <2>1, MergedTyped
    <3>4. QED
      BY <2>1, <3>2, <3>3 DEF BootIsChecked
  <2>6. QED
    BY <2>2, <2>3, <2>4, <2>5
<1>3. QED
  BY <1>1, <1>2

LEMMA LoadCompanyStep == ContainerInv /\ LoadCompany => ContainerInv'
<1> SUFFICES ASSUME ContainerInv, LoadCompany PROVE ContainerInv'
  OBVIOUS
<1> USE DEF ContainerInv
<1>1. CASE BootFails
  BY <1>1, BootFailsLemma DEF LoadCompany
<1>2. CASE ~BootFails
  <2>1. /\ boot' \in BootRecord /\ boot'.at = "booting" /\ boot'.number = boot.number
        /\ boot'.checked = boot.checked /\ boot'.secrets = boot.secrets /\ boot'.specs = agentSpec
        /\ boot'.todo = Lasting \cap Present(agentSpec) /\ boot.at = "checked"
        /\ UNCHANGED <<agentSpec, defined, container, jobs, specEdits, left, edited>>
    <3>1. /\ boot' = [boot EXCEPT !.at = "booting", !.specs = agentSpec, !.todo = Lasting \cap Present(agentSpec)]
          /\ boot.at = "checked" /\ UNCHANGED <<agentSpec, defined, container, jobs, specEdits, left, edited>>
      BY <1>2 DEF LoadCompany
    <3>2. boot \in BootRecord /\ agentSpec \in [Agents -> SpecOrNone]
      BY BootLemma DEF ContainerTypeOK, SpecOrNone
    <3>3. QED
      BY <3>1, <3>2 DEF BootRecord, BootPlaces
  <2>2. ContainerTypeOK'
    BY <2>1 DEF ContainerTypeOK, BootRecord, BootPlaces, SpecOrNone
  <2>3. \A a \in Lasting : ContainerIsOwned(a)'
    BY <2>1 DEF ContainerIsOwned
  <2>4. \A j \in jobs' : JobIsCurrent(j)'
    BY <2>1 DEF JobIsCurrent
  <2>5. BootIsChecked'
    BY <2>1 DEF BootIsChecked
  <2>6. QED
    BY <2>2, <2>3, <2>4, <2>5
<1>3. QED
  BY <1>1, <1>2

LEMMA StartPersistentStep ==
  ASSUME ContainerInv, NEW a \in Lasting, StartPersistent(a) PROVE ContainerInv'
<1> USE DEF ContainerInv
<1>a. /\ boot.at = "booting" /\ a \in boot.todo /\ boot.number \in 1..MaxBoots
      /\ UNCHANGED <<agentSpec, defined, jobs, specEdits, edited>>
  BY BootLemma DEF StartPersistent
<1>1. CASE container[a] = NoContainer /\ BootFails /\ UNCHANGED container
  BY <1>a, <1>1, BootFailsLemma
<1>2. CASE /\ boot' = [boot EXCEPT !.todo = @ \ {a}] /\ UNCHANGED left
           /\ \/ UNCHANGED container
              \/ /\ container[a] = NoContainer
                 /\ container' = [container EXCEPT ![a] = Grants(boot.number, boot.specs[a], boot.secrets)]
  <2> DEFINE new == Grants(boot.number, boot.specs[a], boot.secrets)
  <2>1. boot.specs[a] \in SpecOrNone /\ boot.secrets \in [SecretKeys -> Values]
    BY BootLemma, ContainerAssumption
  <2>2. new \in GrantRecords /\ new.born = boot.number /\ new = Issued(a)
    BY <1>a, <2>1, GrantsTyped DEF Issued
  <2> HIDE DEF new
  <2>3. /\ boot' \in BootRecord /\ boot'.at = "booting" /\ boot'.number = boot.number
        /\ boot'.checked = boot.checked /\ boot'.secrets = boot.secrets /\ boot'.specs = boot.specs
        /\ boot'.todo = boot.todo \ {a}
    BY <1>2, <1>a, BootLemma DEF BootRecord, BootPlaces
  <2>4. /\ container' \in [Lasting -> GrantRecords]
        /\ \A b \in Lasting : container'[b] = container[b] \/ (b = a /\ container'[b] = new)
    BY <1>2, <2>2 DEF ContainerTypeOK, new
  <2>5. ContainerTypeOK'
    BY <1>2, <1>a, <2>3, <2>4 DEF ContainerTypeOK, BootRecord, BootPlaces, SpecOrNone
  <2>6. \A b \in Lasting : Issued(b)' = Issued(b)
    BY <2>3 DEF Issued
  <2>7. a \in Present(boot.specs)
    BY <1>a DEF BootIsChecked
  <2>8. \A b \in Lasting : ContainerIsOwned(b)'
    BY <1>a, <1>2, <2>2, <2>3, <2>4, <2>6, <2>7 DEF ContainerIsOwned
  <2>9. \A j \in jobs' : JobIsCurrent(j)'
    BY <1>2, <1>a, <2>3 DEF JobIsCurrent
  <2>10. BootIsChecked'
    BY <1>2, <1>a, <2>3 DEF BootIsChecked
  <2>11. QED
    BY <2>5, <2>8, <2>9, <2>10
<1>3. QED
  BY <1>1, <1>2 DEF StartPersistent

LEMMA ExecuteStep ==
  ASSUME ContainerInv, NEW a \in Agents, Execute(a) PROVE ContainerInv'
<1> USE DEF ContainerInv
<1> DEFINE new == [agent |-> a, number |-> boot.number,
                   in |-> IF a \in Lasting THEN container[a] ELSE Grants(boot.number, boot.specs[a], boot.secrets)]
<1>1. /\ boot.at = "up" /\ boot.number \in 1..MaxBoots /\ jobs' = jobs \cup {new}
      /\ UNCHANGED <<agentSpec, defined, boot, container, specEdits, left, edited>>
      /\ a \in Lasting => container[a] # NoContainer
  BY BootLemma DEF Execute
<1>2. Issued(a) \in GrantRecords
  BY <1>1, BootLemma, GrantsTyped DEF Issued
<1>3. /\ new.agent = a /\ new.number = boot.number /\ new.in \in GrantRecords
      /\ new.in.born \notin left => new.in = Issued(a)
  <2>1. CASE a \in Lasting
    <3>1. new.in = container[a] /\ container[a] # NoContainer /\ container[a] \in GrantRecords
      BY <1>1, <2>1, BootLemma
    <3>2. container[a].born \notin left => container[a] = Issued(a)
      BY <3>1, <2>1 DEF ContainerIsOwned
    <3>3. QED
      BY <3>1, <3>2
  <2>2. CASE a \notin Lasting
    BY <1>2, <2>2 DEF Issued
  <2>3. QED
    BY <2>1, <2>2
<1>4. PICK given : /\ jobs' = jobs \cup {given} /\ given.agent = a /\ given.number = boot.number /\ given.in \in GrantRecords
                   /\ given.in.born \notin left => given.in = Issued(a)
  BY <1>1, <1>3
<1> HIDE DEF new
<1>5. ContainerTypeOK'
  BY <1>1, <1>4 DEF ContainerTypeOK
<1>6. \A b \in Lasting : ContainerIsOwned(b)'
  BY <1>1 DEF ContainerIsOwned, Issued
<1>7. \A j \in jobs' : JobIsCurrent(j)'
  <2>1. JobIsCurrent(given)'
    BY <1>1, <1>4 DEF JobIsCurrent, Issued
  <2>2. \A j \in jobs : JobIsCurrent(j)'
    BY <1>1 DEF JobIsCurrent, Issued
  <2>3. QED
    BY <1>4, <2>1, <2>2
<1>8. BootIsChecked'
  BY <1>1 DEF BootIsChecked
<1>9. QED
  BY <1>5, <1>6, <1>7, <1>8

LEMMA StopPersistentStep ==
  ASSUME ContainerInv, NEW a \in Lasting, StopPersistent(a) PROVE ContainerInv'
<1> USE DEF ContainerInv
<1>1. /\ boot' \in BootRecord /\ boot'.at = "stopping" /\ boot'.number = boot.number
      /\ boot'.checked = boot.checked /\ boot'.secrets = boot.secrets /\ boot'.specs = boot.specs
      /\ boot'.todo = boot.todo \ {a} /\ boot.at = "stopping" /\ a \in boot.todo /\ boot.number \in 1..MaxBoots
      /\ UNCHANGED <<agentSpec, defined, specEdits, edited>>
  BY BootLemma DEF StopPersistent, BootRecord, BootPlaces
<1>2. /\ jobs' \subseteq jobs /\ left \subseteq left' /\ left' \subseteq 0..MaxBoots
      /\ container' \in [Lasting -> GrantRecords]
      /\ \A b \in Lasting : container'[b] = container[b] \/ container'[b] = NoContainer
      /\ container'[a] = NoContainer \/ container'[a].born \in left'
  <2>1. NoContainer \in GrantRecords
    BY ContainerAssumption DEF NoContainer, GrantRecords, Values
  <2>2. container \in [Lasting -> GrantRecords] /\ left \subseteq 0..MaxBoots
    BY DEF ContainerTypeOK
  <2>3. container[a] \in GrantRecords /\ container[a].born \in 0..MaxBoots
    BY <2>2 DEF GrantRecords
  <2>4. \/ /\ container' = [container EXCEPT ![a] = NoContainer]
           /\ jobs' = {j \in jobs : j.agent # a} /\ left' = left
        \/ container' = container /\ jobs' = jobs /\ left' = left \cup {container[a].born}
    BY DEF StopPersistent, Leave
  <2> HIDE DEF ContainerInv
  <2>5. QED
    BY <2>1, <2>2, <2>3, <2>4
<1>3. ContainerTypeOK'
  BY <1>1, <1>2 DEF ContainerTypeOK, BootRecord, BootPlaces, SpecOrNone
<1>4. \A b \in Lasting : Issued(b)' = Issued(b)
  BY <1>1 DEF Issued
<1>5. \A b \in Lasting : ContainerIsOwned(b)'
  BY <1>1, <1>2, <1>4 DEF ContainerIsOwned
<1>6. \A j \in jobs' : JobIsCurrent(j)'
  BY <1>1, <1>2 DEF JobIsCurrent
<1>7. BootIsChecked'
  BY <1>1 DEF BootIsChecked
<1>8. QED
  BY <1>3, <1>5, <1>6, <1>7

LEMMA ContainerDiesStep ==
  ASSUME ContainerInv, NEW a \in Lasting, ContainerDies(a) PROVE ContainerInv'
<1> USE DEF ContainerInv
<1>1. NoContainer \in GrantRecords
  BY ContainerAssumption DEF NoContainer, GrantRecords, Values
<1>2. /\ jobs' \subseteq jobs /\ UNCHANGED <<agentSpec, defined, boot, specEdits, left, edited>>
      /\ container' \in [Lasting -> GrantRecords]
      /\ \A b \in Lasting : container'[b] = container[b] \/ container'[b] = NoContainer
  BY <1>1 DEF ContainerDies, ContainerTypeOK
<1>3. ContainerTypeOK'
  BY <1>2 DEF ContainerTypeOK
<1>4. \A b \in Lasting : ContainerIsOwned(b)'
  BY <1>2 DEF ContainerIsOwned, Issued
<1>5. \A j \in jobs' : JobIsCurrent(j)'
  BY <1>2 DEF JobIsCurrent, Issued
<1>6. BootIsChecked'
  BY <1>2 DEF BootIsChecked
<1>7. QED
  BY <1>3, <1>4, <1>5, <1>6

(* The runtime comes up, is told to stop, and has stopped.                 *)
LEMMA RuntimeStep ==
  ASSUME ContainerInv, RuntimeIsUp \/ StopRuntime \/ RuntimeStopped PROVE ContainerInv'
<1> USE DEF ContainerInv
<1>1. /\ boot' \in BootRecord /\ boot'.number = boot.number
      /\ boot'.checked = boot.checked /\ boot'.secrets = boot.secrets /\ boot'.specs = boot.specs
      /\ \/ boot.at = "booting" /\ boot.todo = {} /\ boot'.at = "up" /\ boot'.todo = {}
         \/ boot.at = "up" /\ boot'.at = "stopping" /\ boot'.todo = Lasting \cap Present(boot.specs)
         \/ boot.at = "stopping" /\ boot.todo = {} /\ boot'.at = "idle" /\ boot'.todo = {}
      /\ UNCHANGED <<agentSpec, defined, container, jobs, specEdits, left, edited>>
  BY BootLemma DEF RuntimeIsUp, StopRuntime, RuntimeStopped, BootRecord, BootPlaces
<1>2. ContainerTypeOK'
  BY <1>1 DEF ContainerTypeOK, BootRecord, BootPlaces, SpecOrNone
<1>3. \A b \in Lasting : Issued(b)' = Issued(b)
  BY <1>1 DEF Issued
<1>4. \A b \in Lasting : ContainerIsOwned(b)'
  BY <1>1, <1>3 DEF ContainerIsOwned
<1>5. \A j \in jobs' : JobIsCurrent(j)'
  BY <1>1 DEF JobIsCurrent, ContainerTypeOK
<1>6. BootIsChecked'
  BY <1>1 DEF BootIsChecked
<1>7. QED
  BY <1>2, <1>4, <1>5, <1>6

(* An edit of a spec or a secret reaches no container and no dispatch.      *)
LEMMA EditStep ==
  ASSUME ContainerInv,
         (\E a \in Agents : EditSpec(a)) \/ (\E s \in Scopes, k \in SecretKeys : SetOrDeleteSecret(s, k))
  PROVE  ContainerInv'
<1> USE DEF ContainerInv
<1>1. /\ UNCHANGED <<boot, container, jobs, left>> /\ specEdits' \in 0..MaxSpecEdits
      /\ agentSpec' \in [Agents -> AgentSpecs \cup {NoSpec}] /\ defined' \in [Scopes -> SUBSET SecretKeys]
      /\ edited' \in BOOLEAN /\ (edited => edited')
      /\ agentSpec' = agentSpec \/ (boot.at \in {"loaded", "checked"} => edited')
  <2>1. CASE \E a \in Agents : EditSpec(a)
    <3>1. specEdits' \in 0..MaxSpecEdits
      BY <2>1, ContainerAssumption DEF EditSpec, ContainerTypeOK
    <3>2. agentSpec' \in [Agents -> AgentSpecs \cup {NoSpec}]
      BY <2>1 DEF EditSpec, ContainerTypeOK
    <3>3. edited' \in BOOLEAN /\ edited' = (edited \/ boot.at \in {"loaded", "checked"})
      BY <2>1 DEF EditSpec
    <3>4. QED
      BY <2>1, <3>1, <3>2, <3>3 DEF EditSpec, ContainerTypeOK
  <2>2. CASE \E s \in Scopes, k \in SecretKeys : SetOrDeleteSecret(s, k)
    <3>1. specEdits' \in 0..MaxSpecEdits
      BY <2>2, ContainerAssumption DEF SetOrDeleteSecret, ContainerTypeOK
    <3>2. defined' \in [Scopes -> SUBSET SecretKeys]
      BY <2>2 DEF SetOrDeleteSecret, ContainerTypeOK
    <3>3. QED
      BY <2>2, <3>1, <3>2 DEF SetOrDeleteSecret, ContainerTypeOK
  <2>3. QED
    BY <2>1, <2>2
<1>2. ContainerTypeOK'
  BY <1>1 DEF ContainerTypeOK
<1>3. \A b \in Lasting : ContainerIsOwned(b)'
  BY <1>1 DEF ContainerIsOwned, Issued
<1>4. \A j \in jobs' : JobIsCurrent(j)'
  BY <1>1 DEF JobIsCurrent, Issued
<1>5. BootIsChecked'
  BY <1>1 DEF BootIsChecked
<1>6. QED
  BY <1>2, <1>3, <1>4, <1>5

LEMMA ContainerStep == ContainerInv /\ [ContainerNext]_containerVars => ContainerInv'
<1> SUFFICES ASSUME ContainerInv, [ContainerNext]_containerVars PROVE ContainerInv'
  OBVIOUS
<1>1. CASE CrashServer
  BY <1>1, BootFailsLemma DEF CrashServer
<1>2. CASE \E j \in jobs : JobEnds(j)
  <2>1. jobs' \subseteq jobs /\ UNCHANGED <<agentSpec, defined, boot, container, specEdits, left, edited>>
    BY <1>2 DEF JobEnds
  <2>2. QED
    BY <2>1 DEF ContainerInv, ContainerTypeOK, BootIsChecked, ContainerIsOwned, Issued, JobIsCurrent
<1>3. CASE UNCHANGED containerVars
  BY <1>3 DEF containerVars, ContainerInv, ContainerTypeOK, BootIsChecked, ContainerIsOwned, Issued, JobIsCurrent
<1>4. QED
  BY <1>1, <1>2, <1>3, LoadSpecsStep, CheckSecretsStep, LoadCompanyStep, StartPersistentStep, ExecuteStep,
     StopPersistentStep, ContainerDiesStep, RuntimeStep, EditStep DEF ContainerNext

(* ContainersAreCurrent: no dispatch executes with the grants of specs and  *)
(* secrets that are not the runtime's own, except in a container that a     *)
(* failed start, a crash or a failed removal left behind; and it has the    *)
(* secrets its spec declares, unless specs were edited after the check      *)
(* (start.post.ts, capability-to-docker.js, hermes-docker.js).              *)
THEOREM GrantsStayCurrent == ContainerSpec => [](ContainerTypeOK /\ ContainersAreCurrent)
<1>1. ContainerInit => ContainerInv
  <2> SUFFICES ASSUME ContainerInit PROVE ContainerInv
    OBVIOUS
  <2>1. NoContainer \in GrantRecords /\ NoValue \in Values
    BY ContainerAssumption DEF NoContainer, GrantRecords, Values
  <2>2. agentSpec \in [Agents -> AgentSpecs \cup {NoSpec}] /\ defined \in [Scopes -> SUBSET SecretKeys]
    BY DEF ContainerInit, Scopes
  <2>3. boot \in BootRecord
    BY <2>1, <2>2, ContainerAssumption DEF ContainerInit, BootRecord, BootPlaces, SpecOrNone
  <2>4. container \in [Lasting -> GrantRecords] /\ specEdits \in 0..MaxSpecEdits
    BY <2>1, ContainerAssumption DEF ContainerInit
  <2>5. ContainerTypeOK
    BY <2>2, <2>3, <2>4 DEF ContainerInit, ContainerTypeOK, BootRecord, BootPlaces, SpecOrNone
  <2>6. QED
    BY <2>5 DEF ContainerInit, ContainerInv, BootIsChecked, ContainerIsOwned
<1>2. ContainerInv => ContainersAreCurrent
  <2> SUFFICES ASSUME ContainerInv, boot.at = "up", NEW j \in jobs, j.number = boot.number, j.in.born \notin left
               PROVE  /\ j.in.mount = "rw" => boot.specs[j.agent].caps \cap {"filesystem:write", "filesystem:any"} # {}
                      /\ j.in.network => HasNetwork(boot.specs[j.agent].caps)
                      /\ j.in.env[OpsKey] = TokenOf(boot.number) \/ OpsKey \in boot.specs[j.agent].secrets
                      /\ ~edited => \A k \in boot.specs[j.agent].secrets :
                                      j.in.env[k] \in {SecretOf("org"), SecretOf("project")}
    BY DEF ContainersAreCurrent, GrantsAreCurrent, DeclaredSecretsAreThere
  <2> DEFINE spec == boot.specs[j.agent]
  <2>1. j.in = Grants(boot.number, spec, boot.secrets) /\ j.agent \in Agents /\ spec \in SpecOrNone
    BY BootLemma DEF ContainerInv, JobIsCurrent, Issued, ContainerTypeOK
  <2> HIDE DEF spec
  <2>2. /\ j.in.mount = MountOf(spec.caps) /\ j.in.network = HasNetwork(spec.caps)
        /\ j.in.env = EnvOf(boot.number, spec, boot.secrets)
    BY <2>1 DEF Grants
  <2>3. j.in.mount = "rw" => spec.caps \cap {"filesystem:write", "filesystem:any"} # {}
    BY <2>2 DEF MountOf
  <2>4. j.in.env[OpsKey] = TokenOf(boot.number) \/ OpsKey \in spec.secrets
    BY <2>2, ContainerAssumption DEF EnvOf
  <2>5. ASSUME ~edited, NEW k \in spec.secrets
        PROVE  j.in.env[k] \in {SecretOf("org"), SecretOf("project")}
    <3>1. spec # NoSpec /\ spec \in AgentSpecs /\ k \in SecretKeys
      BY <2>1, <2>5, ContainerAssumption DEF NoSpec, SpecOrNone
    <3>2. boot.checked[j.agent] = spec /\ j.agent \in Present(boot.checked)
      BY <2>1, <2>5, <3>1 DEF ContainerInv, BootIsChecked, Present, spec
    <3>3. boot.secrets[k] # NoValue /\ boot.secrets[k] \in {NoValue, SecretOf("org"), SecretOf("project")}
      BY <3>1, <3>2, <2>5 DEF ContainerInv, BootIsChecked
    <3>4. j.in.env[k] = boot.secrets[k]
      BY <2>2, <3>1, <3>3, <2>5 DEF EnvOf
    <3>5. QED
      BY <3>3, <3>4
  <2>6. QED
    BY <2>2, <2>3, <2>4, <2>5 DEF spec
<1>3. ContainerInv => ContainerTypeOK
  BY DEF ContainerInv
<1>4. QED
  BY <1>1, <1>2, <1>3, ContainerStep, PTL DEF ContainerSpec

-----------------------------------------------------------------------------
(* ProjectRepository: the configuration, its token and the remote          *)

GitPlaces == {"idle", "reading", "remote", "status", "add", "commit", "push", "stamp", "over"}
RequestPlaces == GitPlaces \cup {"token", "config"}
PlacesOf(c) == IF c \in Connects THEN {"idle", "token", "config", "over"}
               ELSE IF c \in Disconnects THEN {"idle", "token", "over"} ELSE GitPlaces
RequestRecords == [at : RequestPlaces, remote : Remotes \cup {NoRemote}, before : SUBSET (Changes \cup {"f"})]

(* A request is where its kind may be, and git has a remote once it is set. *)
PlacesFit ==
  \A c \in Calls :
    /\ call[c].at \in PlacesOf(c)
    /\ call[c].at \in {"reading", "remote"} => call[c].remote \in Remotes
    /\ call[c].at \in {"status", "add", "commit", "push", "stamp"} => origin \in Remotes

(* As long as no change overlaps another request, there is one change at a  *)
(* time, a push works on the remote that is configured, and the token is    *)
(* there before the configuration and goes after it.                        *)
RepoIsSettled ==
  ~moved =>
    /\ repo # NoRemote => hasToken
    /\ stamped => repo \in sent
    /\ \A c, d \in Connects \cup Disconnects : Running(c) /\ Running(d) => c = d
    /\ \A d \in Disconnects : Running(d) => repo = NoRemote
    /\ \A c \in Connects : CallAt(c, "config") => hasToken
    /\ \A c \in Pushes \cup Pulls :
         /\ call[c].at \in {"reading", "remote"} => call[c].remote = repo
         /\ call[c].at \in {"status", "add", "commit", "push"} => origin = repo
         /\ CallAt(c, "stamp") => repo \in sent

(* What a push has found when it began is never lost on the way.           *)
PushHolds(p) ==
  /\ Running(p) => call[p].before \subseteq tree \cup commits
  /\ CallAt(p, "commit") => call[p].before \subseteq index \cup commits
  /\ CallAt(p, "push") => call[p].before \subseteq commits
  /\ answer[p] = "pushed" => /\ call[p].at \in {"stamp", "over"}
                             /\ \E r \in Remotes : call[p].before \subseteq remote[r]
  /\ answer[p] = "clean" => CallAt(p, "over") /\ call[p].before \subseteq commits

(* What is committed is on a remote, on its way, or a failed push's.       *)
CommitsAreBound ==
  \A e \in commits : e \in fated \/ (\E q \in Pushes : CallAt(q, "push")) \/ \E r \in Remotes : e \in remote[r]

RepositoryInv ==
  /\ RepositoryTypeOK /\ index \subseteq tree /\ PlacesFit
  /\ RepoIsSettled /\ CommitsAreBound /\ \A p \in Pushes : PushHolds(p)

(* One request moves on; the others stay where they are.                   *)
Moves(c, place) ==
  /\ call' \in [Calls -> RequestRecords] /\ call'[c].at = place
  /\ call'[c].remote = call[c].remote /\ call'[c].before = call[c].before
  /\ \A d \in Calls \ {c} : call'[d] = call[d]
Ends(c) ==
  /\ call' \in [Calls -> RequestRecords] /\ call'[c].at = "over"
  /\ \A d \in Calls \ {c} : call'[d] = call[d]
  /\ answer' \in [Pushes -> {"none", "pushed", "clean", "failed"}]
  /\ \A p \in Pushes : IF p = c THEN answer'[p] = "failed" ELSE answer'[p] = answer[p]

LEMMA MovesLemma ==
  ASSUME RepositoryTypeOK, NEW c \in Calls, NEW place \in RequestPlaces, CallTo(c, place)
  PROVE  Moves(c, place)
<1>1. call \in [Calls -> RequestRecords]
  BY DEF RepositoryTypeOK, RequestRecords, RequestPlaces, GitPlaces
<1>2. call' = [call EXCEPT ![c] = [call[c] EXCEPT !.at = place]]
  BY DEF CallTo
<1>3. [call[c] EXCEPT !.at = place] \in RequestRecords
  BY <1>1 DEF RequestRecords
<1>4. call'[c] = [call[c] EXCEPT !.at = place] /\ call[c] \in RequestRecords
  BY <1>1, <1>2
<1>5. QED
  BY <1>1, <1>2, <1>3, <1>4 DEF Moves, RequestRecords

LEMMA EndsLemma ==
  ASSUME RepositoryTypeOK, NEW c \in Calls, Fail(c)
  PROVE  Ends(c)
<1>1. Forgotten \in RequestRecords
  BY DEF Forgotten, RequestRecords, RequestPlaces, GitPlaces
<1>2. call' \in [Calls -> RequestRecords] /\ call'[c] = Forgotten /\ \A d \in Calls \ {c} : call'[d] = call[d]
  BY <1>1 DEF Fail, RepositoryTypeOK, RequestRecords, RequestPlaces, GitPlaces
<1>3. QED
  BY <1>2 DEF Ends, Fail, Says, RepositoryTypeOK, Forgotten

(* What has been found and promised stays so while nothing shrinks.        *)
LEMMA PushKept ==
  ASSUME NEW p \in Pushes, PushHolds(p), call'[p] = call[p], answer'[p] = answer[p],
         tree \cup commits \subseteq tree' \cup commits', commits \subseteq commits',
         index \cup commits \subseteq index' \cup commits',
         \A r \in Remotes : remote[r] \subseteq remote'[r]
  PROVE  PushHolds(p)'
  BY DEF PushHolds, Running, CallAt

(* An edit, here or on a remote.                                           *)
LEMMA EditFileStep ==
  ASSUME RepositoryInv, (\E e \in Changes : Edit(e)) \/ (\E r \in OpenTo : PushElsewhere(r))
  PROVE  RepositoryInv'
<1> USE DEF RepositoryInv
<1>1. /\ UNCHANGED <<configVars, origin, index, commits, call, answer, fated, sent, moved>>
      /\ tree' \subseteq Changes /\ tree \subseteq tree' /\ remote' \in [Remotes -> SUBSET (Changes \cup {"f"})]
      /\ \A r \in Remotes : remote[r] \subseteq remote'[r]
  BY RepositoryAssumption DEF Edit, PushElsewhere, RepositoryTypeOK
<1>2. RepositoryTypeOK' /\ (index \subseteq tree)' /\ PlacesFit'
  BY <1>1 DEF RepositoryTypeOK, configVars, PlacesFit, PlacesOf, GitPlaces
<1>3. RepoIsSettled' /\ CommitsAreBound'
  BY <1>1 DEF RepoIsSettled, CommitsAreBound, configVars, Running, CallAt
<1>4. \A p \in Pushes : PushHolds(p)'
  BY <1>1, PushKept
<1>5. QED
  BY <1>2, <1>3, <1>4

(* A request about the configuration leaves git alone.                     *)
LEMMA ConfigLemma ==
  ASSUME RepositoryInv, NEW c \in Connects \cup Disconnects, NEW place \in PlacesOf(c), Moves(c, place),
         UNCHANGED <<gitVars, answer, fated>>,
         repo' \in Remotes \cup {NoRemote}, stamped' \in BOOLEAN, hasToken' \in BOOLEAN, moved' \in BOOLEAN,
         sent' \subseteq Remotes
  PROVE  /\ RepositoryTypeOK' /\ (index \subseteq tree)' /\ PlacesFit' /\ CommitsAreBound'
         /\ \A p \in Pushes : PushHolds(p)'
         /\ \A p \in Pushes \cup Pulls : call'[p] = call[p]
<1> USE DEF RepositoryInv
<1>1. c \in Calls /\ c \notin Pushes \cup Pulls /\ \A p \in Pushes \cup Pulls : p \in Calls /\ p # c
  BY RepositoryAssumption DEF Calls
<1>2. /\ call' \in [Calls -> RequestRecords] /\ call'[c].at = place /\ \A d \in Calls \ {c} : call'[d] = call[d]
      /\ call'[c].remote = call[c].remote
  BY DEF Moves
<1>3. RepositoryTypeOK'
  BY <1>2 DEF RepositoryTypeOK, gitVars, RequestRecords, RequestPlaces, GitPlaces
<1>4. PlacesFit'
  BY <1>1, <1>2, RepositoryAssumption DEF PlacesFit, PlacesOf, gitVars
<1>5. CommitsAreBound'
  BY <1>1, <1>2 DEF CommitsAreBound, gitVars, CallAt
<1>6. \A p \in Pushes : PushHolds(p)'
  BY <1>1, <1>2, PushKept DEF gitVars
<1>7. QED
  BY <1>1, <1>2, <1>3, <1>4, <1>5, <1>6 DEF gitVars

LEMMA CheckTokenStep == ASSUME RepositoryInv, NEW c \in Connects, CheckToken(c) PROVE RepositoryInv'
<1> USE DEF RepositoryInv
<1> DEFINE place == IF c \in WithToken THEN "token" ELSE IF hasToken THEN "config" ELSE "over"
<1>1. c \in Calls /\ place \in PlacesOf(c) /\ place \in RequestPlaces
  BY DEF Calls, PlacesOf, RequestPlaces, GitPlaces
<1>2. place = "config" => hasToken
  OBVIOUS
<1> HIDE DEF place
<1>3. Moves(c, place) /\ CallAt(c, "idle") /\ moved' = (moved \/ Others(c)) /\ UNCHANGED <<configVars, gitVars, answer, fated, sent>>
  BY <1>1, MovesLemma DEF CheckToken, place
<1>4. /\ RepositoryTypeOK' /\ (index \subseteq tree)' /\ PlacesFit' /\ CommitsAreBound'
      /\ \A p \in Pushes : PushHolds(p)'
      /\ \A p \in Pushes \cup Pulls : call'[p] = call[p]
  BY <1>1, <1>3, ConfigLemma DEF RepositoryTypeOK, configVars
<1>5. RepoIsSettled'
  <2> SUFFICES ASSUME ~moved' PROVE RepoIsSettled'
    BY DEF RepoIsSettled
  <2>1. ~moved /\ \A d \in Calls \ {c} : ~Running(d)
    BY <1>3 DEF Others
  <2>2. \A d \in Calls \ {c} : call'[d] = call[d] /\ ~Running(d)'
    BY <1>3, <2>1 DEF Moves, Running
  <2>3. call'[c].at = place /\ hasToken' = hasToken /\ repo' = repo /\ stamped' = stamped /\ sent' = sent /\ origin' = origin
    BY <1>3 DEF Moves, configVars, gitVars
  <2>4. c \notin Disconnects /\ c \notin Pushes \cup Pulls
    BY RepositoryAssumption
  <2>5. /\ (repo # NoRemote => hasToken)' /\ (stamped => repo \in sent)'
        /\ \A d \in Disconnects : ~Running(d)'
        /\ \A d \in Connects : (CallAt(d, "config") => hasToken)'
    BY <1>2, <2>1, <2>2, <2>3, <2>4 DEF RepoIsSettled, CallAt, Calls, Running
  <2>6. \A d, e \in Connects \cup Disconnects : Running(d)' /\ Running(e)' => d = e
    BY <2>2 DEF Calls
  <2>7. \A d \in Pushes \cup Pulls : ~Running(d)'
    BY <2>2, <2>4 DEF Calls
  <2>8. QED
    BY <2>5, <2>6, <2>7 DEF RepoIsSettled, Running, CallAt
<1>6. QED
  BY <1>4, <1>5

LEMMA StoreTokenStep == ASSUME RepositoryInv, NEW c \in Connects, StoreToken(c) PROVE RepositoryInv'
<1> USE DEF RepositoryInv
<1>1. PICK place \in {"config", "over"} : CallTo(c, place) /\ (hasToken' \/ (hasToken' = hasToken /\ place = "over"))
  BY DEF StoreToken
<1>2. c \in Calls /\ place \in PlacesOf(c) /\ place \in RequestPlaces /\ hasToken' \in BOOLEAN
  BY DEF Calls, PlacesOf, RequestPlaces, GitPlaces, StoreToken, RepositoryTypeOK
<1>3. Moves(c, place) /\ CallAt(c, "token") /\ UNCHANGED <<repo, stamped, gitVars, answer, fated, sent, moved>>
  BY <1>1, <1>2, MovesLemma DEF StoreToken
<1>4. /\ RepositoryTypeOK' /\ (index \subseteq tree)' /\ PlacesFit' /\ CommitsAreBound'
      /\ \A p \in Pushes : PushHolds(p)'
      /\ \A p \in Pushes \cup Pulls : call'[p] = call[p]
  BY <1>2, <1>3, ConfigLemma DEF RepositoryTypeOK
<1>5. RepoIsSettled'
  <2>1. /\ \A d \in Calls \ {c} : call'[d] = call[d]
        /\ call'[c].at = place /\ Running(c) /\ c \notin Disconnects
    BY <1>2, <1>3, RepositoryAssumption DEF Moves, Running, CallAt
  <2>2. \A d \in Calls : Running(d)' => Running(d)
    BY <2>1 DEF Running
  <2>3. QED
    BY <1>1, <1>2, <1>3, <1>4, <2>1, <2>2 DEF RepoIsSettled, Running, CallAt, Calls, gitVars
<1>6. QED
  BY <1>4, <1>5

LEMMA StoreConfigStep == ASSUME RepositoryInv, NEW c \in Connects, StoreConfig(c) PROVE RepositoryInv'
<1> USE DEF RepositoryInv
<1>1. c \in Calls /\ "over" \in PlacesOf(c) /\ "over" \in RequestPlaces
  BY DEF Calls, PlacesOf, RequestPlaces, GitPlaces
<1>2. /\ Moves(c, "over") /\ CallAt(c, "config") /\ moved' = (moved \/ Others(c))
      /\ repo' = ConnectTo[c] /\ stamped' = FALSE /\ sent' = {} /\ UNCHANGED <<hasToken, gitVars, answer, fated>>
  BY <1>1, MovesLemma DEF StoreConfig
<1>3. /\ RepositoryTypeOK' /\ (index \subseteq tree)' /\ PlacesFit' /\ CommitsAreBound'
      /\ \A p \in Pushes : PushHolds(p)'
      /\ \A p \in Pushes \cup Pulls : call'[p] = call[p]
  BY <1>1, <1>2, RepositoryAssumption, ConfigLemma DEF RepositoryTypeOK
<1>4. RepoIsSettled'
  <2> SUFFICES ASSUME ~moved' PROVE RepoIsSettled'
    BY DEF RepoIsSettled
  <2>1. ~moved /\ hasToken /\ \A d \in Calls \ {c} : ~Running(d)
    BY <1>2 DEF Others, RepoIsSettled
  <2>2. \A d \in Calls : ~Running(d)'
    BY <1>2, <2>1 DEF Moves, Running
  <2>3. QED
    BY <1>2, <2>1, <2>2 DEF RepoIsSettled, Running, CallAt, Calls
<1>5. QED
  BY <1>3, <1>4

LEMMA ClearConfigStep == ASSUME RepositoryInv, NEW d \in Disconnects, ClearConfig(d) PROVE RepositoryInv'
<1> USE DEF RepositoryInv
<1>1. d \in Calls /\ "token" \in PlacesOf(d) /\ "token" \in RequestPlaces
  BY RepositoryAssumption DEF Calls, PlacesOf, RequestPlaces
<1>2. /\ Moves(d, "token") /\ CallAt(d, "idle") /\ moved' = (moved \/ Others(d))
      /\ repo' = NoRemote /\ stamped' = FALSE /\ sent' = {} /\ UNCHANGED <<hasToken, gitVars, answer, fated>>
  BY <1>1, MovesLemma DEF ClearConfig
<1>3. /\ RepositoryTypeOK' /\ (index \subseteq tree)' /\ PlacesFit' /\ CommitsAreBound'
      /\ \A p \in Pushes : PushHolds(p)'
      /\ \A p \in Pushes \cup Pulls : call'[p] = call[p]
  BY <1>1, <1>2, ConfigLemma DEF RepositoryTypeOK
<1>4. RepoIsSettled'
  <2> SUFFICES ASSUME ~moved' PROVE RepoIsSettled'
    BY DEF RepoIsSettled
  <2>1. ~moved /\ \A e \in Calls \ {d} : ~Running(e)
    BY <1>2 DEF Others
  <2>2. \A e \in Calls \ {d} : ~Running(e)'
    BY <1>2, <2>1 DEF Moves, Running
  <2>3. d \notin Connects /\ d \notin Pushes \cup Pulls
    BY RepositoryAssumption
  <2>4. \A e \in Connects \cup Pushes \cup Pulls : ~Running(e)'
    BY <2>2, <2>3 DEF Calls
  <2>5. \A e, f \in Connects \cup Disconnects : Running(e)' /\ Running(f)' => e = f
    BY <2>2 DEF Calls
  <2>6. QED
    BY <1>2, <2>4, <2>5 DEF RepoIsSettled, Running, CallAt
<1>5. QED
  BY <1>3, <1>4

LEMMA ClearTokenStep == ASSUME RepositoryInv, NEW d \in Disconnects, ClearToken(d) PROVE RepositoryInv'
<1> USE DEF RepositoryInv
<1>1. d \in Calls /\ "over" \in PlacesOf(d) /\ "over" \in RequestPlaces
  BY RepositoryAssumption DEF Calls, PlacesOf, RequestPlaces, GitPlaces
<1>2. /\ Moves(d, "over") /\ CallAt(d, "token") /\ hasToken' = FALSE
      /\ UNCHANGED <<repo, stamped, gitVars, answer, fated, sent, moved>>
  BY <1>1, MovesLemma DEF ClearToken
<1>3. /\ RepositoryTypeOK' /\ (index \subseteq tree)' /\ PlacesFit' /\ CommitsAreBound'
      /\ \A p \in Pushes : PushHolds(p)'
      /\ \A p \in Pushes \cup Pulls : call'[p] = call[p]
  BY <1>1, <1>2, ConfigLemma DEF RepositoryTypeOK
<1>4. RepoIsSettled'
  <2>1. /\ \A e \in Calls \ {d} : call'[e] = call[e]
        /\ call'[d].at = "over" /\ Running(d) /\ d \notin Connects
    BY <1>1, <1>2, RepositoryAssumption DEF Moves, Running, CallAt
  <2>2. ~moved => repo = NoRemote /\ \A e \in Connects : ~Running(e)
    BY <2>1 DEF RepoIsSettled
  <2>3. \A e \in Calls : Running(e)' => Running(e)
    BY <2>1 DEF Running
  <2>4. QED
    BY <1>2, <1>3, <2>1, <2>2, <2>3 DEF RepoIsSettled, Running, CallAt, Calls, gitVars
<1>5. QED
  BY <1>3, <1>4

(* A push or a pull that fails ends; what it had committed is then known.  *)
LEMMA FailKeeps ==
  ASSUME RepositoryInv, NEW c \in Pushes \cup Pulls, Ends(c), UNCHANGED <<configVars, gitVars, sent, moved>>,
         fated \subseteq fated', fated' \subseteq Changes \cup {"f"}, CallAt(c, "push") => commits \subseteq fated'
  PROVE  RepositoryInv'
<1> USE DEF RepositoryInv
<1>1. /\ call' \in [Calls -> RequestRecords] /\ call'[c].at = "over" /\ \A d \in Calls \ {c} : call'[d] = call[d]
      /\ answer' \in [Pushes -> {"none", "pushed", "clean", "failed"}]
      /\ \A p \in Pushes : IF p = c THEN answer'[p] = "failed" ELSE answer'[p] = answer[p]
      /\ c \in Calls /\ c \notin Connects \cup Disconnects
  BY RepositoryAssumption DEF Ends, Calls
<1>2. RepositoryTypeOK' /\ (index \subseteq tree)'
  BY <1>1 DEF RepositoryTypeOK, configVars, gitVars, RequestRecords, RequestPlaces, GitPlaces
<1>3. PlacesFit'
  BY <1>1 DEF PlacesFit, PlacesOf, GitPlaces, gitVars
<1>4. RepoIsSettled'
  BY <1>1 DEF RepoIsSettled, Running, CallAt, Calls, configVars, gitVars
<1>5. CommitsAreBound'
  BY <1>1 DEF CommitsAreBound, CallAt, Calls, gitVars
<1>6. \A p \in Pushes : PushHolds(p)'
  <2>1. ASSUME NEW p \in Pushes, p = c PROVE PushHolds(p)'
    BY <1>1, <2>1 DEF PushHolds, Running, CallAt
  <2>2. ASSUME NEW p \in Pushes, p # c PROVE PushHolds(p)'
    BY <1>1, <2>2, PushKept DEF Calls, gitVars
  <2>3. QED
    BY <2>1, <2>2
<1>7. QED
  BY <1>2, <1>3, <1>4, <1>5, <1>6

LEMMA ReadConfigStep == ASSUME RepositoryInv, NEW c \in Pushes \cup Pulls, ReadConfig(c) PROVE RepositoryInv'
<1> USE DEF RepositoryInv
<1>1. c \in Calls /\ c \notin Connects \cup Disconnects
  BY RepositoryAssumption DEF Calls
<1>2. CASE repo = NoRemote
  <2>1. CallAt(c, "idle") /\ Ends(c) /\ UNCHANGED <<configVars, gitVars, fated, sent, moved>>
    BY <1>1, <1>2, EndsLemma DEF ReadConfig
  <2>2. fated' \subseteq Changes \cup {"f"} /\ ~CallAt(c, "push")
    BY <2>1 DEF RepositoryTypeOK, CallAt
  <2>3. QED
    BY <2>1, <2>2, FailKeeps
<1>3. CASE repo # NoRemote
  <2> DEFINE new == [at |-> "reading", remote |-> repo, before |-> IF c \in Pushes THEN tree \cup commits ELSE {}]
  <2>1. /\ call' = [call EXCEPT ![c] = new] /\ call \in [Calls -> RequestRecords] /\ CallAt(c, "idle")
        /\ UNCHANGED <<configVars, gitVars, answer, fated, sent, moved>>
    BY <1>3 DEF ReadConfig, RepositoryTypeOK, RequestRecords, RequestPlaces, GitPlaces
  <2>2. new \in RequestRecords /\ new.at = "reading" /\ new.remote = repo /\ (c \in Pushes => new.before = tree \cup commits)
    BY DEF RepositoryTypeOK, RequestRecords, RequestPlaces, GitPlaces
  <2> HIDE DEF new
  <2>3. call' \in [Calls -> RequestRecords] /\ call'[c] = new /\ \A d \in Calls \ {c} : call'[d] = call[d]
    BY <1>1, <2>1, <2>2
  <2>4. RepositoryTypeOK' /\ (index \subseteq tree)'
    BY <2>1, <2>3 DEF RepositoryTypeOK, configVars, gitVars, RequestRecords, RequestPlaces, GitPlaces
  <2>5. PlacesFit'
    BY <1>1, <1>3, <2>1, <2>2, <2>3 DEF PlacesFit, PlacesOf, GitPlaces, gitVars, RepositoryTypeOK
  <2>6. RepoIsSettled'
    BY <1>1, <2>1, <2>2, <2>3 DEF RepoIsSettled, Running, CallAt, Calls, configVars, gitVars
  <2>7. CommitsAreBound'
    BY <2>1, <2>2, <2>3 DEF CommitsAreBound, CallAt, Calls, gitVars
  <2>8. ASSUME NEW p \in Pushes, p = c PROVE PushHolds(p)'
    BY <2>1, <2>2, <2>3, <2>8 DEF PushHolds, Running, CallAt, gitVars
  <2>9. ASSUME NEW p \in Pushes, p # c PROVE PushHolds(p)'
    BY <2>1, <2>3, <2>9, PushKept DEF Calls, gitVars
  <2>10. QED
    BY <2>4, <2>5, <2>6, <2>7, <2>8, <2>9
<1>4. QED
  BY <1>2, <1>3

LEMMA ReadTokenStep == ASSUME RepositoryInv, NEW c \in Pushes \cup Pulls, ReadToken(c) PROVE RepositoryInv'
<1> USE DEF RepositoryInv
<1>1. c \in Calls /\ c \notin Connects \cup Disconnects /\ "remote" \in RequestPlaces
  BY RepositoryAssumption DEF Calls, RequestPlaces, GitPlaces
<1>2. CallAt(c, "reading") /\ UNCHANGED <<configVars, gitVars, fated, sent, moved>>
  BY DEF ReadToken
<1>3. CASE ~hasToken
  <2>1. Ends(c) /\ fated' \subseteq Changes \cup {"f"} /\ ~CallAt(c, "push")
    BY <1>1, <1>2, <1>3, EndsLemma DEF ReadToken, RepositoryTypeOK, CallAt
  <2>2. QED
    BY <1>2, <2>1, FailKeeps
<1>4. CASE hasToken
  <2>1. Moves(c, "remote") /\ UNCHANGED answer
    BY <1>1, <1>4, MovesLemma DEF ReadToken
  <2>2. /\ call' \in [Calls -> RequestRecords] /\ call'[c].at = "remote" /\ \A d \in Calls \ {c} : call'[d] = call[d]
        /\ call'[c].remote = call[c].remote /\ call'[c].before = call[c].before
    BY <2>1 DEF Moves
  <2>3. RepositoryTypeOK' /\ (index \subseteq tree)'
    BY <1>2, <2>1, <2>2 DEF RepositoryTypeOK, configVars, gitVars, RequestRecords, RequestPlaces, GitPlaces
  <2>4. PlacesFit'
    BY <1>1, <1>2, <2>2 DEF PlacesFit, PlacesOf, GitPlaces, gitVars, CallAt
  <2>5. RepoIsSettled'
    BY <1>1, <1>2, <2>2 DEF RepoIsSettled, Running, CallAt, Calls, configVars, gitVars
  <2>6. CommitsAreBound'
    BY <1>2, <2>2 DEF CommitsAreBound, CallAt, Calls, gitVars
  <2>7. ASSUME NEW p \in Pushes, p = c PROVE PushHolds(p)'
    BY <1>2, <2>1, <2>2, <2>7 DEF PushHolds, Running, CallAt, gitVars
  <2>8. ASSUME NEW p \in Pushes, p # c PROVE PushHolds(p)'
    BY <1>2, <2>1, <2>2, <2>8, PushKept DEF Calls, gitVars
  <2>9. QED
    BY <2>3, <2>4, <2>5, <2>6, <2>7, <2>8
<1>5. QED
  BY <1>3, <1>4

LEMMA ConfigureRemoteStep == ASSUME RepositoryInv, NEW c \in Pushes \cup Pulls, ConfigureRemote(c) PROVE RepositoryInv'
<1> USE DEF RepositoryInv
<1>1. c \in Calls /\ c \notin Connects \cup Disconnects /\ "status" \in RequestPlaces
  BY RepositoryAssumption DEF Calls, RequestPlaces, GitPlaces
<1>2. CallAt(c, "remote") /\ UNCHANGED <<configVars, tree, index, commits, remote, fated, sent, moved>>
  BY DEF ConfigureRemote
<1>3. CASE Fail(c) /\ UNCHANGED origin
  <2>1. Ends(c) /\ fated' \subseteq Changes \cup {"f"} /\ ~CallAt(c, "push")
    BY <1>1, <1>2, <1>3, EndsLemma DEF RepositoryTypeOK, CallAt
  <2>2. QED
    BY <1>2, <1>3, <2>1, FailKeeps DEF gitVars
<1>4. CASE origin' = call[c].remote /\ CallTo(c, "status") /\ UNCHANGED answer
  <2>1. Moves(c, "status") /\ UNCHANGED answer /\ origin' = call[c].remote
    BY <1>1, <1>4, MovesLemma
  <2>2. /\ call' \in [Calls -> RequestRecords] /\ call'[c].at = "status" /\ \A d \in Calls \ {c} : call'[d] = call[d]
        /\ call'[c].remote = call[c].remote /\ call'[c].before = call[c].before
    BY <2>1 DEF Moves
  <2>3. origin' \in Remotes /\ (~moved => origin' = repo)
    BY <1>1, <1>2, <2>1 DEF PlacesFit, RepoIsSettled, CallAt
  <2>4. RepositoryTypeOK' /\ (index \subseteq tree)'
    BY <1>2, <2>1, <2>2, <2>3 DEF RepositoryTypeOK, configVars, RequestRecords, RequestPlaces, GitPlaces
  <2>5. PlacesFit'
    BY <1>1, <1>2, <2>2, <2>3 DEF PlacesFit, PlacesOf, GitPlaces, CallAt
  <2>6. RepoIsSettled'
    BY <1>1, <1>2, <2>2, <2>3 DEF RepoIsSettled, Running, CallAt, Calls, configVars
  <2>7. CommitsAreBound'
    BY <1>2, <2>2 DEF CommitsAreBound, CallAt, Calls
  <2>8. ASSUME NEW p \in Pushes, p = c PROVE PushHolds(p)'
    BY <1>2, <2>1, <2>2, <2>8 DEF PushHolds, Running, CallAt
  <2>9. ASSUME NEW p \in Pushes, p # c PROVE PushHolds(p)'
    BY <1>2, <2>1, <2>2, <2>9, PushKept DEF Calls
  <2>10. QED
    BY <2>4, <2>5, <2>6, <2>7, <2>8, <2>9
<1>5. QED
  BY <1>3, <1>4 DEF ConfigureRemote

LEMMA PushStatusStep == ASSUME RepositoryInv, NEW c \in Pushes, PushStatus(c) PROVE RepositoryInv'
<1> USE DEF RepositoryInv
<1> DEFINE place == IF tree = {} THEN "over" ELSE "add"
<1>1. /\ c \in Calls /\ c \notin Connects \cup Disconnects /\ c \notin Pulls
      /\ place \in RequestPlaces /\ place \in {"over", "add"} /\ (place = "over" => tree = {})
  BY RepositoryAssumption DEF Calls, RequestPlaces, GitPlaces
<1>2. CallAt(c, "status") /\ CallTo(c, place) /\ UNCHANGED <<configVars, gitVars, fated, sent, moved>>
  BY DEF PushStatus
<1>3. /\ answer' \in [Pushes -> {"none", "pushed", "clean", "failed"}]
      /\ \A p \in Pushes : p # c => answer'[p] = answer[p]
      /\ answer'[c] = answer[c] \/ (answer'[c] = "clean" /\ tree = {} /\ place = "over")
  <2>1. CASE tree = {}
    BY <1>1, <2>1 DEF PushStatus, Says, RepositoryTypeOK
  <2>2. CASE tree # {}
    BY <2>2 DEF PushStatus, RepositoryTypeOK
  <2>3. QED
    BY <2>1, <2>2
<1> HIDE DEF place
<1>4. /\ call' \in [Calls -> RequestRecords] /\ call'[c].at = place /\ \A d \in Calls \ {c} : call'[d] = call[d]
      /\ call'[c].remote = call[c].remote /\ call'[c].before = call[c].before
  BY <1>1, <1>2, MovesLemma DEF Moves
<1>5. RepositoryTypeOK' /\ (index \subseteq tree)'
  BY <1>2, <1>3, <1>4 DEF RepositoryTypeOK, configVars, gitVars, RequestRecords, RequestPlaces, GitPlaces
<1>6. PlacesFit'
  BY <1>1, <1>2, <1>4 DEF PlacesFit, PlacesOf, GitPlaces, gitVars, CallAt
<1>7. RepoIsSettled'
  BY <1>1, <1>2, <1>4 DEF RepoIsSettled, Running, CallAt, Calls, configVars, gitVars
<1>8. CommitsAreBound'
  BY <1>1, <1>2, <1>4 DEF CommitsAreBound, CallAt, Calls, gitVars
<1>9. ASSUME NEW p \in Pushes, p = c PROVE PushHolds(p)'
  BY <1>1, <1>2, <1>3, <1>4, <1>9 DEF PushHolds, Running, CallAt, gitVars
<1>10. ASSUME NEW p \in Pushes, p # c PROVE PushHolds(p)'
  BY <1>2, <1>3, <1>4, <1>10, PushKept DEF Calls, gitVars
<1>11. QED
  BY <1>5, <1>6, <1>7, <1>8, <1>9, <1>10

LEMMA AddStep == ASSUME RepositoryInv, NEW c \in Pushes, Add(c) PROVE RepositoryInv'
<1> USE DEF RepositoryInv
<1>1. /\ c \in Calls /\ c \notin Connects \cup Disconnects /\ c \notin Pulls /\ "commit" \in RequestPlaces
      /\ CallAt(c, "add") /\ UNCHANGED <<configVars, origin, tree, commits, remote, fated, sent, moved>>
  BY RepositoryAssumption DEF Calls, RequestPlaces, GitPlaces, Add
<1>2. CASE Fail(c) /\ UNCHANGED index
  <2>1. Ends(c) /\ fated' \subseteq Changes \cup {"f"} /\ ~CallAt(c, "push")
    BY <1>1, <1>2, EndsLemma DEF RepositoryTypeOK, CallAt
  <2>2. QED
    BY <1>1, <1>2, <2>1, FailKeeps DEF gitVars
<1>3. CASE index' = tree /\ CallTo(c, "commit") /\ UNCHANGED answer
  <2>1. /\ call' \in [Calls -> RequestRecords] /\ call'[c].at = "commit" /\ \A d \in Calls \ {c} : call'[d] = call[d]
        /\ call'[c].remote = call[c].remote /\ call'[c].before = call[c].before
    BY <1>1, <1>3, MovesLemma DEF Moves
  <2>2. RepositoryTypeOK' /\ (index \subseteq tree)'
    BY <1>1, <1>3, <2>1 DEF RepositoryTypeOK, configVars, RequestRecords, RequestPlaces, GitPlaces
  <2>3. PlacesFit'
    BY <1>1, <2>1 DEF PlacesFit, PlacesOf, GitPlaces, CallAt
  <2>4. RepoIsSettled'
    BY <1>1, <2>1 DEF RepoIsSettled, Running, CallAt, Calls, configVars
  <2>5. CommitsAreBound'
    BY <1>1, <2>1 DEF CommitsAreBound, CallAt, Calls
  <2>6. ASSUME NEW p \in Pushes, p = c PROVE PushHolds(p)'
    BY <1>1, <1>3, <2>1, <2>6 DEF PushHolds, Running, CallAt
  <2>7. ASSUME NEW p \in Pushes, p # c PROVE PushHolds(p)'
    BY <1>1, <1>3, <2>1, <2>7, PushKept DEF Calls
  <2>8. QED
    BY <2>2, <2>3, <2>4, <2>5, <2>6, <2>7
<1>4. QED
  BY <1>2, <1>3 DEF Add

LEMMA CommitStep == ASSUME RepositoryInv, NEW c \in Pushes, Commit(c) PROVE RepositoryInv'
<1> USE DEF RepositoryInv
<1>1. /\ c \in Calls /\ c \notin Connects \cup Disconnects /\ c \notin Pulls /\ "push" \in RequestPlaces
      /\ CallAt(c, "commit") /\ UNCHANGED <<configVars, origin, remote, fated, sent, moved>>
  BY RepositoryAssumption DEF Calls, RequestPlaces, GitPlaces, Commit
<1>2. CASE Fail(c) /\ UNCHANGED <<tree, index, commits>>
  <2>1. Ends(c) /\ fated' \subseteq Changes \cup {"f"} /\ ~CallAt(c, "push")
    BY <1>1, <1>2, EndsLemma DEF RepositoryTypeOK, CallAt
  <2>2. QED
    BY <1>1, <1>2, <2>1, FailKeeps DEF gitVars
<1>3. CASE /\ commits' = commits \cup index /\ tree' = tree \ index /\ index' = {}
           /\ CallTo(c, "push") /\ UNCHANGED answer
  <2>1. /\ call' \in [Calls -> RequestRecords] /\ call'[c].at = "push" /\ \A d \in Calls \ {c} : call'[d] = call[d]
        /\ call'[c].remote = call[c].remote /\ call'[c].before = call[c].before
    BY <1>1, <1>3, MovesLemma DEF Moves
  <2>2. RepositoryTypeOK' /\ (index \subseteq tree)'
    BY <1>1, <1>3, <2>1 DEF RepositoryTypeOK, configVars, RequestRecords, RequestPlaces, GitPlaces
  <2>3. PlacesFit'
    BY <1>1, <2>1 DEF PlacesFit, PlacesOf, GitPlaces, CallAt
  <2>4. RepoIsSettled'
    BY <1>1, <2>1 DEF RepoIsSettled, Running, CallAt, Calls, configVars
  <2>5. CommitsAreBound'
    BY <1>1, <2>1 DEF CommitsAreBound, CallAt, Calls
  <2>6. ASSUME NEW p \in Pushes, p = c PROVE PushHolds(p)'
    BY <1>1, <1>3, <2>1, <2>6 DEF PushHolds, Running, CallAt
  <2>7. ASSUME NEW p \in Pushes, p # c PROVE PushHolds(p)'
    BY <1>1, <1>3, <2>1, <2>7, PushKept DEF Calls
  <2>8. QED
    BY <2>2, <2>3, <2>4, <2>5, <2>6, <2>7
<1>4. QED
  BY <1>2, <1>3 DEF Commit

LEMMA GitPushStep == ASSUME RepositoryInv, NEW c \in Pushes, GitPush(c) PROVE RepositoryInv'
<1> USE DEF RepositoryInv
<1>1. /\ c \in Calls /\ c \notin Connects \cup Disconnects /\ c \notin Pulls /\ "stamp" \in RequestPlaces
      /\ CallAt(c, "push") /\ UNCHANGED <<configVars, origin, tree, index, commits, moved>>
  BY RepositoryAssumption DEF Calls, RequestPlaces, GitPlaces, GitPush
<1>2. CASE Fail(c) /\ fated' = fated \cup commits /\ UNCHANGED <<remote, sent>>
  <2>1. Ends(c) /\ fated' \subseteq Changes \cup {"f"}
    BY <1>1, <1>2, EndsLemma DEF RepositoryTypeOK
  <2>2. QED
    BY <1>1, <1>2, <2>1, FailKeeps DEF gitVars
<1>3. CASE /\ remote[origin] \subseteq commits /\ remote' = [remote EXCEPT ![origin] = commits]
           /\ CallTo(c, "stamp") /\ Says(c, "pushed")
           /\ sent' = (IF origin = repo THEN sent \cup {origin} ELSE sent)
           /\ UNCHANGED fated
  <2>1. /\ call' \in [Calls -> RequestRecords] /\ call'[c].at = "stamp" /\ \A d \in Calls \ {c} : call'[d] = call[d]
        /\ call'[c].remote = call[c].remote /\ call'[c].before = call[c].before
    BY <1>1, <1>3, MovesLemma DEF Moves
  <2>2. /\ answer' \in [Pushes -> {"none", "pushed", "clean", "failed"}]
        /\ answer'[c] = "pushed" /\ \A p \in Pushes : p # c => answer'[p] = answer[p]
    BY <1>3 DEF Says, RepositoryTypeOK
  <2>3. origin \in Remotes /\ (~moved => origin = repo)
    BY <1>1 DEF PlacesFit, RepoIsSettled, CallAt
  <2>4. /\ remote' \in [Remotes -> SUBSET (Changes \cup {"f"})] /\ remote'[origin] = commits
        /\ \A r \in Remotes : remote[r] \subseteq remote'[r]
    BY <1>3, <2>3 DEF RepositoryTypeOK
  <2>5. sent \subseteq sent' /\ sent' \subseteq Remotes /\ (~moved => repo \in sent')
    BY <1>3, <2>3 DEF RepositoryTypeOK
  <2>6. RepositoryTypeOK' /\ (index \subseteq tree)'
    BY <1>1, <1>3, <2>1, <2>2, <2>4, <2>5 DEF RepositoryTypeOK, configVars, RequestRecords, RequestPlaces, GitPlaces
  <2>7. PlacesFit'
    BY <1>1, <2>1 DEF PlacesFit, PlacesOf, GitPlaces, CallAt
  <2>8. RepoIsSettled'
    BY <1>1, <2>1, <2>5 DEF RepoIsSettled, Running, CallAt, Calls, configVars
  <2>9. CommitsAreBound'
    BY <1>1, <2>3, <2>4 DEF CommitsAreBound
  <2>10. ASSUME NEW p \in Pushes, p = c PROVE PushHolds(p)'
    BY <1>1, <2>1, <2>2, <2>3, <2>4, <2>10 DEF PushHolds, Running, CallAt
  <2>11. ASSUME NEW p \in Pushes, p # c PROVE PushHolds(p)'
    BY <1>1, <2>1, <2>2, <2>4, <2>11, PushKept DEF Calls
  <2>12. QED
    BY <2>6, <2>7, <2>8, <2>9, <2>10, <2>11
<1>4. QED
  BY <1>2, <1>3 DEF GitPush

LEMMA StampStep == ASSUME RepositoryInv, NEW c \in Pushes, Stamp(c) PROVE RepositoryInv'
<1> USE DEF RepositoryInv
<1>1. /\ c \in Calls /\ c \notin Connects \cup Disconnects /\ c \notin Pulls /\ "over" \in RequestPlaces
      /\ CallAt(c, "stamp") /\ CallTo(c, "over") /\ UNCHANGED <<repo, hasToken, gitVars, answer, fated, sent, moved>>
  BY RepositoryAssumption DEF Calls, RequestPlaces, GitPlaces, Stamp
<1>2. stamped' \in BOOLEAN /\ (~moved => (stamped' => repo \in sent))
  BY <1>1 DEF Stamp, RepositoryTypeOK, RepoIsSettled
<1>3. /\ call' \in [Calls -> RequestRecords] /\ call'[c].at = "over" /\ \A d \in Calls \ {c} : call'[d] = call[d]
      /\ call'[c].remote = call[c].remote /\ call'[c].before = call[c].before
  BY <1>1, MovesLemma DEF Moves
<1>4. RepositoryTypeOK' /\ (index \subseteq tree)'
  BY <1>1, <1>2, <1>3 DEF RepositoryTypeOK, gitVars, RequestRecords, RequestPlaces, GitPlaces
<1>5. PlacesFit'
  BY <1>1, <1>3 DEF PlacesFit, PlacesOf, GitPlaces, CallAt, gitVars
<1>6. RepoIsSettled'
  BY <1>1, <1>2, <1>3 DEF RepoIsSettled, Running, CallAt, Calls, gitVars
<1>7. CommitsAreBound'
  BY <1>1, <1>3 DEF CommitsAreBound, CallAt, Calls, gitVars
<1>8. ASSUME NEW p \in Pushes, p = c PROVE PushHolds(p)'
  BY <1>1, <1>3, <1>8 DEF PushHolds, Running, CallAt, gitVars
<1>9. ASSUME NEW p \in Pushes, p # c PROVE PushHolds(p)'
  BY <1>1, <1>3, <1>9, PushKept DEF Calls, gitVars
<1>10. QED
  BY <1>4, <1>5, <1>6, <1>7, <1>8, <1>9

LEMMA PullStep == ASSUME RepositoryInv, NEW c \in Pulls, Pull(c) PROVE RepositoryInv'
<1> USE DEF RepositoryInv
<1>1. /\ c \in Calls /\ c \notin Connects \cup Disconnects /\ c \notin Pushes
      /\ CallAt(c, "status") /\ call' = [call EXCEPT ![c] = Forgotten]
      /\ UNCHANGED <<configVars, origin, tree, index, remote, answer, fated, sent, moved>>
  BY RepositoryAssumption DEF Calls, Pull
<1>2. origin \in Remotes
  BY <1>1 DEF PlacesFit, CallAt
<1>3. /\ commits \subseteq commits' /\ commits' \subseteq Changes \cup {"f"}
      /\ commits' = commits \/ commits' = remote[origin]
  BY <1>2 DEF Pull, RepositoryTypeOK
<1>4. /\ call' \in [Calls -> RequestRecords] /\ call'[c].at = "over" /\ \A d \in Calls \ {c} : call'[d] = call[d]
  BY <1>1 DEF RepositoryTypeOK, Forgotten, RequestRecords, RequestPlaces, GitPlaces
<1>5. RepositoryTypeOK' /\ (index \subseteq tree)'
  BY <1>1, <1>3, <1>4 DEF RepositoryTypeOK, configVars, RequestRecords, RequestPlaces, GitPlaces
<1>6. PlacesFit'
  BY <1>1, <1>4 DEF PlacesFit, PlacesOf, GitPlaces, CallAt
<1>7. RepoIsSettled'
  BY <1>1, <1>4 DEF RepoIsSettled, Running, CallAt, Calls, configVars
<1>8. CommitsAreBound'
  BY <1>1, <1>2, <1>3, <1>4 DEF CommitsAreBound, CallAt, Calls
<1>9. ASSUME NEW p \in Pushes PROVE PushHolds(p)'
  BY <1>1, <1>3, <1>4, <1>9, PushKept DEF Calls
<1>10. QED
  BY <1>5, <1>6, <1>7, <1>8, <1>9

(* A crash ends every request, and what was committed is a failed push's.  *)
LEMMA CrashRepositoryStep == ASSUME RepositoryInv, CrashRepository PROVE RepositoryInv'
<1> USE DEF RepositoryInv
<1>1. /\ call' = [c \in Calls |-> IF Running(c) THEN Forgotten ELSE call[c]]
      /\ answer' = [p \in Pushes |-> IF Running(p) THEN "failed" ELSE answer[p]]
      /\ fated' = (IF \E p \in Pushes : CallAt(p, "push") THEN fated \cup commits ELSE fated)
      /\ moved' = (moved \/ \E d \in Disconnects : Running(d)) /\ UNCHANGED <<configVars, gitVars, sent>>
  BY DEF CrashRepository
<1>2. call \in [Calls -> RequestRecords] /\ Forgotten \in RequestRecords /\ Forgotten.at = "over"
  BY DEF RepositoryTypeOK, Forgotten, RequestRecords, RequestPlaces, GitPlaces
<1>3. /\ call' \in [Calls -> RequestRecords] /\ \A c \in Calls : call'[c].at \in {"idle", "over"}
      /\ \A c \in Calls : call'[c] = call[c] \/ (Running(c) /\ call'[c].at = "over")
  BY <1>1, <1>2 DEF Running
<1>4. answer' \in [Pushes -> {"none", "pushed", "clean", "failed"}]
  BY <1>1 DEF RepositoryTypeOK
<1>5. RepositoryTypeOK' /\ (index \subseteq tree)'
  BY <1>1, <1>3, <1>4 DEF RepositoryTypeOK, configVars, gitVars, RequestRecords, RequestPlaces, GitPlaces
<1>6. PlacesFit'
  BY <1>3 DEF PlacesFit, PlacesOf, GitPlaces
<1>7. RepoIsSettled'
  BY <1>1, <1>3 DEF RepoIsSettled, Running, CallAt, Calls, configVars, gitVars
<1>8. CommitsAreBound'
  BY <1>1 DEF CommitsAreBound, gitVars
<1>9. ASSUME NEW p \in Pushes PROVE PushHolds(p)'
  <2>1. p \in Calls
    BY DEF Calls
  <2>2. CASE Running(p)
    BY <1>1, <1>3, <2>1, <2>2 DEF PushHolds, Running, CallAt
  <2>3. CASE ~Running(p)
    <3>1. call'[p] = call[p] /\ answer'[p] = answer[p]
      BY <1>1, <2>1, <2>3
    <3>2. QED
      BY <1>1, <3>1, PushKept DEF gitVars
  <2>4. QED
    BY <2>2, <2>3
<1>10. QED
  BY <1>5, <1>6, <1>7, <1>8, <1>9

(* RepositoryKeepsStep: a configured remote has a token once nothing is     *)
(* under way, the page's lastPushedAt is of a remote that got the push, a   *)
(* push that says "pushed" has delivered what was there when it began, and  *)
(* one that says that there is nothing to push leaves nothing unaccounted   *)
(* for (repository.put.ts, repository.delete.ts, git-remote.ts).            *)
THEOREM RemoteKeepsStep == RepositorySpec => [](RepositoryTypeOK /\ RepositoryKeepsStep)
<1>1. RepositoryInit => RepositoryInv
  <2> SUFFICES ASSUME RepositoryInit PROVE RepositoryInv
    OBVIOUS
  <2>1. RepositoryTypeOK
    BY RepositoryAssumption DEF RepositoryInit, RepositoryTypeOK
  <2>2. QED
    BY <2>1 DEF RepositoryInit, RepositoryInv, PlacesFit, PlacesOf, GitPlaces, RepoIsSettled, Running, CallAt,
                CommitsAreBound, PushHolds, Calls
<1>2. RepositoryInv /\ [RepositoryNext]_repositoryVars => RepositoryInv'
  <2> SUFFICES ASSUME RepositoryInv, [RepositoryNext]_repositoryVars PROVE RepositoryInv'
    OBVIOUS
  <2>1. CASE UNCHANGED repositoryVars
    BY <2>1 DEF repositoryVars, configVars, RepositoryInv, RepositoryTypeOK, PlacesFit, RepoIsSettled, Running, CallAt,
                CommitsAreBound, PushHolds
  <2>2. QED
    BY <2>1, EditFileStep, CheckTokenStep, StoreTokenStep, StoreConfigStep, ClearConfigStep, ClearTokenStep,
       ReadConfigStep, ReadTokenStep, ConfigureRemoteStep, PushStatusStep, AddStep, CommitStep, GitPushStep,
       StampStep, PullStep, CrashRepositoryStep DEF RepositoryNext
<1>3. RepositoryInv => RepositoryTypeOK /\ RepositoryKeepsStep
  <2> SUFFICES ASSUME RepositoryInv PROVE ConnectionIsWhole /\ PushesAreComplete
    BY DEF RepositoryInv, RepositoryKeepsStep
  <2>1. ConnectionIsWhole
    BY DEF RepositoryInv, RepoIsSettled, ConnectionIsWhole
  <2>2. \A p \in Pushes : answer[p] = "pushed" => \E r \in Remotes : call[p].before \subseteq remote[r]
    BY DEF RepositoryInv, PushHolds
  <2>3. ASSUME NEW p \in Pushes, answer[p] = "clean", NEW e \in call[p].before
        PROVE  e \in fated \/ (\E q \in Pushes : call[q].at \in {"push", "stamp"}) \/ \E r \in Remotes : e \in remote[r]
    BY <2>3 DEF RepositoryInv, PushHolds, CommitsAreBound, CallAt
  <2>4. QED
    BY <2>1, <2>2, <2>3 DEF PushesAreComplete
<1>4. QED
  BY <1>1, <1>2, <1>3, PTL DEF RepositorySpec

-----------------------------------------------------------------------------
(* EventHistory: the log, its index and what is pending                    *)

Started(d) == EventAbout(d, "started")
Begun(d) == dispatch[d].at # "queued"

(* What is on the disk or in the index was written by a dispatch that has   *)
(* begun, and an end by one that has ended so.                             *)
EventsFit ==
  \A e \in rows \cup disk : Begun(e[1]) /\ (Ended(e) => dispatch[e[1]].kind = e[2])
(* Dispatches begin in the order of their runtimes, and end after they begin. *)
StartsInOrder ==
  /\ \A e \in Events : at[e] <= clock
  /\ \A d \in Dispatches : Begun(d) =>
       /\ Of(d) <= company.number
       /\ dispatch[d].kind \in Terminal => at[Started(d)] <= at[EventOf(d)]
       /\ \A c \in Dispatches : Of(c) < Of(d) => at[Started(c)] <= at[Started(d)]
(* An earlier runtime's event that is in the index was there at the boot.   *)
OldRowsAreOld ==
  \A e \in rows, d \in Dispatches :
    Of(e[1]) < company.number /\ Of(d) = company.number /\ Begun(d) => at[e] <= at[Started(d)]
(* The index heard of every event of this runtime that has had its turn.    *)
RowsAreWritten ==
  \A d \in Dispatches : Of(d) = company.number /\ dispatch[d].at = "indexed" => EventOf(d) \in rows \cup missed

HistoryInv ==
  HistoryTypeOK /\ IndexFollowsLog /\ EventsFit /\ StartsInOrder /\ OldRowsAreOld /\ RowsAreWritten

LEMMA EventLemma ==
  /\ \A d \in Dispatches : d = <<d[1], Of(d)>> /\ d[1] \in QueueFiles /\ Of(d) \in 1..MaxCompanies
  /\ \A e \in Events : e = <<e[1], e[2]>> /\ e[1] \in Dispatches /\ e[2] \in {"started"} \cup Terminal
  /\ \A d \in Dispatches, kind \in {"started"} \cup Terminal :
       /\ EventAbout(d, kind) \in Events /\ EventAbout(d, kind)[1] = d /\ EventAbout(d, kind)[2] = kind
       /\ TaskPath(EventAbout(d, kind)) = d[1]
  BY DEF Dispatches, Events, Of, EventAbout, TaskPath

LEMMA DispatchLemma ==
  ASSUME HistoryTypeOK, NEW d \in Dispatches
  PROVE  /\ dispatch[d].kind \in {"started"} \cup Terminal /\ dispatch[d].at \in Places
         /\ dispatch[d] = [at |-> dispatch[d].at, kind |-> dispatch[d].kind]
         /\ EventOf(d) \in Events /\ EventOf(d)[1] = d /\ EventOf(d)[2] = dispatch[d].kind
         /\ Started(d) \in Events /\ Started(d)[1] = d /\ Started(d)[2] = "started"
<1>1. dispatch[d] \in [at : Places, kind : {"started"} \cup Terminal]
  BY DEF HistoryTypeOK
<1>2. QED
  BY <1>1, EventLemma DEF EventOf, Started

(* No file is pending that this runtime has finished, and none is forgotten *)
(* that it executes.                                                       *)
LEMMA PendingLemma == HistoryInv => PendingIsTrue
<1> SUFFICES ASSUME HistoryInv, NEW d \in Dispatches, Of(d) = company.number, dispatch[d].at = "indexed",
                    EventOf(d) \notin missed
             PROVE  LET pending == {TaskPath(e) : e \in PendingDispatches(rows)} IN
                    /\ Ended(EventOf(d)) => d[1] \notin pending
                    /\ ~Ended(EventOf(d)) => Tied(d[1]) \/ d[1] \in pending
  BY DEF PendingIsTrue
<1> DEFINE pending == {TaskPath(e) : e \in PendingDispatches(rows)}
<1>1. /\ EventOf(d) \in rows /\ EventOf(d) \in Events /\ Begun(d) /\ TaskPath(EventOf(d)) = d[1]
      /\ EventOf(d)[1] = d /\ EventOf(d)[2] = dispatch[d].kind
  BY DispatchLemma DEF HistoryInv, RowsAreWritten, Begun, TaskPath
<1>2. at \in [Events -> 0..MaxClock] /\ rows \subseteq Events /\ company.number \in Nat
  BY HistoryAssumption DEF HistoryInv, HistoryTypeOK
<1>3. \A e \in rows : TaskPath(e) = d[1] =>
        /\ e[1] \in Dispatches /\ Of(e[1]) \in Nat /\ Of(e[1]) <= company.number
        /\ Of(e[1]) = company.number => e[1] = d
  <2> SUFFICES ASSUME NEW e \in rows, TaskPath(e) = d[1]
               PROVE  /\ e[1] \in Dispatches /\ Of(e[1]) \in Nat /\ Of(e[1]) <= company.number
                      /\ Of(e[1]) = company.number => e[1] = d
    OBVIOUS
  <2>1. e[1] \in Dispatches /\ Of(e[1]) \in 1..MaxCompanies /\ e[1] = <<e[1][1], Of(e[1])>> /\ d = <<d[1], Of(d)>>
    BY <1>2, EventLemma
  <2>2. Of(e[1]) <= company.number
    BY <2>1 DEF HistoryInv, EventsFit, StartsInOrder
  <2>3. QED
    BY <2>1, <2>2, HistoryAssumption DEF TaskPath
<1>4. ASSUME Ended(EventOf(d)) PROVE d[1] \notin pending
  <2> SUFFICES ASSUME NEW e \in rows, ~Ended(e), TaskPath(e) = d[1]
               PROVE  \E f \in rows : Ended(f) /\ TaskPath(f) = TaskPath(e) /\ at[f] >= at[e]
    BY DEF PendingDispatches
  <2>1. e[2] = "started" /\ e = Started(e[1]) /\ e[1] \in Dispatches
    BY <1>2, EventLemma DEF Ended, Started, EventAbout
  <2>2. at[Started(e[1])] <= at[Started(d)]
    <3>1. CASE e[1] = d
      BY <3>1, <2>1, <1>2 DEF HistoryInv
    <3>2. CASE e[1] # d
      <4>1. Of(e[1]) < Of(d)
        BY <1>2, <1>3, <3>2
      <4>2. QED
        BY <1>1, <2>1, <4>1 DEF HistoryInv, StartsInOrder
    <3>3. QED
      BY <3>1, <3>2
  <2>3. at[Started(d)] <= at[EventOf(d)]
    BY <1>1, <1>4 DEF HistoryInv, StartsInOrder, Ended
  <2>4. at[e] \in Nat /\ at[Started(d)] \in Nat /\ at[EventOf(d)] \in Nat
    <3>1. e \in Events /\ Started(d) \in Events /\ EventOf(d) \in Events
      BY <1>1, <1>2, DispatchLemma DEF HistoryInv
    <3>2. QED
      BY <1>2, <3>1, HistoryAssumption
  <2>5. QED
    BY <1>1, <1>4, <2>1, <2>2, <2>3, <2>4
<1>5. ASSUME ~Ended(EventOf(d)), ~Tied(d[1]) PROVE d[1] \in pending
  <2>1. EventOf(d) = Started(d) /\ dispatch[d].kind = "started"
    <3>1. dispatch[d].kind \in {"started"} \cup Terminal
      BY DispatchLemma DEF HistoryInv
    <3>2. dispatch[d].kind \notin Terminal
      BY <1>1, <1>5 DEF Ended
    <3>3. QED
      BY <3>1, <3>2 DEF EventOf, Started
  <2>2. ASSUME NEW f \in rows, Ended(f), TaskPath(f) = d[1], at[f] >= at[EventOf(d)] PROVE FALSE
    <3>1. f[1] # d
      BY <2>1, <2>2 DEF HistoryInv, EventsFit, Ended, Terminal
    <3>2. Of(f[1]) < company.number
      BY <1>2, <1>3, <2>2, <3>1
    <3>3. at[f] <= at[EventOf(d)]
      BY <1>1, <2>1, <3>2 DEF HistoryInv, OldRowsAreOld
    <3>4. at[f] = at[EventOf(d)]
      BY <1>1, <1>2, <2>2, <3>3, HistoryAssumption
    <3>5. QED
      BY <1>1, <1>5, <2>2, <3>1, <3>4 DEF Tied
  <2>3. EventOf(d) \in PendingDispatches(rows)
    BY <1>1, <1>5, <2>2 DEF PendingDispatches
  <2>4. QED
    BY <1>1, <2>3
<1>6. QED
  BY <1>4, <1>5

LEMMA BootHistoryStep == ASSUME HistoryInv, Boot PROVE HistoryInv'
<1> USE DEF HistoryInv
<1>1. /\ ~HasIndex /\ company'.number = company.number + 1 /\ company'.is = "booting"
      /\ company' \in [number : 0..MaxCompanies, is : {"booting", "on", "off", "dead"}]
      /\ company.number \in Nat /\ rows' = rows \cup disk /\ missed' = {}
      /\ UNCHANGED <<clock, at, disk, torn, since, dispatch, gone>>
  BY HistoryAssumption DEF Boot, HistoryTypeOK
<1>2. HistoryTypeOK'
  BY <1>1 DEF HistoryTypeOK
<1>3. \A d \in Dispatches : Of(d) \in Nat /\ (Begun(d) => Of(d) <= company.number)
  BY HistoryAssumption, EventLemma DEF StartsInOrder
<1>4. IndexFollowsLog' /\ EventsFit'
  BY <1>1 DEF IndexFollowsLog, EventsFit, Begun
<1>5. StartsInOrder'
  BY <1>1, <1>3 DEF StartsInOrder, Begun, EventOf
<1>6. OldRowsAreOld' /\ RowsAreWritten'
  <2>1. \A d \in Dispatches : Of(d) = company'.number => ~Begun(d)
    BY <1>1, <1>3
  <2>2. QED
    BY <1>1, <2>1 DEF OldRowsAreOld, RowsAreWritten, Begun
<1>7. QED
  BY <1>2, <1>4, <1>5, <1>6

(* A runtime that has started, stops or dies, and time that passes.         *)
RuntimeMoves ==
  /\ company'.number = company.number /\ (HasIndex' => HasIndex)
  /\ company' \in [number : 0..MaxCompanies, is : {"booting", "on", "off", "dead"}]
  /\ UNCHANGED <<at, disk, rows, missed>> /\ gone' \subseteq QueueFiles /\ torn' \in BOOLEAN
  /\ clock' \in 0..MaxClock /\ clock <= clock' /\ since' \in 0..MaxClock
  /\ dispatch' \in [Dispatches -> [at : Places, kind : {"started"} \cup Terminal]]
  /\ \A d \in Dispatches : /\ dispatch'[d].kind = dispatch[d].kind
                           /\ dispatch'[d].at = dispatch[d].at \/ (dispatch'[d].at = "dead" /\ Begun(d))

LEMMA RuntimeMovesLemma ==
  ASSUME HistoryTypeOK,
         DeclareStarted \/ StopCompany \/ CrashCompany \/ ClockTicks \/ (\E d \in Dispatches : UnlinkFile(d))
  PROVE  RuntimeMoves
<1> USE DEF HistoryTypeOK
<1>1. CASE DeclareStarted
  BY <1>1, HistoryAssumption DEF DeclareStarted, RuntimeMoves, HasIndex
<1>2. CASE StopCompany
  BY <1>2, HistoryAssumption DEF StopCompany, RuntimeMoves, HasIndex
<1>3. CASE CrashCompany
  <2>1. /\ dispatch' = [d \in Dispatches |-> IF Unfinished(d) THEN [dispatch[d] EXCEPT !.at = "dead"] ELSE dispatch[d]]
        /\ company' = [company EXCEPT !.is = "dead"]
        /\ UNCHANGED <<clock, at, disk, rows, since, gone, missed>>
    BY <1>3 DEF CrashCompany
  <2>2. torn' \in BOOLEAN
    BY <1>3 DEF CrashCompany
  <2>3. ASSUME NEW d \in Dispatches
        PROVE  /\ dispatch'[d] \in [at : Places, kind : {"started"} \cup Terminal]
               /\ dispatch'[d].kind = dispatch[d].kind
               /\ dispatch'[d].at = dispatch[d].at \/ (dispatch'[d].at = "dead" /\ Begun(d))
    <3>1. dispatch[d] \in [at : Places, kind : {"started"} \cup Terminal] /\ "dead" \in Places
      BY DEF Places
    <3>2. CASE Unfinished(d)
      <4>1. dispatch'[d] = [dispatch[d] EXCEPT !.at = "dead"] /\ Begun(d)
        BY <2>1, <3>2 DEF Unfinished, Begun
      <4>2. QED
        BY <3>1, <4>1
    <3>3. CASE ~Unfinished(d)
      BY <2>1, <3>1, <3>3
    <3>4. QED
      BY <3>2, <3>3
  <2>4. dispatch' \in [Dispatches -> [at : Places, kind : {"started"} \cup Terminal]]
    BY <2>1, <2>3
  <2>5. /\ company'.number = company.number /\ ~HasIndex'
        /\ company' \in [number : 0..MaxCompanies, is : {"booting", "on", "off", "dead"}]
    BY <2>1 DEF HasIndex
  <2>6. clock' \in 0..MaxClock /\ clock <= clock' /\ since' \in 0..MaxClock
    BY <2>1, HistoryAssumption
  <2> HIDE DEF HistoryTypeOK
  <2>7. gone' \subseteq QueueFiles
    BY <2>1 DEF HistoryTypeOK
  <2>8. QED
    BY <2>1, <2>2, <2>3, <2>4, <2>5, <2>6, <2>7 DEF RuntimeMoves
<1>4. CASE ClockTicks
  BY <1>4, HistoryAssumption DEF ClockTicks, RuntimeMoves, HasIndex
<1>5. CASE \E d \in Dispatches : UnlinkFile(d)
  <2>1. clock <= clock'
    BY <1>5, HistoryAssumption DEF UnlinkFile
  <2>2. QED
    BY <1>5, <2>1, EventLemma DEF UnlinkFile, RuntimeMoves, HasIndex
<1>6. QED
  BY <1>1, <1>2, <1>3, <1>4, <1>5

LEMMA RuntimeHistoryStep ==
  ASSUME HistoryInv,
         DeclareStarted \/ StopCompany \/ CrashCompany \/ ClockTicks \/ (\E d \in Dispatches : UnlinkFile(d))
  PROVE  HistoryInv'
<1> USE DEF HistoryInv
<1>1. /\ company'.number = company.number /\ (HasIndex' => HasIndex)
      /\ company' \in [number : 0..MaxCompanies, is : {"booting", "on", "off", "dead"}]
  BY RuntimeMovesLemma DEF RuntimeMoves
<1>2. UNCHANGED <<at, disk, rows, missed>> /\ gone' \subseteq QueueFiles /\ torn' \in BOOLEAN
  BY RuntimeMovesLemma DEF RuntimeMoves
<1>3. clock' \in 0..MaxClock /\ clock <= clock' /\ since' \in 0..MaxClock /\ clock \in Nat /\ clock' \in Nat
  BY RuntimeMovesLemma, HistoryAssumption DEF RuntimeMoves, HistoryTypeOK
<1>4. /\ dispatch' \in [Dispatches -> [at : Places, kind : {"started"} \cup Terminal]]
      /\ \A d \in Dispatches : /\ dispatch'[d].kind = dispatch[d].kind
                               /\ dispatch'[d].at = dispatch[d].at \/ (dispatch'[d].at = "dead" /\ Begun(d))
  BY RuntimeMovesLemma DEF RuntimeMoves
<1>5. /\ \A d \in Dispatches : (Begun(d)' <=> Begun(d)) /\ EventOf(d)' = EventOf(d)
  BY <1>4 DEF Begun, EventOf
<1>6. HistoryTypeOK'
  BY <1>1, <1>2, <1>3, <1>4 DEF HistoryTypeOK
<1>7. IndexFollowsLog'
  <2>1. CASE HasIndex'
    <3>1. dispatch' = dispatch \/ ~HasIndex'
      BY DEF DeclareStarted, StopCompany, CrashCompany, ClockTicks, UnlinkFile, HasIndex, HistoryTypeOK
    <3>2. QED
      BY <1>1, <1>2, <1>5, <2>1, <3>1 DEF IndexFollowsLog
  <2>2. QED
    BY <2>1 DEF IndexFollowsLog
<1>8. EventsFit'
  BY <1>2, <1>4, <1>5, EventLemma DEF EventsFit, HistoryTypeOK, Ended
<1>9. StartsInOrder'
  <2>1. \A e \in Events : at'[e] <= clock'
    BY <1>2, <1>3, HistoryAssumption DEF StartsInOrder, HistoryTypeOK
  <2>2. QED
    BY <1>1, <1>2, <1>4, <1>5, <2>1 DEF StartsInOrder
<1>10. OldRowsAreOld' /\ RowsAreWritten'
  BY <1>1, <1>2, <1>4, <1>5 DEF OldRowsAreOld, RowsAreWritten
<1>11. QED
  BY <1>6, <1>7, <1>8, <1>9, <1>10

LEMMA AppendLineStep == ASSUME HistoryInv, NEW d \in Dispatches, AppendLine(d) PROVE HistoryInv'
<1> USE DEF HistoryInv
<1>1. /\ dispatch[d].at = "stamped" /\ torn' = FALSE /\ disk \subseteq disk' /\ disk' \subseteq disk \cup {EventOf(d)}
      /\ UNCHANGED <<clock, at, rows, company, since, gone, missed>>
  BY DEF AppendLine
<1>2. /\ dispatch' \in [Dispatches -> [at : Places, kind : {"started"} \cup Terminal]]
      /\ dispatch'[d].at = "landed" /\ dispatch'[d].kind = dispatch[d].kind
      /\ \A c \in Dispatches : c # d => dispatch'[c] = dispatch[c]
  BY DEF AppendLine, HistoryTypeOK, Places
<1>3. /\ EventOf(d) \in Events /\ EventOf(d)[1] = d /\ EventOf(d)[2] = dispatch[d].kind
      /\ \A c \in Dispatches : (Begun(c)' <=> Begun(c)) /\ EventOf(c)' = EventOf(c) /\ dispatch'[c].kind = dispatch[c].kind
  BY <1>1, <1>2, DispatchLemma DEF Begun, EventOf
<1>4. HistoryTypeOK'
  BY <1>1, <1>2, <1>3 DEF HistoryTypeOK
<1>5. IndexFollowsLog'
  <2>1. \A c \in Dispatches : dispatch[c].at = "landed" => dispatch'[c].at = "landed"
    BY <1>1, <1>2
  <2>2. QED
    BY <1>1, <1>2, <1>3, <2>1 DEF IndexFollowsLog, HasIndex
<1>6. EventsFit'
  <2>1. ASSUME NEW e \in rows' \cup disk' PROVE Begun(e[1])' /\ (Ended(e) => dispatch'[e[1]].kind = e[2])
    <3>1. CASE e = EventOf(d)
      BY <1>1, <1>2, <1>3, <3>1 DEF Begun
    <3>2. CASE e \in rows \cup disk
      BY <1>3, <3>2, EventLemma DEF EventsFit, HistoryTypeOK
    <3>3. QED
      BY <1>1, <3>1, <3>2
  <2>2. QED
    BY <2>1 DEF EventsFit, Ended
<1>7. StartsInOrder'
  BY <1>1, <1>3 DEF StartsInOrder
<1>8. OldRowsAreOld' /\ RowsAreWritten'
  BY <1>1, <1>2, <1>3 DEF OldRowsAreOld, RowsAreWritten
<1>9. QED
  BY <1>4, <1>5, <1>6, <1>7, <1>8

LEMMA IndexEventStep == ASSUME HistoryInv, NEW d \in Dispatches, IndexEvent(d) PROVE HistoryInv'
<1> USE DEF HistoryInv
<1>1. /\ dispatch[d].at = "landed" /\ UNCHANGED <<clock, at, disk, torn, company, since, gone>>
      /\ \/ Of(d) = company.number /\ rows' = rows \cup {EventOf(d)} /\ UNCHANGED missed
         \/ missed' = missed \cup {EventOf(d)} /\ UNCHANGED rows
  BY DEF IndexEvent
<1>2. /\ dispatch' \in [Dispatches -> [at : Places, kind : {"started"} \cup Terminal]]
      /\ dispatch'[d].at = "indexed" /\ dispatch'[d].kind = dispatch[d].kind
      /\ \A c \in Dispatches : c # d => dispatch'[c] = dispatch[c]
  BY DEF IndexEvent, HistoryTypeOK, Places
<1>3. /\ EventOf(d) \in Events /\ EventOf(d)[1] = d /\ EventOf(d)[2] = dispatch[d].kind
      /\ \A c \in Dispatches : (Begun(c)' <=> Begun(c)) /\ EventOf(c)' = EventOf(c) /\ dispatch'[c].kind = dispatch[c].kind
  BY <1>1, <1>2, DispatchLemma DEF Begun, EventOf
<1>4. HistoryTypeOK'
  BY <1>1, <1>2, <1>3 DEF HistoryTypeOK
<1>5. IndexFollowsLog'
  BY <1>1, <1>2, <1>3 DEF IndexFollowsLog, HasIndex
<1>6. EventsFit'
  <2>1. ASSUME NEW e \in rows' \cup disk' PROVE Begun(e[1])' /\ (Ended(e) => dispatch'[e[1]].kind = e[2])
    <3>1. CASE e = EventOf(d)
      BY <1>1, <1>2, <1>3, <3>1 DEF Begun
    <3>2. CASE e \in rows \cup disk
      BY <1>3, <3>2, EventLemma DEF EventsFit, HistoryTypeOK
    <3>3. QED
      BY <1>1, <3>1, <3>2
  <2>2. QED
    BY <2>1 DEF EventsFit, Ended
<1>7. StartsInOrder'
  BY <1>1, <1>3 DEF StartsInOrder
<1>8. OldRowsAreOld'
  <2>1. ASSUME NEW e \in rows', NEW c \in Dispatches, Of(e[1]) < company.number, Of(c) = company.number, Begun(c)
        PROVE  at[e] <= at[Started(c)]
    <3>1. e # EventOf(d) \/ Of(d) # company.number
      BY <1>3, <2>1, HistoryAssumption DEF HistoryTypeOK
    <3>2. e \in rows
      BY <1>1, <2>1, <3>1
    <3>3. QED
      BY <2>1, <3>2 DEF OldRowsAreOld
  <2>2. QED
    BY <1>1, <1>3, <2>1 DEF OldRowsAreOld, Started
<1>9. RowsAreWritten'
  BY <1>1, <1>2, <1>3 DEF RowsAreWritten
<1>10. QED
  BY <1>4, <1>5, <1>6, <1>7, <1>8, <1>9

(* The event of a dispatch is given its time.                              *)
LEMMA StampLemma ==
  ASSUME HistoryTypeOK, NEW d \in Dispatches, NEW kind \in {"started"} \cup Terminal, StampEvent(d, kind)
  PROVE  /\ at' \in [Events -> 0..MaxClock] /\ at'[EventAbout(d, kind)] = clock
         /\ \A e \in Events : e # EventAbout(d, kind) => at'[e] = at[e]
         /\ dispatch' \in [Dispatches -> [at : Places, kind : {"started"} \cup Terminal]]
         /\ dispatch'[d].at = "stamped" /\ dispatch'[d].kind = kind
         /\ \A c \in Dispatches : c # d => dispatch'[c] = dispatch[c] /\ EventOf(c)' = EventOf(c)
<1>1. EventAbout(d, kind) \in Events
  BY EventLemma
<1>2. /\ at' = [at EXCEPT ![EventAbout(d, kind)] = clock]
      /\ dispatch' = [dispatch EXCEPT ![d] = [at |-> "stamped", kind |-> kind]]
  BY DEF StampEvent
<1>3. at' \in [Events -> 0..MaxClock] /\ at'[EventAbout(d, kind)] = clock
      /\ \A e \in Events : e # EventAbout(d, kind) => at'[e] = at[e]
  BY <1>1, <1>2 DEF HistoryTypeOK
<1>4. [at |-> "stamped", kind |-> kind] \in [at : Places, kind : {"started"} \cup Terminal]
  BY DEF Places
<1>5. dispatch' \in [Dispatches -> [at : Places, kind : {"started"} \cup Terminal]]
      /\ dispatch'[d] = [at |-> "stamped", kind |-> kind]
      /\ \A c \in Dispatches : c # d => dispatch'[c] = dispatch[c]
  BY <1>2, <1>4 DEF HistoryTypeOK
<1>6. QED
  BY <1>3, <1>5 DEF EventOf

LEMMA BeginDispatchStep == ASSUME HistoryInv, NEW d \in Dispatches, BeginDispatch(d) PROVE HistoryInv'
<1> USE DEF HistoryInv
<1>1. /\ Of(d) = company.number /\ ~Begun(d) /\ dispatch[d].at = "queued"
      /\ UNCHANGED <<clock, disk, torn, rows, company, since, gone, missed>>
  BY DEF BeginDispatch, Begun
<1>2. /\ at' \in [Events -> 0..MaxClock] /\ at'[Started(d)] = clock
      /\ \A e \in Events : e # Started(d) => at'[e] = at[e]
      /\ dispatch' \in [Dispatches -> [at : Places, kind : {"started"} \cup Terminal]]
      /\ dispatch'[d].at = "stamped" /\ dispatch'[d].kind = "started"
      /\ \A c \in Dispatches : c # d => dispatch'[c] = dispatch[c] /\ EventOf(c)' = EventOf(c)
  BY StampLemma DEF BeginDispatch, Started
<1>3. HistoryTypeOK'
  BY <1>1, <1>2 DEF HistoryTypeOK
<1>4. IndexFollowsLog'
  <2>1. \A c \in Dispatches : dispatch[c].at = "landed" => c # d
    BY <1>1
  <2>2. QED
    BY <1>1, <1>2, <2>1 DEF IndexFollowsLog, HasIndex
<1>5. \A e \in rows \cup disk : e \in Events /\ e[1] \in Dispatches /\ e[1] # d /\ at'[e] = at[e]
  BY <1>1, <1>2, EventLemma, DispatchLemma DEF EventsFit, HistoryTypeOK
<1>6. EventsFit'
  <2>1. ASSUME NEW e \in rows' \cup disk' PROVE Begun(e[1])' /\ (Ended(e) => dispatch'[e[1]].kind = e[2])
    BY <1>1, <1>2, <1>5 DEF EventsFit, Begun
  <2>2. QED
    BY <2>1 DEF EventsFit, Ended
<1>7. \A c \in Dispatches : c # d => at'[Started(c)] = at[Started(c)] /\ at'[EventOf(c)] = at[EventOf(c)]
  <2>1. \A c \in Dispatches : c # d => Started(c) # Started(d) /\ EventOf(c) # Started(d)
    BY DispatchLemma
  <2>2. QED
    BY <1>2, <2>1, DispatchLemma
<1>8. clock \in Nat /\ \A c \in Dispatches : Of(c) \in Nat
  BY HistoryAssumption, EventLemma DEF HistoryTypeOK
<1>9. StartsInOrder'
  <2>1. \A e \in Events : at'[e] <= clock
    BY <1>2, <1>8 DEF StartsInOrder
  <2>2. ASSUME NEW b \in Dispatches, b = d
        PROVE  /\ Of(b) <= company.number /\ dispatch'[b].kind \notin Terminal
               /\ \A c \in Dispatches : Of(c) < Of(b) => at'[Started(c)] <= at'[Started(b)]
    <3>1. Of(b) <= company.number
      BY <1>1, <1>8, <2>2
    <3>2. \A c \in Dispatches : Started(c) \in Events
      BY DispatchLemma
    <3>3. QED
      BY <1>2, <2>1, <2>2, <3>1, <3>2 DEF Terminal
  <2>3. ASSUME NEW b \in Dispatches, b # d, Begun(b)'
        PROVE  /\ Of(b) <= company.number
               /\ dispatch'[b].kind \in Terminal => at'[Started(b)] <= at'[EventOf(b)']
               /\ \A c \in Dispatches : Of(c) < Of(b) => at'[Started(c)] <= at'[Started(b)]
    <3>1. Begun(b) /\ dispatch'[b] = dispatch[b] /\ EventOf(b)' = EventOf(b)
      BY <1>2, <2>3 DEF Begun
    <3>2. \A c \in Dispatches : Of(c) < Of(b) => c # d
      BY <1>1, <1>8, <3>1 DEF StartsInOrder
    <3>3. QED
      BY <1>7, <2>3, <3>1, <3>2 DEF StartsInOrder
  <2>4. QED
    BY <1>1, <2>1, <2>2, <2>3 DEF StartsInOrder, Started
<1>10. OldRowsAreOld'
  <2>1. ASSUME NEW e \in rows, NEW c \in Dispatches, Of(e[1]) < company.number, Of(c) = company.number, Begun(c)'
        PROVE  at'[e] <= at'[Started(c)]
    <3>1. CASE c = d
      BY <1>2, <1>5, <3>1 DEF StartsInOrder
    <3>2. CASE c # d
      BY <1>2, <1>5, <1>7, <2>1, <3>2 DEF OldRowsAreOld, Begun
    <3>3. QED
      BY <3>1, <3>2
  <2>2. QED
    BY <1>1, <2>1 DEF OldRowsAreOld, Started
<1>11. RowsAreWritten'
  BY <1>1, <1>2 DEF RowsAreWritten
<1>12. QED
  BY <1>3, <1>4, <1>6, <1>9, <1>10, <1>11

LEMMA EndDispatchStep == ASSUME HistoryInv, NEW d \in Dispatches, EndDispatch(d) PROVE HistoryInv'
<1> USE DEF HistoryInv
<1>1. PICK kind \in Terminal : StampEvent(d, kind)
  BY DEF EndDispatch
<1>2. /\ dispatch[d].at = "indexed" /\ dispatch[d].kind = "started" /\ Begun(d)
      /\ UNCHANGED <<clock, disk, torn, rows, company, since, gone, missed>>
  BY DEF EndDispatch, Begun
<1>3. /\ at' \in [Events -> 0..MaxClock] /\ at'[EventAbout(d, kind)] = clock
      /\ \A e \in Events : e # EventAbout(d, kind) => at'[e] = at[e]
      /\ dispatch' \in [Dispatches -> [at : Places, kind : {"started"} \cup Terminal]]
      /\ dispatch'[d].at = "stamped" /\ dispatch'[d].kind = kind
      /\ \A c \in Dispatches : c # d => dispatch'[c] = dispatch[c] /\ EventOf(c)' = EventOf(c)
  BY <1>1, StampLemma
<1>4. HistoryTypeOK'
  BY <1>2, <1>3 DEF HistoryTypeOK
<1>5. IndexFollowsLog'
  <2>1. \A c \in Dispatches : dispatch[c].at = "landed" => c # d
    BY <1>2
  <2>2. QED
    BY <1>2, <1>3, <2>1 DEF IndexFollowsLog, HasIndex
<1>6. /\ EventAbout(d, kind) \in Events /\ EventAbout(d, kind)[1] = d /\ EventAbout(d, kind)[2] = kind
      /\ EventOf(d)' = EventAbout(d, kind)
      /\ \A c \in Dispatches : Started(c) \in Events /\ Started(c) # EventAbout(d, kind)
      /\ \A c \in Dispatches : c # d => EventOf(c) \in Events /\ EventOf(c) # EventAbout(d, kind)
  <2>1. EventAbout(d, kind) \in Events /\ EventAbout(d, kind)[1] = d /\ EventAbout(d, kind)[2] = kind
    BY EventLemma
  <2>2. "started" \notin Terminal
    BY DEF Terminal
  <2>3. EventOf(d)' = EventAbout(d, kind)
    BY <1>3 DEF EventOf
  <2>4. QED
    BY <2>1, <2>2, <2>3, DispatchLemma
<1>7. \A e \in rows \cup disk :
        e \in Events /\ e[1] \in Dispatches /\ (e[1] = d => ~Ended(e)) /\ at'[e] = at[e]
  <2>1. ASSUME NEW e \in rows \cup disk
        PROVE  e \in Events /\ e[1] \in Dispatches /\ (e[1] = d => ~Ended(e)) /\ e # EventAbout(d, kind)
    <3>1. e \in Events /\ e[1] \in Dispatches
      BY EventLemma DEF HistoryTypeOK
    <3>2. e[1] = d => ~Ended(e)
      BY <1>2 DEF EventsFit, Ended, Terminal
    <3>3. QED
      BY <1>6, <3>1, <3>2 DEF Ended
  <2>2. QED
    BY <1>3, <2>1
<1>8. EventsFit'
  <2>1. ASSUME NEW e \in rows' \cup disk' PROVE Begun(e[1])' /\ (Ended(e) => dispatch'[e[1]].kind = e[2])
    BY <1>2, <1>3, <1>7 DEF EventsFit, Begun
  <2>2. QED
    BY <2>1 DEF EventsFit, Ended
<1>9. /\ \A c \in Dispatches : at'[Started(c)] = at[Started(c)] /\ (Begun(c)' <=> Begun(c))
      /\ \A c \in Dispatches : c # d => at'[EventOf(c)] = at[EventOf(c)]
  BY <1>2, <1>3, <1>6 DEF Begun
<1>10. StartsInOrder'
  <2>1. clock \in Nat /\ \A e \in Events : at'[e] <= clock
    BY <1>3, HistoryAssumption DEF StartsInOrder, HistoryTypeOK
  <2>2. at'[Started(d)] <= at'[EventOf(d)']
    BY <1>3, <1>6, <2>1
  <2>3. ASSUME NEW b \in Dispatches, Begun(b)'
        PROVE  /\ Of(b) <= company.number
               /\ dispatch'[b].kind \in Terminal => at'[Started(b)] <= at'[EventOf(b)']
               /\ \A c \in Dispatches : Of(c) < Of(b) => at'[Started(c)] <= at'[Started(b)]
    <3>1. Begun(b)
      BY <1>9, <2>3
    <3>2. CASE b = d
      BY <1>9, <2>2, <3>1, <3>2 DEF StartsInOrder
    <3>3. CASE b # d
      BY <1>3, <1>9, <3>1, <3>3 DEF StartsInOrder
    <3>4. QED
      BY <3>2, <3>3
  <2>4. QED
    BY <1>2, <2>1, <2>3 DEF StartsInOrder, Started
<1>11. OldRowsAreOld'
  <2>1. \A e \in rows, c \in Dispatches : Of(e[1]) < company.number /\ Of(c) = company.number /\ Begun(c)'
          => at'[e] <= at'[Started(c)]
    BY <1>7, <1>9 DEF OldRowsAreOld
  <2>2. QED
    BY <1>2, <2>1 DEF OldRowsAreOld, Started
<1>12. RowsAreWritten'
  BY <1>2, <1>3 DEF RowsAreWritten
<1>13. QED
  BY <1>4, <1>5, <1>8, <1>10, <1>11, <1>12

(* What an earlier runtime left in the index precedes the start of this one. *)
OldRowsPrecede ==
  company.is = "on" => \A e \in rows : Of(e[1]) = company.number \/ at[e] <= since

LEMMA OldRowsStep ==
  ASSUME HistoryInv, OldRowsPrecede, HistoryNext
  PROVE  OldRowsPrecede'
<1> USE DEF OldRowsPrecede
<1>1. rows \subseteq Events /\ \A e \in rows : at[e] <= clock
  BY DEF HistoryInv, HistoryTypeOK, StartsInOrder
<1>2. company \in [number : 0..MaxCompanies, is : {"booting", "on", "off", "dead"}]
  BY DEF HistoryInv, HistoryTypeOK
<1>3. CASE Boot
  BY <1>3 DEF Boot
<1>4. CASE DeclareStarted
  <2>1. since' = clock /\ company'.number = company.number /\ UNCHANGED <<rows, at>>
    BY <1>2, <1>4 DEF DeclareStarted
  <2>2. QED
    BY <1>1, <2>1
<1>5. CASE StopCompany \/ CrashCompany
  BY <1>2, <1>5 DEF StopCompany, CrashCompany
<1>6. CASE ClockTicks
  BY <1>6 DEF ClockTicks
<1>7. ASSUME NEW d \in Dispatches, BeginDispatch(d) \/ EndDispatch(d)
      PROVE  OldRowsPrecede'
  <2>1. PICK kind \in {"started"} \cup Terminal :
          StampEvent(d, kind) /\ (kind = "started" => dispatch[d].at = "queued")
                              /\ (kind \in Terminal => dispatch[d].kind = "started")
    BY <1>7 DEF BeginDispatch, EndDispatch, Terminal
  <2>2. \A e \in rows : e # EventAbout(d, kind)
    <3>1. EventAbout(d, kind)[1] = d /\ EventAbout(d, kind)[2] = kind
      BY EventLemma
    <3>2. \A e \in rows : Begun(e[1]) /\ (Ended(e) => dispatch[e[1]].kind = e[2])
      BY DEF HistoryInv, EventsFit
    <3>3. kind \in Terminal \/ kind = "started"
      BY <2>1
    <3>4. QED
      BY <2>1, <3>1, <3>2, <3>3 DEF Begun, Ended, Terminal
  <2>3. \A e \in rows : at'[e] = at[e]
    BY <1>1, <2>1, <2>2 DEF StampEvent, HistoryInv, HistoryTypeOK
  <2>4. UNCHANGED <<rows, company, since>>
    BY <1>7 DEF BeginDispatch, EndDispatch
  <2>5. QED
    BY <2>3, <2>4
<1>8. ASSUME NEW d \in Dispatches, AppendLine(d) \/ UnlinkFile(d)
      PROVE  OldRowsPrecede'
  BY <1>8 DEF AppendLine, UnlinkFile
<1>9. ASSUME NEW d \in Dispatches, IndexEvent(d)
      PROVE  OldRowsPrecede'
  <2>1. /\ UNCHANGED <<company, since, at>>
        /\ rows' = rows \/ (Of(d) = company.number /\ rows' = rows \cup {EventOf(d)})
    BY <1>9 DEF IndexEvent
  <2>2. EventOf(d)[1] = d
    BY DispatchLemma DEF HistoryInv
  <2>3. QED
    BY <2>1, <2>2
<1>10. QED
  BY <1>3, <1>4, <1>5, <1>6, <1>7, <1>8, <1>9 DEF HistoryNext

(* A set of numbers up to some bound has a greatest one.                   *)
LEMMA GreatestNumber ==
  ASSUME NEW S \in SUBSET Nat, S # {}, NEW b \in Nat, \A n \in S : n <= b
  PROVE  \E m \in S : \A n \in S : n <= m
<1> DEFINE T == {k \in Nat : \E n \in S : k = b - n}
<1>1. T \subseteq Nat /\ T # {}
  <2>1. PICK n \in S : TRUE
    OBVIOUS
  <2>2. b - n \in T
    BY <2>1
  <2>3. QED
    BY <2>2
<1>2. PICK k \in T : \A j \in T : <<j, k>> \notin OpToRel(<, Nat)
  <2> HIDE DEF T
  <2>1. QED
    BY <1>1, NatLessThanWellFounded, WFMin, Zenon
<1>3. PICK m \in S : k = b - m
  BY <1>2
<1>4. \A j \in T : ~(j < k)
  <2>1. T \subseteq Nat
    BY <1>1
  <2> HIDE DEF T
  <2>2. QED
    BY <1>2, <2>1 DEF OpToRel
<1>5. \A n \in S : b - n \in T
  OBVIOUS
<1>6. \A n \in S : ~(b - n < b - m)
  BY <1>3, <1>4, <1>5
<1>7. QED
  BY <1>6

(* The page, which has the newest rows only, never shows more pending files *)
(* than the index, and the same ones when it has all rows.                  *)
LEMMA PageLemma == HistoryInv /\ OldRowsPrecede => PageAgrees
<1> SUFFICES ASSUME HistoryInv, OldRowsPrecede, company.is = "on", NEW recent \in Recent(rows)
             PROVE  /\ \A path \in QueueFiles : ~Tied(path) =>
                         /\ path \in PagePending(recent) => path \in {TaskPath(e) : e \in PendingDispatches(rows)}
                         /\ Cardinality(recent) < Limit =>
                              (path \in {TaskPath(e) : e \in PendingDispatches(rows)} => path \in PagePending(recent))
                    /\ \A e \in RecentFailures(recent) : Of(e[1]) = company.number \/ at[e] = since
  BY DEF PageAgrees
<1>1. /\ recent \subseteq rows /\ rows \subseteq Events /\ at \in [Events -> 0..MaxClock] /\ since \in 0..MaxClock
      /\ \A e \in recent, f \in rows \ recent : at[e] >= at[f]
      /\ \A e \in rows : at[e] \in Nat /\ at[e] <= MaxClock /\ (Ended(e) <=> e[2] # "started")
  <2>1. \A e \in Events : Ended(e) <=> e[2] # "started"
    BY EventLemma DEF Ended, Terminal
  <2>2. rows \subseteq Events /\ at \in [Events -> 0..MaxClock] /\ since \in 0..MaxClock /\ MaxClock \in Nat
    BY HistoryAssumption DEF HistoryInv, HistoryTypeOK
  <2>3. recent \subseteq rows /\ \A e \in recent, f \in rows \ recent : at[e] >= at[f]
    BY DEF Recent
  <2>4. QED
    BY <2>1, <2>2, <2>3
<1>2. ASSUME NEW path \in QueueFiles, ~Tied(path), path \in PagePending(recent)
      PROVE  path \in {TaskPath(e) : e \in PendingDispatches(rows)}
  <2>1. PICK e \in recent : TaskPath(e) = path /\ ~Ended(e) /\ \A f \in recent : TaskPath(f) = path => at[f] <= at[e]
    BY <1>2 DEF PagePending
  <2>2. ASSUME NEW f \in rows, Ended(f), TaskPath(f) = path, at[f] >= at[e] PROVE FALSE
    <3>1. e # f /\ at[e] # at[f]
      BY <1>1, <1>2, <2>1, <2>2 DEF Tied
    <3>2. f \notin recent
      BY <1>1, <2>1, <2>2, <3>1
    <3>3. QED
      BY <1>1, <2>2, <3>1, <3>2
  <2>3. e \in PendingDispatches(rows)
    BY <1>1, <2>1, <2>2 DEF PendingDispatches
  <2>4. QED
    BY <2>1, <2>3
<1>3. ASSUME Cardinality(recent) < Limit
      PROVE  recent = rows
  <2>1. IsFiniteSet(rows)
    <3>1. IsFiniteSet(Events)
      <4>1. IsFiniteSet(1..MaxCompanies) /\ IsFiniteSet(QueueFiles)
        BY HistoryAssumption, FS_Interval
      <4>2. IsFiniteSet(Dispatches)
        BY <4>1, FS_Product DEF Dispatches
      <4>3. IsFiniteSet({"started", "completed", "failed"})
        <5>1. IsFiniteSet({"completed"}) /\ IsFiniteSet({"failed"}) /\ IsFiniteSet({"started"})
          BY FS_Singleton
        <5>2. IsFiniteSet({"completed"} \cup {"failed"})
          BY <5>1, FS_Union
        <5>3. IsFiniteSet({"started"} \cup ({"completed"} \cup {"failed"}))
          BY <5>1, <5>2, FS_Union
        <5>4. {"started"} \cup ({"completed"} \cup {"failed"}) = {"started", "completed", "failed"}
          OBVIOUS
        <5>5. QED
          BY <5>3, <5>4
      <4>4. {"started"} \cup Terminal = {"started", "completed", "failed"}
        BY DEF Terminal
      <4>5. IsFiniteSet({"started"} \cup Terminal)
        BY <4>3, <4>4
      <4>6. QED
        BY <4>2, <4>5, FS_Product DEF Events
    <3>2. QED
      BY <1>1, <3>1, FS_Subset
  <2>2. Cardinality(recent) = Cardinality(rows)
    BY <1>3, HistoryAssumption DEF Recent
  <2>3. QED
    BY <1>1, <2>1, <2>2, FS_Subset
<1>4. ASSUME NEW path \in QueueFiles, Cardinality(recent) < Limit, path \in {TaskPath(e) : e \in PendingDispatches(rows)}
      PROVE  path \in PagePending(recent)
  <2>1. PICK e \in rows : /\ ~Ended(e) /\ TaskPath(e) = path
                          /\ \A f \in rows : Ended(f) /\ TaskPath(f) = path => at[f] < at[e]
    BY <1>1, <1>4 DEF PendingDispatches
  <2> DEFINE T == {at[f] : f \in {f \in rows : TaskPath(f) = path}}
  <2>2. T \subseteq Nat /\ at[e] \in T /\ \A n \in T : n <= MaxClock
    BY <1>1, <2>1
  <2>3. PICK m \in T : \A n \in T : n <= m
    <3> HIDE DEF T
    <3>1. QED
      BY <2>2, GreatestNumber, HistoryAssumption
  <2>4. PICK g \in rows : TaskPath(g) = path /\ at[g] = m
    BY <2>3
  <2>5. \A f \in rows : TaskPath(f) = path => at[f] <= at[g]
    BY <2>3, <2>4
  <2>6. ~Ended(g)
    BY <1>1, <2>1, <2>4, <2>5
  <2>7. QED
    BY <1>3, <1>4, <2>4, <2>5, <2>6 DEF PagePending
<1>5. ASSUME NEW e \in RecentFailures(recent)
      PROVE  Of(e[1]) = company.number \/ at[e] = since
  BY <1>1, <1>5 DEF RecentFailures, OldRowsPrecede
<1>6. QED
  BY <1>2, <1>4, <1>5

(* HistoryIsTrue: the index of a runtime that runs has every event of the   *)
(* log whose row could be written; a file is pending while this runtime     *)
(* executes it, and no more once that has ended, whatever dispatches of     *)
(* earlier runtimes still write; and the page, which has the newest rows    *)
(* only, agrees and takes no failure of an earlier runtime for a new one    *)
(* (company-event-log.js, company-event-index.js, runtime.vue).             *)
THEOREM HistoryIsKept == HistorySpec => [](HistoryTypeOK /\ HistoryIsTrue)
<1>1. HistoryInit => HistoryInv
  <2> SUFFICES ASSUME HistoryInit PROVE HistoryInv
    OBVIOUS
  <2>1. HistoryTypeOK
    <3>1. at \in [Events -> 0..MaxClock] /\ clock \in 0..MaxClock /\ since \in 0..MaxClock
      BY HistoryAssumption DEF HistoryInit
    <3>2. dispatch \in [Dispatches -> [at : Places, kind : {"started"} \cup Terminal]]
      BY DEF HistoryInit, Places
    <3>3. company \in [number : 0..MaxCompanies, is : {"booting", "on", "off", "dead"}]
      BY HistoryAssumption DEF HistoryInit
    <3>4. QED
      BY <3>1, <3>2, <3>3 DEF HistoryInit, HistoryTypeOK
  <2>2. \A d \in Dispatches : ~Begun(d)
    BY DEF HistoryInit, Begun
  <2>3. \A e \in Events : at[e] <= clock
    BY DEF HistoryInit
  <2>4. QED
    BY <2>1, <2>2, <2>3 DEF HistoryInit, HistoryInv, IndexFollowsLog, EventsFit, StartsInOrder, OldRowsAreOld,
                            RowsAreWritten, Begun
<1>2. HistoryInv /\ [HistoryNext]_historyVars => HistoryInv'
  <2> SUFFICES ASSUME HistoryInv, [HistoryNext]_historyVars PROVE HistoryInv'
    OBVIOUS
  <2>1. CASE UNCHANGED historyVars
    BY <2>1 DEF historyVars, HistoryInv, HistoryTypeOK, IndexFollowsLog, HasIndex, EventOf, EventsFit, StartsInOrder,
                OldRowsAreOld, RowsAreWritten, Begun, Started
  <2>2. QED
    BY <2>1, BootHistoryStep, RuntimeHistoryStep, BeginDispatchStep, EndDispatchStep, AppendLineStep, IndexEventStep
       DEF HistoryNext
<1>3. HistoryInit => OldRowsPrecede
  BY DEF HistoryInit, OldRowsPrecede
<1>4. HistoryInv /\ OldRowsPrecede /\ [HistoryNext]_historyVars => OldRowsPrecede'
  <2>1. UNCHANGED historyVars /\ OldRowsPrecede => OldRowsPrecede'
    BY DEF historyVars, OldRowsPrecede
  <2>2. QED
    BY <2>1, OldRowsStep
<1>5. HistoryInv /\ OldRowsPrecede => HistoryTypeOK /\ HistoryIsTrue
  BY PendingLemma, PageLemma DEF HistoryInv, HistoryIsTrue
<1>6. QED
  BY <1>1, <1>2, <1>3, <1>4, <1>5, PTL DEF HistorySpec

-----------------------------------------------------------------------------
(* ProjectWorkflow: what a project's workflow means                        *)

(* The records have their fields.                                          *)
OpenedShape == opened = [at |-> opened.at, id |-> opened.id, workflow |-> opened.workflow, as |-> opened.as]
ChoiceShape == choice = [at |-> choice.at, id |-> choice.id, slugs |-> choice.slugs, as |-> choice.as]
PromptShape ==
  prompt = [at |-> prompt.at, step |-> prompt.step, id |-> prompt.id, workflow |-> prompt.workflow,
            body |-> prompt.body, as |-> prompt.as]
AutoShape ==
  auto = [at |-> auto.at, step |-> auto.step, afterTurn |-> auto.afterTurn, id |-> auto.id,
          artifacts |-> auto.artifacts, as |-> auto.as]
UsedShape ==
  used = [version |-> used.version, changes |-> used.changes, requests |-> used.requests,
          unearned |-> used.unearned, missed |-> used.missed]
WorkflowIds == Folders \cup {"spec-kit"}

(* A request knows the version it began at, an id and, if it is about one, *)
(* a step.                                                                 *)
WorkflowTyped ==
  /\ OpenedShape /\ ChoiceShape /\ PromptShape /\ AutoShape /\ UsedShape
  /\ ProjectWorkflowTypeOK
  /\ used.version \in Nat
  /\ opened.as \in Nat /\ choice.as \in Nat /\ prompt.as \in Nat /\ auto.as \in Nat
  /\ opened.as <= used.version /\ choice.as <= used.version
  /\ prompt.as <= used.version /\ auto.as <= used.version
  /\ choice.slugs \subseteq Folders /\ (choice.at # "idle" => choice.id \in WorkflowIds)
  /\ prompt.at # "idle" => prompt.id \in WorkflowIds
  /\ auto.at # "idle" => auto.id \in WorkflowIds /\ auto.step \in StepNames

(* While nothing changes the meaning of a workflow, what a request read is *)
(* what it means now.                                                      *)
PageFits ==
  opened.as = used.version =>
    /\ opened.at \in {"asked", "shown"} => opened.id = meta
    /\ opened.at = "shown" => opened.workflow = WorkflowNamed(meta)

Offered == \E w \in ListWorkflows(choice.slugs) : w.id = choice.id
ChoiceFits ==
  /\ choice.at = "checked" /\ choice.as = used.version => Offered
  /\ choice.at = "saved" => choice.as < used.version
  /\ choice.at = "saved" /\ used.version = choice.as + 1 => meta = choice.id /\ Offered

(* The workflow whose texts an agent is told.                              *)
OwnWorkflow(id) == IF id = "spec-kit" THEN NoWorkflow ELSE LoadWorkflow(id)
ToldWorkflow(id, s) == IF HasStep(OwnWorkflow(id), s) THEN OwnWorkflow(id) ELSE SpecKit
PromptFits ==
  prompt.as = used.version =>
    /\ prompt.at # "idle" => prompt.id = meta
    /\ prompt.at = "begun" => prompt.workflow = NoWorkflow
    /\ prompt.at = "found" => HasStep(ToldWorkflow(prompt.id, prompt.step), prompt.step)
                              /\ prompt.workflow = ToldWorkflow(prompt.id, prompt.step)
    /\ prompt.at = "told" =>
         \/ prompt.workflow = NoWorkflow /\ ~HasStep(ToldWorkflow(prompt.id, prompt.step), prompt.step)
         \/ /\ prompt.workflow = ToldWorkflow(prompt.id, prompt.step)
            /\ prompt.workflow # SpecKit => prompt.body = CommandBody(prompt.id, prompt.step)

ArtifactsNamed(id, s) == IF HasStep(WorkflowNamed(id), s) THEN StepOf(WorkflowNamed(id), s).artifacts ELSE {}
AutoFits ==
  auto.as = used.version /\ auto.at # "idle" =>
    auto.id = meta /\ (auto.at = "found" => auto.artifacts = ArtifactsNamed(auto.id, auto.step))

ProjectWorkflowInv ==
  WorkflowTyped /\ PageFits /\ ChoiceFits /\ PromptFits /\ AutoFits /\ StepsCompleteByFiles

LEMMA SameReading ==
  ASSUME UNCHANGED installed
  PROVE  /\ \A id : LoadWorkflow(id)' = LoadWorkflow(id) /\ WorkflowNamed(id)' = WorkflowNamed(id)
         /\ \A id, s : CommandBody(id, s)' = CommandBody(id, s)
         /\ \A slugs : ListWorkflows(slugs)' = ListWorkflows(slugs)
<1>1. \A f : ExtensionAt(f)' = ExtensionAt(f)
  BY DEF ExtensionAt
<1>2. \A id : LoadWorkflow(id)' = LoadWorkflow(id)
  BY <1>1 DEF LoadWorkflow
<1>3. \A id : WorkflowNamed(id)' = WorkflowNamed(id)
  BY <1>2 DEF WorkflowNamed
<1>4. \A id, s : CommandBody(id, s)' = CommandBody(id, s)
  BY <1>1 DEF CommandBody
<1>5. \A slugs : ListWorkflows(slugs)' = ListWorkflows(slugs)
  BY <1>2 DEF ListWorkflows
<1>6. QED
  BY <1>2, <1>3, <1>4, <1>5

(* What a step does not touch keeps fitting.                               *)
LEMMA WorkflowPartsKept ==
  ASSUME UNCHANGED <<installed, meta>>, used'.version = used.version
  PROVE  /\ UNCHANGED opened /\ PageFits => PageFits'
         /\ UNCHANGED choice /\ ChoiceFits => ChoiceFits'
         /\ UNCHANGED prompt /\ PromptFits => PromptFits'
         /\ UNCHANGED auto /\ AutoFits => AutoFits'
<1>1. /\ \A id : LoadWorkflow(id)' = LoadWorkflow(id) /\ WorkflowNamed(id)' = WorkflowNamed(id)
      /\ \A id, s : CommandBody(id, s)' = CommandBody(id, s)
      /\ \A slugs : ListWorkflows(slugs)' = ListWorkflows(slugs)
  BY SameReading
<1>2. UNCHANGED opened /\ PageFits => PageFits'
  BY <1>1 DEF PageFits
<1>3. UNCHANGED choice /\ ChoiceFits => ChoiceFits'
  BY <1>1 DEF ChoiceFits, Offered
<1>4. UNCHANGED prompt /\ PromptFits => PromptFits'
  <2>1. \A id, s : ToldWorkflow(id, s)' = ToldWorkflow(id, s)
    BY <1>1 DEF ToldWorkflow, OwnWorkflow
  <2>2. QED
    BY <1>1, <2>1 DEF PromptFits
<1>5. UNCHANGED auto /\ AutoFits => AutoFits'
  <2>1. \A id, s : ArtifactsNamed(id, s)' = ArtifactsNamed(id, s)
    BY <1>1 DEF ArtifactsNamed
  <2>2. QED
    BY <1>1, <2>1 DEF AutoFits
<1>6. QED
  BY <1>2, <1>3, <1>4, <1>5

(* A change of what workflows mean makes every request under way late.     *)
LEMMA WorkflowPartsLate ==
  ASSUME WorkflowTyped, used'.version = used.version + 1, UNCHANGED <<opened, prompt, auto>>
  PROVE  PageFits' /\ PromptFits' /\ AutoFits'
  BY DEF WorkflowTyped, PageFits, PromptFits, AutoFits

(* A request, or a change, is counted; the rest of the history is kept.    *)
LEMMA UsedLemma ==
  ASSUME UsedShape
  PROVE  /\ Request => UsedShape' /\ used'.version = used.version /\ (StepsCompleteByFiles => StepsCompleteByFiles')
         /\ \A n, k, b, c :
              used' = [used EXCEPT !.changes = n, !.version = k] \/ used' = [used EXCEPT !.version = k] =>
              UsedShape' /\ used'.version = k /\ (StepsCompleteByFiles => StepsCompleteByFiles')
         /\ \A n : used' = [used EXCEPT !.changes = n] =>
              UsedShape' /\ used'.version = used.version /\ (StepsCompleteByFiles => StepsCompleteByFiles')
         /\ \A b, c : used' = [used EXCEPT !.unearned = b, !.missed = c] =>
              UsedShape' /\ used'.version = used.version /\ (~b /\ ~c => StepsCompleteByFiles')
  BY DEF UsedShape, Request, StepsCompleteByFiles

LEMMA ChangeExtensionStep ==
  ASSUME ProjectWorkflowInv, NEW f \in Folders, ChangeExtension(f)
  PROVE  ProjectWorkflowInv'
<1> USE DEF ProjectWorkflowInv
<1>1. /\ used'.version = used.version + 1 /\ UsedShape' /\ StepsCompleteByFiles'
      /\ UNCHANGED <<onDisk, meta, done, opened, choice, prompt, auto>>
  BY UsedLemma DEF ChangeExtension, UNCHANGEDRequests, WorkflowTyped
<1>2. installed' \in [Folders -> Manifests \cup {NoManifest}] /\ enabled' \subseteq Folders
  BY DEF ChangeExtension, WorkflowTyped, ProjectWorkflowTypeOK
<1>3. WorkflowTyped'
  BY <1>1, <1>2 DEF WorkflowTyped, ProjectWorkflowTypeOK, OpenedShape, ChoiceShape, PromptShape, AutoShape
<1>4. PageFits' /\ PromptFits' /\ AutoFits'
  BY <1>1, WorkflowPartsLate
<1>5. ChoiceFits'
  BY <1>1 DEF ChoiceFits, WorkflowTyped
<1>6. QED
  BY <1>1, <1>3, <1>4, <1>5

LEMMA WriteFileStep ==
  ASSUME ProjectWorkflowInv, NEW p \in Files, WriteFile(p)
  PROVE  ProjectWorkflowInv'
<1> USE DEF ProjectWorkflowInv
<1>1. /\ used'.version = used.version /\ UsedShape' /\ StepsCompleteByFiles'
      /\ UNCHANGED <<installed, enabled, meta, done, opened, choice, prompt, auto>> /\ onDisk' \subseteq Files
  BY UsedLemma DEF WriteFile, UNCHANGEDRequests, WorkflowTyped, ProjectWorkflowTypeOK
<1>2. WorkflowTyped'
  BY <1>1 DEF WorkflowTyped, ProjectWorkflowTypeOK, OpenedShape, ChoiceShape, PromptShape, AutoShape
<1>3. QED
  BY <1>1, <1>2, WorkflowPartsKept

LEMMA PageWorkflowStep ==
  ASSUME ProjectWorkflowInv, OpenPage \/ ShowPage
  PROVE  ProjectWorkflowInv'
<1> USE DEF ProjectWorkflowInv
<1>1. /\ used'.version = used.version /\ UsedShape' /\ StepsCompleteByFiles'
      /\ UNCHANGED <<installed, enabled, onDisk, meta, done, choice, prompt, auto>>
  BY UsedLemma DEF OpenPage, ShowPage, workflowFiles, WorkflowTyped, UsedShape, StepsCompleteByFiles
<1>2. /\ OpenedShape' /\ opened'.at \in {"asked", "shown"} /\ opened'.as \in Nat /\ opened'.as <= used.version
      /\ opened'.as = used.version => opened'.id = meta
      /\ opened'.as = used.version /\ opened'.at = "shown" => opened'.workflow = WorkflowNamed(meta)
  <2>1. CASE OpenPage
    BY <2>1 DEF OpenPage, OpenedShape, WorkflowTyped
  <2>2. CASE ShowPage
    <3>1. /\ opened'.at = "shown" /\ opened'.id = opened.id /\ opened'.as = opened.as
          /\ opened'.workflow = WorkflowNamed(opened.id) /\ OpenedShape' /\ opened.at = "asked"
      BY <2>2 DEF ShowPage, OpenedShape, WorkflowTyped
    <3>2. QED
      BY <3>1 DEF PageFits, WorkflowTyped
  <2>3. QED
    BY <2>1, <2>2
<1>3. WorkflowTyped'
  BY <1>1, <1>2 DEF WorkflowTyped, ProjectWorkflowTypeOK, ChoiceShape, PromptShape, AutoShape
<1>4. PageFits'
  BY <1>1, <1>2, SameReading DEF PageFits
<1>5. QED
  BY <1>1, <1>3, <1>4, WorkflowPartsKept

LEMMA ChoiceStep ==
  ASSUME ProjectWorkflowInv, (\E id \in WorkflowIds : AskChoice(id)) \/ CheckChoice
  PROVE  ProjectWorkflowInv'
<1> USE DEF ProjectWorkflowInv
<1>1. /\ used'.version = used.version /\ UsedShape' /\ StepsCompleteByFiles'
      /\ UNCHANGED <<installed, enabled, onDisk, meta, done, opened, prompt, auto>>
  BY UsedLemma DEF AskChoice, CheckChoice, workflowFiles, WorkflowTyped, UsedShape, StepsCompleteByFiles
<1>2. /\ ChoiceShape' /\ choice'.at \in {"idle", "asked", "checked"} /\ choice'.as \in Nat
      /\ choice'.as <= used.version /\ choice'.slugs \subseteq Folders /\ (choice'.at # "idle" => choice'.id \in WorkflowIds)
      /\ choice'.at = "checked" => \E w \in ListWorkflows(choice'.slugs) : w.id = choice'.id
  <2>1. CASE \E id \in WorkflowIds : AskChoice(id)
    BY <2>1 DEF AskChoice, ChoiceShape, WorkflowTyped, ProjectWorkflowTypeOK
  <2>2. CASE CheckChoice
    <3>1. /\ choice.at = "asked" /\ ChoiceShape' /\ choice'.as = choice.as /\ choice'.id = choice.id
          /\ choice'.slugs = choice.slugs
          /\ choice'.at = IF \E w \in ListWorkflows(choice.slugs) : w.id = choice.id THEN "checked" ELSE "idle"
      BY <2>2 DEF CheckChoice, ChoiceShape, WorkflowTyped
    <3>2. QED
      BY <3>1 DEF WorkflowTyped
  <2>3. QED
    BY <2>1, <2>2
<1>3. WorkflowTyped'
  BY <1>1, <1>2 DEF WorkflowTyped, ProjectWorkflowTypeOK, OpenedShape, PromptShape, AutoShape
<1>4. ChoiceFits'
  <2>1. \A slugs : ListWorkflows(slugs)' = ListWorkflows(slugs)
    BY <1>1, SameReading
  <2>2. Offered' <=> \E w \in ListWorkflows(choice'.slugs) : w.id = choice'.id
    BY <2>1 DEF Offered
  <2>3. QED
    BY <1>2, <2>2 DEF ChoiceFits
<1>5. QED
  BY <1>1, <1>3, <1>4, WorkflowPartsKept

LEMMA SaveChoiceStep == ProjectWorkflowInv /\ SaveChoice => ProjectWorkflowInv'
<1> SUFFICES ASSUME ProjectWorkflowInv, SaveChoice PROVE ProjectWorkflowInv'
  OBVIOUS
<1> USE DEF ProjectWorkflowInv
<1>1. /\ used'.version = used.version + 1 /\ UsedShape' /\ StepsCompleteByFiles'
      /\ UNCHANGED <<installed, enabled, onDisk, done, opened, prompt, auto>> /\ meta' = choice.id
  BY UsedLemma DEF SaveChoice, WorkflowTyped
<1>2. /\ choice.at = "checked" /\ ChoiceShape' /\ choice'.at = "saved" /\ choice'.as = choice.as
      /\ choice'.id = choice.id /\ choice'.slugs = choice.slugs
  BY DEF SaveChoice, WorkflowTyped, ChoiceShape
<1>3. WorkflowTyped'
  BY <1>1, <1>2 DEF WorkflowTyped, ProjectWorkflowTypeOK, OpenedShape, PromptShape, AutoShape, WorkflowIds
<1>4. ChoiceFits'
  <2>1. Offered' <=> Offered
    BY <1>1, <1>2, SameReading DEF Offered
  <2>2. choice.as \in Nat /\ used.version \in Nat /\ choice.as <= used.version
    BY DEF WorkflowTyped
  <2>3. QED
    BY <1>1, <1>2, <2>1, <2>2 DEF ChoiceFits
<1>5. PageFits' /\ PromptFits' /\ AutoFits'
  BY <1>1, WorkflowPartsLate
<1>6. QED
  BY <1>1, <1>3, <1>4, <1>5

LEMMA SpecKitLemma ==
  /\ DOMAIN SpecKit.steps = 1..5 /\ SpecKit.id = "spec-kit"
  /\ \A i \in 1..5 : ArePaths(SpecKit.steps[i].artifacts) /\ SpecKit.steps[i].step \in StepNames
  /\ ~(\E s : HasStep(NoWorkflow, s))
<1>1. /\ SpecKitSteps[1].artifacts = {[dir |-> "memory", name |-> "constitution.md"]}
      /\ SpecKitSteps[2].artifacts = {[dir |-> "<feature>", name |-> "spec.md"]}
      /\ SpecKitSteps[3].artifacts = {[dir |-> "<feature>", name |-> "plan.md"]}
      /\ SpecKitSteps[4].artifacts = {[dir |-> "<feature>", name |-> "tasks.md"]}
      /\ SpecKitSteps[5].artifacts = {} /\ DOMAIN SpecKitSteps = 1..5
  BY DEF SpecKitSteps
<1>2. SpecKit.steps = SpecKitSteps /\ SpecKit.id = "spec-kit"
  BY DEF SpecKit
<1>3. \A i \in 1..5 : i = 1 \/ i = 2 \/ i = 3 \/ i = 4 \/ i = 5
  OBVIOUS
<1>4. \A i \in 1..5 : ArePaths(SpecKitSteps[i].artifacts)
  <2>1. ArePaths(SpecKitSteps[1].artifacts) /\ ArePaths(SpecKitSteps[2].artifacts)
    BY <1>1 DEF ArePaths
  <2>2. ArePaths(SpecKitSteps[3].artifacts) /\ ArePaths(SpecKitSteps[4].artifacts) /\ ArePaths(SpecKitSteps[5].artifacts)
    BY <1>1 DEF ArePaths
  <2>3. QED
    BY <1>3, <2>1, <2>2
<1>5. \A i \in 1..5 : SpecKitSteps[i].step \in StepNames
  <2> DEFINE others == UNION {{m.commands[i].step : i \in DOMAIN m.commands} : m \in Manifests}
  <2>1. StepNames = {SpecKitSteps[i].step : i \in DOMAIN SpecKitSteps} \cup others
    BY DEF StepNames
  <2>2. DOMAIN SpecKitSteps = 1..5
    BY <1>1
  <2> HIDE DEF others
  <2>3. \A i \in DOMAIN SpecKitSteps : SpecKitSteps[i].step \in {SpecKitSteps[j].step : j \in DOMAIN SpecKitSteps}
    OBVIOUS
  <2>4. QED
    BY <2>1, <2>2, <2>3
<1>6. \A s : ~HasStep(NoWorkflow, s)
  BY DEF HasStep, StepsNamed, NoWorkflow
<1>7. QED
  BY <1>1, <1>2, <1>4, <1>5, <1>6

LEMMA ExtensionLemma ==
  ASSUME WorkflowTyped, NEW f \in Folders, ExtensionAt(f) # NoManifest
  PROVE  ExtensionAt(f) \in Manifests
  BY ProjectWorkflowAssumption DEF WorkflowTyped, ProjectWorkflowTypeOK, ExtensionAt

(* What a text of a command stands for are paths.                          *)
LEMMA ArtifactsOfLemma ==
  ASSUME NEW m \in Manifests, NEW i \in DOMAIN m.commands
  PROVE  ArePaths(ArtifactsOf(m.commands[i]))
<1> DEFINE c == m.commands[i]
<1>1. ArePaths(c.artifacts) /\ (c.text # NoBody => ArePaths(c.text.listed) /\ ArePaths(c.text.all))
  BY ProjectWorkflowAssumption DEF HasPaths
<1>2. \A p : p = [dir |-> p.dir, name |-> p.name] =>
        Collapse(p) = [dir |-> Collapse(p).dir, name |-> Collapse(p).name]
  BY DEF Collapse
<1>3. \A ps : ArePaths(ps) => ArePaths(CollectPaths(ps))
  BY <1>2 DEF CollectPaths, ArePaths
<1>4. c.text # NoBody => ArePaths(ExtractArtifactPaths(c.text, c.step))
  <2>1. c.text # NoBody => ArePaths(CollectPaths(c.text.listed)) /\ ArePaths(CollectPaths(c.text.all))
    BY <1>1, <1>3
  <2> DEFINE found == ExtractArtifactPaths(c.text, c.step)
  <2>2. found = CollectPaths(c.text.listed) \/ found \subseteq CollectPaths(c.text.all)
    <3> HIDE DEF c
    <3>1. QED
      BY DEF ExtractArtifactPaths
  <2> HIDE DEF found
  <2>3. c.text # NoBody => ArePaths(found)
    BY <2>1, <2>2 DEF ArePaths
  <2>4. QED
    BY <2>3 DEF found
<1>5. QED
  BY <1>1, <1>4 DEF ArtifactsOf

LEMMA LoadLemma ==
  ASSUME WorkflowTyped, NEW f \in Folders, LoadWorkflow(f) # NoWorkflow
  PROVE  /\ ExtensionAt(f) \in Manifests
         /\ LoadWorkflow(f).id = ExtensionAt(f).id
         /\ DOMAIN LoadWorkflow(f).steps = 1..Len(ExtensionAt(f).commands)
         /\ DOMAIN LoadWorkflow(f).steps = DOMAIN ExtensionAt(f).commands
         /\ \A i \in DOMAIN LoadWorkflow(f).steps :
              /\ LoadWorkflow(f).steps[i].step = ExtensionAt(f).commands[i].step
              /\ ArePaths(LoadWorkflow(f).steps[i].artifacts)
              /\ LoadWorkflow(f).steps[i].step \in StepNames
<1> DEFINE m == ExtensionAt(f)
<1>1. /\ m # NoManifest
      /\ LoadWorkflow(f) = [id |-> m.id, steps |-> [i \in DOMAIN m.commands |->
                              [step |-> m.commands[i].step, artifacts |-> ArtifactsOf(m.commands[i])]]]
  BY DEF LoadWorkflow
<1>2. m \in Manifests
  BY <1>1, ExtensionLemma
<1>3. DOMAIN m.commands = 1..Len(m.commands) /\ \A i \in DOMAIN m.commands : ArePaths(ArtifactsOf(m.commands[i]))
  BY <1>2, ArtifactsOfLemma, ProjectWorkflowAssumption
<1>4. \A i \in DOMAIN m.commands : m.commands[i].step \in StepNames
  <2> HIDE DEF m
  <2>1. {m.commands[i].step : i \in DOMAIN m.commands} \in {{k.commands[i].step : i \in DOMAIN k.commands} : k \in Manifests}
    BY <1>2
  <2>2. {m.commands[i].step : i \in DOMAIN m.commands} \subseteq StepNames
    BY <2>1 DEF StepNames
  <2>3. QED
    BY <2>2
<1> HIDE DEF m
<1>5. QED
  BY <1>1, <1>2, <1>3, <1>4 DEF m

LEMMA WorkflowsAreWhole ==
  ASSUME WorkflowTyped, NEW id \in WorkflowIds
  PROVE  /\ \E n : DOMAIN WorkflowNamed(id).steps = 1..n
         /\ \A i \in DOMAIN WorkflowNamed(id).steps :
              ArePaths(WorkflowNamed(id).steps[i].artifacts) /\ WorkflowNamed(id).steps[i].step \in StepNames
<1>1. CASE WorkflowNamed(id) = SpecKit
  BY <1>1, SpecKitLemma
<1>2. CASE WorkflowNamed(id) # SpecKit
  <2>1. id \in Folders /\ LoadWorkflow(id) # NoWorkflow /\ WorkflowNamed(id) = LoadWorkflow(id)
    BY <1>2 DEF WorkflowNamed, WorkflowIds
  <2>2. QED
    BY <2>1, LoadLemma
<1>3. QED
  BY <1>1, <1>2

LEMMA FirstLemma ==
  ASSUME NEW S \in SUBSET Nat, S # {}
  PROVE  FirstOf(S) \in S
<1>2. PICK m \in S : \A j \in S : <<j, m>> \notin OpToRel(<, Nat)
  BY NatLessThanWellFounded, WFMin, Zenon
<1>3. \A j \in S : ~(j < m)
  BY <1>2 DEF OpToRel
<1>4. \A j \in S : m <= j
  BY <1>3
<1>5. QED
  BY <1>4 DEF FirstOf

LEMMA NamedArtifactsLemma ==
  ASSUME WorkflowTyped, NEW id \in WorkflowIds, NEW s
  PROVE  ArePaths(ArtifactsNamed(id, s))
<1> SUFFICES ASSUME HasStep(WorkflowNamed(id), s) PROVE ArePaths(StepOf(WorkflowNamed(id), s).artifacts)
  BY DEF ArtifactsNamed, ArePaths
<1> DEFINE w == WorkflowNamed(id)
<1>1. PICK n : DOMAIN w.steps = 1..n
  BY WorkflowsAreWhole
<1>2. StepsNamed(w, s) \subseteq DOMAIN w.steps /\ StepsNamed(w, s) \subseteq Nat /\ StepsNamed(w, s) # {}
  BY <1>1 DEF StepsNamed, HasStep
<1>3. FirstOf(StepsNamed(w, s)) \in DOMAIN w.steps
  BY <1>1, <1>2, FirstLemma
<1>4. QED
  BY <1>3, WorkflowsAreWhole DEF StepOf

LEMMA BeginPromptStep ==
  ASSUME ProjectWorkflowInv, NEW s \in StepNames, BeginPrompt(s)
  PROVE  ProjectWorkflowInv'
<1> USE DEF ProjectWorkflowInv
<1>1. /\ used'.version = used.version /\ UsedShape' /\ StepsCompleteByFiles'
      /\ UNCHANGED <<installed, enabled, onDisk, meta, done, opened, choice, auto>>
  BY UsedLemma DEF BeginPrompt, workflowFiles, WorkflowTyped
<1>2. /\ PromptShape' /\ prompt'.at = "begun" /\ prompt'.as = used.version /\ prompt'.id = meta
      /\ prompt'.workflow = NoWorkflow
  BY DEF BeginPrompt, PromptShape
<1>3. WorkflowTyped'
  BY <1>1, <1>2 DEF WorkflowTyped, ProjectWorkflowTypeOK, OpenedShape, ChoiceShape, AutoShape, WorkflowIds
<1>4. PromptFits'
  BY <1>1, <1>2 DEF PromptFits
<1>5. QED
  BY <1>1, <1>3, <1>4, WorkflowPartsKept

LEMMA FindStepStep == ProjectWorkflowInv /\ FindStep => ProjectWorkflowInv'
<1> SUFFICES ASSUME ProjectWorkflowInv, FindStep PROVE ProjectWorkflowInv'
  OBVIOUS
<1> USE DEF ProjectWorkflowInv
<1>1. UNCHANGED <<workflowFiles, opened, choice, auto, used>>
  BY DEF FindStep
<1>2. /\ PromptShape' /\ prompt'.as = prompt.as /\ prompt'.id = prompt.id /\ prompt'.step = prompt.step
      /\ prompt.at = "begun" /\ prompt'.at \in {"found", "told"}
      /\ prompt'.at = "found" => HasStep(ToldWorkflow(prompt.id, prompt.step), prompt.step)
                                 /\ prompt'.workflow = ToldWorkflow(prompt.id, prompt.step)
      /\ prompt'.at = "told" => ~HasStep(ToldWorkflow(prompt.id, prompt.step), prompt.step)
                                /\ prompt'.workflow = prompt.workflow
  <2> DEFINE of == ToldWorkflow(prompt.id, prompt.step)
  <2>1. /\ prompt.at = "begun"
        /\ prompt' = IF HasStep(of, prompt.step) THEN [prompt EXCEPT !.at = "found", !.workflow = of]
                     ELSE [prompt EXCEPT !.at = "told"]
    BY DEF FindStep, ToldWorkflow, OwnWorkflow
  <2> HIDE DEF of
  <2>2. QED
    BY <2>1 DEF WorkflowTyped, PromptShape, of
<1>3. WorkflowTyped'
  BY <1>1, <1>2 DEF WorkflowTyped, workflowFiles, ProjectWorkflowTypeOK, OpenedShape, ChoiceShape, AutoShape, UsedShape
<1>4. PromptFits'
  <2>1. \A id, s : ToldWorkflow(id, s)' = ToldWorkflow(id, s)
    BY <1>1, SameReading DEF ToldWorkflow, OwnWorkflow, workflowFiles
  <2>2. QED
    BY <1>1, <1>2, <2>1 DEF PromptFits, workflowFiles
<1>5. StepsCompleteByFiles'
  BY <1>1 DEF StepsCompleteByFiles
<1>6. QED
  BY <1>1, <1>3, <1>4, <1>5, WorkflowPartsKept DEF workflowFiles

LEMMA ReadBodyStep == ProjectWorkflowInv /\ ReadBody => ProjectWorkflowInv'
<1> SUFFICES ASSUME ProjectWorkflowInv, ReadBody PROVE ProjectWorkflowInv'
  OBVIOUS
<1> USE DEF ProjectWorkflowInv
<1>1. UNCHANGED <<workflowFiles, opened, choice, auto, used>>
  BY DEF ReadBody
<1>2. /\ PromptShape' /\ prompt'.as = prompt.as /\ prompt'.id = prompt.id /\ prompt'.step = prompt.step
      /\ prompt.at = "found" /\ prompt'.at = "told" /\ prompt'.workflow = prompt.workflow
      /\ prompt.workflow # SpecKit => prompt'.body = CommandBody(prompt.id, prompt.step)
  <2> DEFINE body == IF prompt.workflow = SpecKit THEN [of |-> "spec-kit", text |-> prompt.step]
                     ELSE CommandBody(prompt.id, prompt.step)
  <2>1. prompt.at = "found" /\ prompt' = [prompt EXCEPT !.at = "told", !.body = body]
    BY DEF ReadBody
  <2>2. prompt.workflow # SpecKit => body = CommandBody(prompt.id, prompt.step)
    OBVIOUS
  <2> HIDE DEF body
  <2>3. QED
    BY <2>1, <2>2 DEF WorkflowTyped, PromptShape
<1>3. WorkflowTyped'
  BY <1>1, <1>2 DEF WorkflowTyped, workflowFiles, ProjectWorkflowTypeOK, OpenedShape, ChoiceShape, AutoShape, UsedShape
<1>4. PromptFits'
  <2>1. \A id, s : ToldWorkflow(id, s)' = ToldWorkflow(id, s) /\ CommandBody(id, s)' = CommandBody(id, s)
    BY <1>1, SameReading DEF ToldWorkflow, OwnWorkflow, workflowFiles
  <2>2. QED
    BY <1>1, <1>2, <2>1 DEF PromptFits, workflowFiles
<1>5. StepsCompleteByFiles'
  BY <1>1 DEF StepsCompleteByFiles
<1>6. QED
  BY <1>1, <1>3, <1>4, <1>5, WorkflowPartsKept DEF workflowFiles

LEMMA AutoStep ==
  ASSUME ProjectWorkflowInv, (\E s \in StepNames, b \in BOOLEAN : AskAuto(s, b)) \/ FindArtifacts
  PROVE  ProjectWorkflowInv'
<1> USE DEF ProjectWorkflowInv
<1>1. /\ used'.version = used.version /\ UsedShape' /\ StepsCompleteByFiles'
      /\ UNCHANGED <<installed, enabled, onDisk, meta, done, opened, choice, prompt>>
  BY UsedLemma DEF AskAuto, FindArtifacts, workflowFiles, WorkflowTyped, UsedShape, StepsCompleteByFiles
<1>2. /\ AutoShape' /\ auto'.at \in {"asked", "found"} /\ auto'.as \in Nat /\ auto'.as <= used.version
      /\ auto'.id \in WorkflowIds /\ auto'.step \in StepNames /\ (auto'.as = used.version => auto'.id = meta)
      /\ auto'.at = "found" => auto'.artifacts = ArtifactsNamed(auto'.id, auto'.step)
  <2>1. CASE \E s \in StepNames, b \in BOOLEAN : AskAuto(s, b)
    <3>1. PICK s \in StepNames, b \in BOOLEAN : AskAuto(s, b)
      BY <2>1
    <3>2. auto' = [at |-> "asked", step |-> s, afterTurn |-> b, id |-> meta, artifacts |-> {}, as |-> used.version]
      BY <3>1 DEF AskAuto
    <3>3. meta \in WorkflowIds /\ used.version \in Nat
      BY DEF WorkflowTyped, ProjectWorkflowTypeOK, WorkflowIds
    <3>4. QED
      BY <3>2, <3>3 DEF AutoShape
  <2>2. CASE FindArtifacts
    <3>1. auto.at = "asked" /\ auto' = [auto EXCEPT !.at = "found", !.artifacts = ArtifactsNamed(auto.id, auto.step)]
      BY <2>2 DEF FindArtifacts, ArtifactsNamed
    <3>2. AutoShape /\ auto.as \in Nat /\ auto.as <= used.version /\ auto.id \in WorkflowIds /\ auto.step \in StepNames
      BY <3>1 DEF WorkflowTyped
    <3>3. auto.as = used.version => auto.id = meta
      BY <3>1 DEF AutoFits
    <3>4. /\ AutoShape' /\ auto'.at = "found" /\ auto'.as = auto.as /\ auto'.id = auto.id /\ auto'.step = auto.step
          /\ auto'.artifacts = ArtifactsNamed(auto.id, auto.step)
      BY <3>1, <3>2 DEF AutoShape
    <3>5. QED
      BY <3>2, <3>3, <3>4
  <2>3. QED
    BY <2>1, <2>2
<1>3. WorkflowTyped'
  BY <1>1, <1>2 DEF WorkflowTyped, ProjectWorkflowTypeOK, OpenedShape, ChoiceShape, PromptShape
<1>4. AutoFits'
  <2>1. \A id, s : ArtifactsNamed(id, s)' = ArtifactsNamed(id, s)
    BY <1>1, SameReading DEF ArtifactsNamed
  <2>2. QED
    BY <1>1, <1>2, <2>1 DEF AutoFits
<1>5. QED
  BY <1>1, <1>3, <1>4, WorkflowPartsKept

(* A file that is there fits an artifact of the page when the request       *)
(* finds it there, and the other way round but for placeholders that nobody *)
(* looks into.                                                             *)
LEMMA FilesFitLemma ==
  ASSUME WorkflowTyped, NEW ps, ArePaths(ps)
  PROVE  /\ AnyArtifactExists(ps) => \E p \in ps, q \in onDisk : Fits(q, p)
         /\ \A p \in ps, q \in onDisk :
              Fits(q, p) /\ p.dir \notin Angles /\ p.name \notin Numbers => AnyArtifactExists(ps)
<1>1. ArePaths(onDisk) /\ \A q \in onDisk : q.dir \notin Angles
  BY ProjectWorkflowAssumption DEF WorkflowTyped, ProjectWorkflowTypeOK, ArePaths
<1>2. ASSUME NEW p \in ps, Exists(p) PROVE \E q \in onDisk : Fits(q, p)
  <2>1. CASE {p.dir, p.name} \cap Angles # {} \/ p.name = "/"
    BY <1>1, <1>2, <2>1 DEF Exists, Fits
  <2>2. CASE ~({p.dir, p.name} \cap Angles # {} \/ p.name = "/")
    BY <1>2, <2>2 DEF Exists, Fits
  <2>3. QED
    BY <2>1, <2>2
<1>3. ASSUME NEW p \in ps, NEW q \in onDisk, Fits(q, p), p.dir \notin Angles, p.name \notin Numbers
      PROVE  Exists(p)
  <2>1. q.dir = p.dir /\ (q.name = p.name \/ p.name = "/" \/ p.name \in Angles)
    BY <1>3 DEF Fits
  <2>2. CASE p.name = "/" \/ p.name \in Angles
    BY <2>1, <2>2 DEF Exists
  <2>3. CASE ~(p.name = "/" \/ p.name \in Angles)
    <3>1. q = p
      BY <1>1, <2>1, <2>3 DEF ArePaths
    <3>2. QED
      BY <1>3, <2>3, <3>1 DEF Exists
  <2>4. QED
    BY <2>2, <2>3
<1>4. QED
  BY <1>2, <1>3 DEF AnyArtifactExists

LEMMA CompleteStepStep == ProjectWorkflowInv /\ CompleteStep => ProjectWorkflowInv'
<1> SUFFICES ASSUME ProjectWorkflowInv, CompleteStep PROVE ProjectWorkflowInv'
  OBVIOUS
<1> USE DEF ProjectWorkflowInv
<1> DEFINE should == IF auto.artifacts = {} THEN auto.afterTurn ELSE AnyArtifactExists(auto.artifacts)
           current == /\ opened.at = "shown" /\ opened.as = used.version /\ auto.as = used.version
                      /\ HasStep(opened.workflow, auto.step)
           promised == IF current THEN StepOf(opened.workflow, auto.step).artifacts ELSE {}
           fitting == {p \in promised : \E q \in onDisk : Fits(q, p)}
           unearned == used.unearned \/ (current /\ should /\ fitting = {} /\ ~(promised = {} /\ auto.afterTurn))
           overlooked == used.missed \/ (current /\ ~should /\ \E p \in fitting : p.dir \notin Angles /\ p.name \notin Numbers)
<1>1. /\ auto.at = "found" /\ auto' = [auto EXCEPT !.at = "idle"]
      /\ done' = IF should THEN done \cup {auto.step} ELSE done
      /\ used' = [used EXCEPT !.unearned = unearned, !.missed = overlooked]
      /\ UNCHANGED <<installed, enabled, onDisk, meta, opened, choice, prompt>>
  BY DEF CompleteStep
<1>2. auto.id \in WorkflowIds /\ auto.step \in StepNames /\ ~used.unearned /\ ~used.missed
  BY <1>1 DEF WorkflowTyped, StepsCompleteByFiles
<1>3. current => promised = auto.artifacts /\ ArePaths(promised)
  <2>1. ASSUME current PROVE opened.workflow = WorkflowNamed(auto.id) /\ auto.artifacts = ArtifactsNamed(auto.id, auto.step)
    BY <1>1, <2>1 DEF PageFits, AutoFits
  <2>2. ArePaths(ArtifactsNamed(auto.id, auto.step))
    BY <1>2, NamedArtifactsLemma
  <2>3. QED
    BY <2>1, <2>2 DEF ArtifactsNamed
<1>4. ~unearned /\ ~overlooked
  <2> SUFFICES ASSUME current
               PROVE  /\ ~(should /\ fitting = {} /\ ~(promised = {} /\ auto.afterTurn))
                      /\ ~(~should /\ \E p \in fitting : p.dir \notin Angles /\ p.name \notin Numbers)
    BY <1>2
  <2>1. promised = auto.artifacts /\ ArePaths(promised)
    BY <1>3
  <2> HIDE DEF promised
  <2>2. CASE promised = {}
    BY <2>1, <2>2
  <2>3. CASE promised # {}
    <3>1. should = AnyArtifactExists(promised)
      BY <2>1, <2>3
    <3>2. /\ AnyArtifactExists(promised) => fitting # {}
          /\ \A p \in fitting : p.dir \notin Angles /\ p.name \notin Numbers => AnyArtifactExists(promised)
      BY <2>1, FilesFitLemma
    <3>3. QED
      BY <3>1, <3>2
  <2>4. QED
    BY <2>2, <2>3
<1> HIDE DEF unearned, overlooked, should
<1>5. used'.version = used.version /\ UsedShape' /\ StepsCompleteByFiles'
  <2>1. UsedShape /\ used' = [used EXCEPT !.unearned = unearned, !.missed = overlooked]
    BY <1>1 DEF WorkflowTyped
  <2>2. used'.version = used.version /\ UsedShape' /\ used'.unearned = unearned /\ used'.missed = overlooked
    BY <2>1 DEF UsedShape
  <2>3. QED
    BY <2>2, <1>4 DEF StepsCompleteByFiles
<1>6. AutoShape' /\ auto'.at = "idle" /\ auto'.as = auto.as /\ done' \subseteq StepNames
  BY <1>1, <1>2 DEF WorkflowTyped, AutoShape, ProjectWorkflowTypeOK
<1>7. WorkflowTyped'
  BY <1>1, <1>5, <1>6 DEF WorkflowTyped, ProjectWorkflowTypeOK, OpenedShape, ChoiceShape, PromptShape
<1>8. AutoFits'
  BY <1>6 DEF AutoFits
<1>9. QED
  BY <1>1, <1>5, <1>7, <1>8, WorkflowPartsKept

LEMMA ReopenStep ==
  ASSUME ProjectWorkflowInv, NEW s \in StepNames, Reopen(s)
  PROVE  ProjectWorkflowInv'
<1> USE DEF ProjectWorkflowInv
<1>1. /\ used'.version = used.version /\ UsedShape' /\ StepsCompleteByFiles'
      /\ UNCHANGED <<installed, enabled, onDisk, meta, opened, choice, prompt, auto>> /\ done' \subseteq StepNames
  BY UsedLemma DEF Reopen, UNCHANGEDRequests, WorkflowTyped, ProjectWorkflowTypeOK
<1>2. WorkflowTyped'
  BY <1>1 DEF WorkflowTyped, ProjectWorkflowTypeOK, OpenedShape, ChoiceShape, PromptShape, AutoShape
<1>3. QED
  BY <1>1, <1>2, WorkflowPartsKept

LEMMA ChoiceLemma == ProjectWorkflowInv => ChoiceIsShown
<1> SUFFICES ASSUME ProjectWorkflowInv, \A f \in Folders : ExtensionAt(f) # NoManifest => ExtensionAt(f).id = f,
                    choice.at = "saved", used.version = choice.as + 1
             PROVE  /\ WorkflowNamed(meta).id = choice.id
                    /\ opened.at = "shown" /\ opened.as = used.version => opened.workflow.id = choice.id
  BY DEF ChoiceIsShown
<1>1. WorkflowTyped /\ ChoiceFits /\ PageFits
  BY DEF ProjectWorkflowInv
<1>2. meta = choice.id /\ choice.id \in WorkflowIds /\ \E w \in ListWorkflows(choice.slugs) : w.id = choice.id
  BY <1>1 DEF ChoiceFits, Offered, WorkflowTyped
<1>3. PICK w \in ListWorkflows(choice.slugs) : w.id = choice.id
  BY <1>2
<1>4. WorkflowNamed(choice.id).id = choice.id
  <2>1. CASE choice.id = "spec-kit"
    BY <2>1, SpecKitLemma DEF WorkflowNamed
  <2>2. CASE choice.id # "spec-kit"
    <3>1. w # SpecKit
      BY <1>3, <2>2, SpecKitLemma
    <3>2. PICK f \in choice.slugs : installed[f] # NoManifest /\ w = LoadWorkflow(f) /\ w # NoWorkflow
      BY <1>3, <3>1 DEF ListWorkflows
    <3>3. ExtensionAt(f) # NoManifest /\ w.id = ExtensionAt(f).id
      BY <3>2 DEF LoadWorkflow
    <3>4. f \in Folders
      BY <1>1, <3>2 DEF WorkflowTyped
    <3>5. f = choice.id
      BY <1>3, <3>3, <3>4
    <3>6. WorkflowNamed(choice.id) = w
      BY <2>2, <3>2, <3>5 DEF WorkflowNamed
    <3>7. QED
      BY <1>3, <3>6
  <2>3. QED
    BY <2>1, <2>2
<1>5. QED
  BY <1>1, <1>2, <1>4 DEF PageFits

(* What a page shows and what an agent is told are the same workflow, when  *)
(* the workflow has the step.                                              *)
LEMMA ToldLemma ==
  ASSUME NEW id, NEW s, HasStep(WorkflowNamed(id), s)
  PROVE  ToldWorkflow(id, s) = WorkflowNamed(id)
<1>1. CASE id = "spec-kit" \/ LoadWorkflow(id) = NoWorkflow
  <2>1. WorkflowNamed(id) = SpecKit /\ OwnWorkflow(id) = NoWorkflow
    BY <1>1 DEF WorkflowNamed, OwnWorkflow
  <2>2. QED
    BY <2>1, SpecKitLemma DEF ToldWorkflow
<1>2. CASE ~(id = "spec-kit" \/ LoadWorkflow(id) = NoWorkflow)
  BY <1>2 DEF WorkflowNamed, OwnWorkflow, ToldWorkflow
<1>3. QED
  BY <1>1, <1>2

(* The text of a step that only one command has is that command's.         *)
LEMMA BodyLemma ==
  ASSUME WorkflowTyped, NEW f \in Folders, NEW s, ExtensionAt(f) # NoManifest,
         NEW own, own = {i \in DOMAIN ExtensionAt(f).commands : ExtensionAt(f).commands[i].step = s},
         Cardinality(own) = 1
  PROVE  \A i \in own :
           /\ (CommandBody(f, s) = NoBody) = (ExtensionAt(f).commands[i].text = NoBody)
           /\ CommandBody(f, s) # NoBody => CommandBody(f, s).text = ExtensionAt(f).commands[i].text
<1> DEFINE m == ExtensionAt(f)
           with == {i \in DOMAIN m.commands : m.commands[i].step = s /\ m.commands[i].text # NoBody}
<1>1. /\ m \in Manifests /\ Len(m.commands) \in Nat /\ DOMAIN m.commands = 1..Len(m.commands)
      /\ \A i \in DOMAIN m.commands : [of |-> m.id, text |-> m.commands[i].text] # NoBody
  BY ExtensionLemma, ProjectWorkflowAssumption DEF HasPaths
<1>2. IsFiniteSet(DOMAIN m.commands) /\ DOMAIN m.commands \in SUBSET Nat
  BY <1>1, FS_Interval
<1>3. IsFiniteSet(own) /\ own \subseteq DOMAIN m.commands
  BY <1>2, FS_Subset
<1>4. PICK k : own = {k}
  BY <1>3, FS_Singleton
<1>5. k \in DOMAIN m.commands /\ m.commands[k].step = s
  BY <1>4
<1>6. CommandBody(f, s) = IF with = {} THEN NoBody ELSE [of |-> m.id, text |-> m.commands[FirstOf(with)].text]
  BY DEF CommandBody
<1>7. with = {} <=> m.commands[k].text = NoBody
  BY <1>4, <1>5
<1>8. with # {} => FirstOf(with) = k
  <2>1. with \in SUBSET Nat /\ with \subseteq {k}
    BY <1>2, <1>4
  <2> HIDE DEF with
  <2>2. QED
    BY <2>1, FirstLemma
<1> HIDE DEF m, with
<1>9. /\ (CommandBody(f, s) = NoBody) <=> (m.commands[k].text = NoBody)
      /\ CommandBody(f, s) # NoBody => CommandBody(f, s).text = m.commands[k].text
  BY <1>1, <1>5, <1>6, <1>7, <1>8
<1>10. QED
  BY <1>4, <1>9 DEF m

LEMMA PromptLemma == ProjectWorkflowInv => PromptIsOfStep
<1> SUFFICES ASSUME ProjectWorkflowInv, prompt.at = "told", prompt.as = used.version
             PROVE  PromptIsOfStep
  BY DEF PromptIsOfStep
<1>1. /\ WorkflowTyped /\ PageFits /\ prompt.id = meta /\ prompt.id \in WorkflowIds
      /\ \/ prompt.workflow = NoWorkflow /\ ~HasStep(ToldWorkflow(prompt.id, prompt.step), prompt.step)
         \/ /\ prompt.workflow = ToldWorkflow(prompt.id, prompt.step)
            /\ prompt.workflow # SpecKit => prompt.body = CommandBody(prompt.id, prompt.step)
  BY DEF ProjectWorkflowInv, PromptFits, WorkflowTyped
<1>2. opened.at = "shown" /\ opened.as = used.version /\ HasStep(opened.workflow, prompt.step) =>
        prompt.workflow = opened.workflow
  BY <1>1, ToldLemma DEF PageFits
<1>3. ASSUME prompt.workflow # NoWorkflow, prompt.workflow # SpecKit
      PROVE  LET cs == ExtensionAt(prompt.id).commands
                 own == {i \in DOMAIN cs : cs[i].step = prompt.step} IN
             Cardinality(own) = 1 => \A i \in own :
               /\ (prompt.body = NoBody) = (cs[i].text = NoBody)
               /\ prompt.body # NoBody => prompt.body.text = cs[i].text
  <2>1. prompt.id # "spec-kit" /\ prompt.workflow = LoadWorkflow(prompt.id)
    BY <1>1, <1>3 DEF ToldWorkflow, OwnWorkflow
  <2>2. prompt.id \in Folders /\ ExtensionAt(prompt.id) # NoManifest
    BY <1>1, <1>3, <2>1 DEF LoadWorkflow, WorkflowIds
  <2>3. prompt.body = CommandBody(prompt.id, prompt.step)
    BY <1>1, <1>3
  <2>4. QED
    BY <1>1, <2>2, <2>3, BodyLemma
<1>4. QED
  BY <1>2, <1>3 DEF PromptIsOfStep

(* A page, an agent and a request that completes a step agree on what a    *)
(* project's workflow is, though each reads it anew from meta.json, the    *)
(* extensions' manifests and their texts (workflow-discovery.ts, the       *)
(* handlers of workflow.post.ts, turn.post.ts and auto-complete.post.ts),  *)
(* as long as nothing changed what it means in between.                    *)
THEOREM WorkflowAgreed == ProjectWorkflowSpec => []WorkflowsAgree
<1>1. ProjectWorkflowInit => ProjectWorkflowInv
  <2> SUFFICES ASSUME ProjectWorkflowInit PROVE ProjectWorkflowInv
    OBVIOUS
  <2>1. enabled \subseteq Folders
    BY DEF ProjectWorkflowInit
  <2>2. /\ OpenedShape /\ ChoiceShape /\ PromptShape /\ AutoShape /\ UsedShape
        /\ opened.at = "closed" /\ choice.at = "idle" /\ prompt.at = "idle" /\ auto.at = "idle"
        /\ opened.as = 0 /\ choice.as = 0 /\ prompt.as = 0 /\ auto.as = 0 /\ used.version = 0
        /\ choice.slugs = {} /\ ~used.unearned /\ ~used.missed
    BY DEF ProjectWorkflowInit, OpenedShape, ChoiceShape, PromptShape, AutoShape, UsedShape
  <2>3. ProjectWorkflowTypeOK
    BY <2>1, <2>2 DEF ProjectWorkflowInit, ProjectWorkflowTypeOK
  <2>4. WorkflowTyped
    BY <2>2, <2>3 DEF WorkflowTyped
  <2>5. PageFits /\ ChoiceFits /\ PromptFits /\ AutoFits /\ StepsCompleteByFiles
    BY <2>2 DEF PageFits, ChoiceFits, PromptFits, AutoFits, StepsCompleteByFiles
  <2>6. QED
    BY <2>4, <2>5 DEF ProjectWorkflowInv
<1>2. ProjectWorkflowInv /\ [ProjectWorkflowNext]_projectWorkflowVars => ProjectWorkflowInv'
  <2> SUFFICES ASSUME ProjectWorkflowInv, [ProjectWorkflowNext]_projectWorkflowVars PROVE ProjectWorkflowInv'
    OBVIOUS
  <2>1. CASE UNCHANGED projectWorkflowVars
    <3>1. UNCHANGED <<installed, enabled, onDisk, meta, done, opened, choice, prompt, auto, used>>
      BY <2>1 DEF projectWorkflowVars, workflowFiles
    <3>2. WorkflowTyped' /\ StepsCompleteByFiles'
      BY <3>1 DEF ProjectWorkflowInv, WorkflowTyped, ProjectWorkflowTypeOK, OpenedShape, ChoiceShape, PromptShape,
                  AutoShape, UsedShape, StepsCompleteByFiles
    <3>3. QED
      BY <3>1, <3>2, WorkflowPartsKept DEF ProjectWorkflowInv
  <2>2. CASE \E f \in Folders : ChangeExtension(f) \/ AskChoice(f)
    BY <2>2, ChangeExtensionStep, ChoiceStep DEF WorkflowIds
  <2>3. CASE \E p \in Files : WriteFile(p)
    BY <2>3, WriteFileStep
  <2>4. CASE OpenPage \/ ShowPage
    BY <2>4, PageWorkflowStep
  <2>5. CASE AskChoice("spec-kit") \/ CheckChoice
    BY <2>5, ChoiceStep DEF WorkflowIds
  <2>6. CASE FindArtifacts \/ \E s \in StepNames, b \in BOOLEAN : AskAuto(s, b)
    BY <2>6, AutoStep
  <2>7. CASE SaveChoice \/ FindStep \/ ReadBody \/ CompleteStep
    BY <2>7, SaveChoiceStep, FindStepStep, ReadBodyStep, CompleteStepStep
  <2>8. CASE \E s \in StepNames : BeginPrompt(s) \/ Reopen(s)
    BY <2>8, BeginPromptStep, ReopenStep
  <2>9. QED
    BY <2>1, <2>2, <2>3, <2>4, <2>5, <2>6, <2>7, <2>8 DEF ProjectWorkflowNext
<1>3. ProjectWorkflowInv => WorkflowsAgree
  BY ChoiceLemma, PromptLemma DEF ProjectWorkflowInv, WorkflowTyped, WorkflowsAgree
<1>4. QED
  BY <1>1, <1>2, <1>3, PTL DEF ProjectWorkflowSpec

-----------------------------------------------------------------------------
(* What a project owns, all of it together                                 *)

(* What is proved of the company, its history, its containers, the remote  *)
(* and the workflow by themselves holds when one of them moves at a time.  *)
THEOREM OwnedIsParts ==
  OwnedSpec => Spec /\ HistorySpec /\ ContainerSpec /\ RepositorySpec /\ ProjectWorkflowSpec
<1>1. OwnedInit => Init /\ HistoryInit /\ ContainerInit /\ RepositoryInit /\ ProjectWorkflowInit
  BY DEF OwnedInit
<1>2. [OwnedNext]_ownedVars =>
      /\ [Next]_vars /\ [HistoryNext]_historyVars /\ [ContainerNext]_containerVars
      /\ [RepositoryNext]_repositoryVars /\ [ProjectWorkflowNext]_projectWorkflowVars
  BY DEF OwnedNext, ownedVars
<1>3. QED
  BY <1>1, <1>2, PTL DEF OwnedSpec, Spec, HistorySpec, ContainerSpec, RepositorySpec, ProjectWorkflowSpec

(* Whichever of them moves, every variable of it keeps its type.           *)
THEOREM OwnedTyped == OwnedSpec => []OwnedTypeOK
<1>1. TypeOK /\ HistoryTypeOK /\ ContainerTypeOK /\ RepositoryTypeOK => OwnedTypeOK
  BY DEF OwnedTypeOK
<1>2. QED
  BY <1>1, OwnedIsParts, TypeCorrect, HistoryIsKept, GrantsStayCurrent, RemoteKeepsStep, PTL
===============================================================================
