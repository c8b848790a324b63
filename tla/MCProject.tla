------------------------------- MODULE MCProject -------------------------------
(***************************************************************************)
(* An instance for the run of what a project owns: its company, that is    *)
(* queues and their dispatches, the history kept of them and the           *)
(* containers its agents work in; its git remote; and its workflow.  They  *)
(* share no variable, so they are explored one at a time: `part` says      *)
(* which one moves.                                                        *)
(***************************************************************************)
EXTENDS MCCompanyRuntime, EventHistory, AgentContainers, ProjectRepository,
        ProjectWorkflow

VARIABLE part
ownedVars == <<part, vars, historyVars, containerVars, repositoryVars, projectWorkflowVars>>

MCAgentSpecs ==
  {[caps |-> {"filesystem:write", "network:http"}, secrets |-> {"key"}],
   [caps |-> {"filesystem:read"}, secrets |-> {"ops"}],
   [caps |-> {"privileged"}, secrets |-> {}]}
\* Only the first connection brings a token.
MCConnectTo == [c \in Connects |-> IF c = "k1" THEN "A" ELSE "B"]

P(d, n) == [dir |-> d, name |-> n]
Command(s, artifacts, text) == [step |-> s, artifacts |-> artifacts, text |-> text]
Text(section, listed, all) == [section |-> section, listed |-> listed, all |-> all]
\* A workflow whose artifacts come from its texts, one with a step named twice and one of
\* the built-in names, and a utility.
Aide == [id |-> "aide", tagged |-> TRUE, hooks |-> FALSE, commands |->
  <<Command("vision", {}, Text(FALSE, {}, {P("docs", "vision.md"), P("docs", "other.md")})),
    Command("create", {}, Text(FALSE, {}, {P("items", "NNN.md")})),
    Command("plan", {P("docs", "<role>.md"), P("items", "NNN.md")}, NoBody)>>]
Crew == [id |-> "crew", tagged |-> TRUE, hooks |-> FALSE, commands |->
  <<Command("plan", {}, Text(TRUE, {}, {P("docs", "other.md")})),
    Command("vision", {}, NoBody),
    Command("vision", {}, Text(TRUE, {P("docs", "vision.md")}, {}))>>]
Gate == [id |-> "crew", tagged |-> TRUE, hooks |-> TRUE, commands |-> Crew.commands]
MCManifests == {Aide, Crew, Gate}
MCBundled == [f \in Folders |-> IF f = "aide" THEN Aide ELSE NoManifest]
MCFiles == {P("docs", "vision.md"), P("items", "one.md"), P("feature", "plan.md")}
MCRelated == {<<"vision", "vision.md">>, <<"plan", "plan.md">>}

OwnedInit ==
  /\ part \in {"company", "history", "containers", "repository", "workflow"}
  /\ Init /\ HistoryInit /\ ContainerInit /\ RepositoryInit
  /\ part # "containers" => \A x, y \in Agents : agentSpec[x] = agentSpec[y] /\ agentSpec[x].secrets = {}
  /\ ProjectWorkflowInit /\ installed["aide"] # Gate /\ installed["crew"] \in {Crew, NoManifest}
  /\ part # "workflow" => enabled = Folders /\ \A f \in Folders : installed[f] = NoManifest
OwnedNext ==
  /\ UNCHANGED part
  /\ \/ part = "company" /\ Next /\ UNCHANGED <<historyVars, containerVars, repositoryVars, projectWorkflowVars>>
     \/ part = "history" /\ HistoryNext /\ UNCHANGED <<vars, containerVars, repositoryVars, projectWorkflowVars>>
     \/ part = "containers" /\ ContainerNext /\ UNCHANGED <<vars, historyVars, repositoryVars, projectWorkflowVars>>
     \/ part = "repository" /\ RepositoryNext /\ UNCHANGED <<vars, historyVars, containerVars, projectWorkflowVars>>
     \/ part = "workflow" /\ ProjectWorkflowNext /\ UNCHANGED <<vars, historyVars, containerVars, repositoryVars>>
OwnedSpec == OwnedInit /\ [][OwnedNext]_ownedVars

OwnedTypeOK ==
  /\ TypeOK
  /\ part = "history" => HistoryTypeOK
  /\ part = "containers" => ContainerTypeOK
  /\ part = "repository" => RepositoryTypeOK
===============================================================================
