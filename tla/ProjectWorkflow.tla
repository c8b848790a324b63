---------------------------- MODULE ProjectWorkflow ----------------------------
(***************************************************************************)
(* The workflow of a project: which steps its pages show, what an agent is *)
(* told when a chat of a step begins, and when a step completes itself.    *)
(* meta.json holds the id of a workflow; what it means is read anew, by    *)
(* each request, from the manifest of an extension, in the project's       *)
(* folder or else in the one registered for the whole server, and from the *)
(* markdown of its commands.  The user and the `specify` CLI change both.  *)
(*                                                                         *)
(* A manifest is a record [id, tagged, hooks, commands]; a command is      *)
(* [step, artifacts, text], its text NoBody or [section, listed, all]: has *)
(* it a section "Output", which paths are in the section, and which in all *)
(* of it.  A path is [dir, name]; its name is "/" when it is a directory.  *)
(***************************************************************************)
EXTENDS Naturals, Sequences, FiniteSets

CONSTANTS
  Folders,       \* names of extension folders, and ids of extensions
  Manifests,     \* the manifests an extension may have
  Bundled,       \* the manifest, or NoManifest, the server has for a name
  Angles,        \* directories and names with a placeholder like <role>
  Numbers,       \* names with a placeholder like NNN
  Related,       \* pairs of a step and a name that has one of its words
  Wordless,      \* steps whose words are all verbs like "create"
  Files,         \* the files an agent may write
  NoManifest, NoBody,
  MaxChanges,    \* bound: changes to manifests, registry and files
  MaxRequests    \* bound: requests

\* Artifacts and files are paths; the files agents write lie in directories whose names
\* are no placeholders.
ArePaths(ps) == \A p \in ps : p = [dir |-> p.dir, name |-> p.name]
HasPaths(m) ==
  \A i \in DOMAIN m.commands :
    LET c == m.commands[i] IN
    /\ ArePaths(c.artifacts)
    /\ c.text # NoBody => ArePaths(c.text.listed) /\ ArePaths(c.text.all)
    /\ [of |-> m.id, text |-> c.text] # NoBody
ASSUME ProjectWorkflowAssumption ==
  /\ \A m \in Manifests : Len(m.commands) \in Nat /\ DOMAIN m.commands = 1..Len(m.commands) /\ HasPaths(m)
  /\ Bundled \in [Folders -> Manifests \cup {NoManifest}]
  /\ ArePaths(Files) /\ \A q \in Files : q.dir \notin Angles

VARIABLES
  installed,  \* the manifests in the folders of the project
  enabled,   \* the slugs enabled in the registry, or Folders when there is none
  onDisk,     \* the files that exist
  meta,       \* the workflow in meta.json
  done,       \* the steps that are complete
  opened,     \* the page: its workflow as the server sent it
  choice,     \* a POST of a workflow
  prompt,     \* a chat whose first turn begins
  auto,       \* a request to complete a step if its artifacts are there
  used        \* bounds and history: changes and requests made
workflowFiles == <<installed, enabled, onDisk, meta, done>>
projectWorkflowVars == <<workflowFiles, opened, choice, prompt, auto, used>>

-------------------------------------------------------------------------------
\* Reading an extension.
ExtensionAt(f) == IF installed[f] # NoManifest THEN installed[f] ELSE Bundled[f]
IsWorkflowShape(m) == m.tagged /\ ~m.hooks /\ Len(m.commands) >= 3

\* A path of a text that is to be filled in stands for its directory.
Collapse(p) ==
  IF p.dir \in Angles THEN [dir |-> "root", name |-> "/"]
  ELSE IF p.name \in Angles \cup Numbers THEN [p EXCEPT !.name = "/"] ELSE p
CollectPaths(ps) == {Collapse(p) : p \in ps}
ExtractArtifactPaths(text, step) ==
  LET paths == CollectPaths(text.all)
      matches == {p \in paths : <<step, p.name>> \in Related} IN
  IF text.section THEN CollectPaths(text.listed)
  ELSE IF step \in Wordless \/ matches = {} THEN paths ELSE matches
\* What the manifest declares, as it stands there; else what the text tells.
ArtifactsOf(c) ==
  IF c.artifacts # {} THEN c.artifacts
  ELSE IF c.text = NoBody THEN {} ELSE ExtractArtifactPaths(c.text, c.step)

\* The built-in steps, with the artifacts they name.
SpecKitSteps ==
  LET feature(n) == [dir |-> "<feature>", name |-> n] IN
  <<[step |-> "constitution", artifacts |-> {[dir |-> "memory", name |-> "constitution.md"]}],
    [step |-> "specify", artifacts |-> {feature("spec.md")}],
    [step |-> "plan", artifacts |-> {feature("plan.md")}],
    [step |-> "tasks", artifacts |-> {feature("tasks.md")}],
    [step |-> "implement", artifacts |-> {}]>>
SpecKit == [id |-> "spec-kit", steps |-> SpecKitSteps]
NoWorkflow == [id |-> "none", steps |-> <<>>]
LoadWorkflow(f) ==
  LET m == ExtensionAt(f) IN
  IF m = NoManifest THEN NoWorkflow
  ELSE IF ~IsWorkflowShape(m) THEN NoWorkflow
  ELSE [id |-> m.id,
        steps |-> [i \in DOMAIN m.commands |->
                     [step |-> m.commands[i].step, artifacts |-> ArtifactsOf(m.commands[i])]]]
WorkflowNamed(id) ==
  IF id = "spec-kit" \/ LoadWorkflow(id) = NoWorkflow THEN SpecKit ELSE LoadWorkflow(id)
\* All the workflows the picker offers, by what is in the project's folders.
ListWorkflows(slugs) ==
  {SpecKit} \cup ({LoadWorkflow(f) : f \in {g \in slugs : installed[g] # NoManifest}} \ {NoWorkflow})

StepsNamed(w, s) == {i \in DOMAIN w.steps : w.steps[i].step = s}
HasStep(w, s) == StepsNamed(w, s) # {}
FirstOf(S) == CHOOSE i \in S : \A j \in S : i <= j
StepOf(w, s) == w.steps[FirstOf(StepsNamed(w, s))]

\* A mutant: only the project's own folder is searched for the text.
CommandBodyInstalled(f, s) ==
  LET m == installed[f]
      with == IF m = NoManifest THEN {}
              ELSE {i \in DOMAIN m.commands : m.commands[i].step = s /\ m.commands[i].text # NoBody} IN
  IF with = {} THEN NoBody ELSE [of |-> m.id, text |-> m.commands[FirstOf(with)].text]
\* The text of the first command of the step that names a file.
CommandBody(f, s) ==
  LET m == ExtensionAt(f)
      with == IF m = NoManifest THEN {}
              ELSE {i \in DOMAIN m.commands : m.commands[i].step = s /\ m.commands[i].text # NoBody} IN
  IF with = {} THEN NoBody ELSE [of |-> m.id, text |-> m.commands[FirstOf(with)].text]

\* Whether one of the artifacts is there: by its name, or by any file of its directory.
Exists(p) ==
  IF {p.dir, p.name} \cap Angles # {} \/ p.name = "/" THEN \E q \in onDisk : q.dir = p.dir ELSE p \in onDisk
AnyArtifactExists(ps) == \E p \in ps : Exists(p)

-------------------------------------------------------------------------------
ProjectWorkflowInit ==
  /\ installed \in [Folders -> Manifests \cup {NoManifest}]
  /\ enabled \in {Folders, {f \in Folders : installed[f] # NoManifest}, {}}
  /\ onDisk = {} /\ meta = "spec-kit" /\ done = {}
  /\ opened = [at |-> "closed", id |-> "none", workflow |-> NoWorkflow, as |-> 0]
  /\ choice = [at |-> "idle", id |-> "none", slugs |-> {}, as |-> 0]
  /\ prompt = [at |-> "idle", step |-> "none", id |-> "none", workflow |-> NoWorkflow, body |-> NoBody, as |-> 0]
  /\ auto = [at |-> "idle", step |-> "none", afterTurn |-> FALSE, id |-> "none", artifacts |-> {}, as |-> 0]
  \* version counts what changes the meaning of a workflow; unearned and missed are
  \* history: a current page's step completed itself without, or not with, its file.
  /\ used = [version |-> 0, changes |-> 0, requests |-> 0, unearned |-> FALSE, missed |-> FALSE]

Request == used.requests < MaxRequests /\ used' = [used EXCEPT !.requests = @ + 1]
UNCHANGEDRequests == UNCHANGED <<opened, choice, prompt, auto>>

\* `specify extension add`, its removal, or an edit of the manifest or its texts.
ChangeExtension(f) ==
  /\ used.changes < MaxChanges
  /\ used' = [used EXCEPT !.changes = @ + 1, !.version = @ + 1]
  /\ \E m \in (Manifests \cup {NoManifest}) \ {installed[f]} : installed' = [installed EXCEPT ![f] = m]
  /\ enabled' \in {enabled, enabled \cup {f}, enabled \ {f}}
  /\ UNCHANGED <<onDisk, meta, done>> /\ UNCHANGEDRequests
WriteFile(p) ==
  /\ used.changes < MaxChanges /\ used' = [used EXCEPT !.changes = @ + 1]
  /\ p \notin onDisk /\ onDisk' = onDisk \cup {p}
  /\ UNCHANGED <<installed, enabled, meta, done>> /\ UNCHANGEDRequests

\* GET of the project: the id of meta.json, then the workflow it stands for.
OpenPage ==
  /\ Request /\ opened.at # "asked"
  /\ opened' = [at |-> "asked", id |-> meta, workflow |-> NoWorkflow, as |-> used.version]
  /\ UNCHANGED <<workflowFiles, choice, prompt, auto>>
ShowPage ==
  /\ opened.at = "asked"
  /\ opened' = [opened EXCEPT !.at = "shown", !.workflow = WorkflowNamed(opened.id)]
  /\ UNCHANGED <<workflowFiles, choice, prompt, auto, used>>

\* POST of a workflow: compared with what is listed, then saved.
AskChoice(id) ==
  /\ Request /\ choice.at \in {"idle", "saved"}
  /\ choice' = [at |-> "asked", id |-> id, slugs |-> enabled, as |-> used.version]
  /\ UNCHANGED <<workflowFiles, opened, prompt, auto>>
CheckChoice ==
  /\ choice.at = "asked"
  /\ choice' = [choice EXCEPT !.at = IF \E w \in ListWorkflows(choice.slugs) : w.id = choice.id
                                     THEN "checked" ELSE "idle"]
  /\ UNCHANGED <<workflowFiles, opened, prompt, auto, used>>
SaveChoice ==
  /\ choice.at = "checked" /\ choice' = [choice EXCEPT !.at = "saved"]
  /\ meta' = choice.id /\ used' = [used EXCEPT !.version = @ + 1]
  /\ UNCHANGED <<installed, enabled, onDisk, done, opened, prompt, auto>>

\* The first turn of a chat, on a step the page shows: the id, the workflow, the text.
BeginPrompt(s) ==
  /\ Request /\ prompt.at \in {"idle", "told"} /\ opened.at = "shown" /\ HasStep(opened.workflow, s)
  /\ prompt' = [at |-> "begun", step |-> s, id |-> meta, workflow |-> NoWorkflow, body |-> NoBody, as |-> used.version]
  /\ UNCHANGED <<workflowFiles, opened, choice, auto>>
FindStep ==
  /\ prompt.at = "begun"
  /\ LET own == IF prompt.id = "spec-kit" THEN NoWorkflow ELSE LoadWorkflow(prompt.id)
         of == IF HasStep(own, prompt.step) THEN own ELSE SpecKit IN
     prompt' = IF HasStep(of, prompt.step) THEN [prompt EXCEPT !.at = "found", !.workflow = of]
               ELSE [prompt EXCEPT !.at = "told"]
  /\ UNCHANGED <<workflowFiles, opened, choice, auto, used>>
ReadBody ==
  /\ prompt.at = "found"
  /\ prompt' = [prompt EXCEPT !.at = "told",
       !.body = IF prompt.workflow = SpecKit THEN [of |-> "spec-kit", text |-> prompt.step]
                ELSE CommandBody(prompt.id, prompt.step)]
  /\ UNCHANGED <<workflowFiles, opened, choice, auto, used>>

\* POST auto-complete, after a turn or when the page loads.
AskAuto(s, afterTurn) ==
  /\ Request /\ auto.at = "idle" /\ opened.at = "shown" /\ HasStep(opened.workflow, s) /\ s \notin done
  /\ auto' = [at |-> "asked", step |-> s, afterTurn |-> afterTurn, id |-> meta, artifacts |-> {}, as |-> used.version]
  /\ UNCHANGED <<workflowFiles, opened, choice, prompt>>
FindArtifacts ==
  /\ auto.at = "asked"
  /\ LET w == WorkflowNamed(auto.id) IN
     auto' = [auto EXCEPT !.at = "found",
                !.artifacts = IF HasStep(w, auto.step) THEN StepOf(w, auto.step).artifacts ELSE {}]
  /\ UNCHANGED <<workflowFiles, opened, choice, prompt, used>>
\* A file is one of an artifact as its reader would take it.
Fits(q, p) ==
  /\ q.dir = p.dir \/ p.dir \in Angles
  /\ q.name = p.name \/ p.name = "/" \/ p.name \in Angles \cup Numbers
CompleteStep ==
  LET should == IF auto.artifacts = {} THEN auto.afterTurn ELSE AnyArtifactExists(auto.artifacts)
      current == /\ opened.at = "shown" /\ opened.as = used.version /\ auto.as = used.version
                 /\ HasStep(opened.workflow, auto.step)
      promised == IF current THEN StepOf(opened.workflow, auto.step).artifacts ELSE {}
      fitting == {p \in promised : \E q \in onDisk : Fits(q, p)} IN
  /\ auto.at = "found" /\ auto' = [auto EXCEPT !.at = "idle"]
  /\ done' = IF should THEN done \cup {auto.step} ELSE done
  /\ used' = [used EXCEPT
       !.unearned = @ \/ (current /\ should /\ fitting = {} /\ ~(promised = {} /\ auto.afterTurn)),
       !.missed = @ \/ (current /\ ~should /\ \E p \in fitting : p.dir \notin Angles /\ p.name \notin Numbers)]
  /\ UNCHANGED <<installed, enabled, onDisk, meta, opened, choice, prompt>>
Reopen(s) ==
  /\ Request /\ s \in done /\ done' = done \ {s}
  /\ UNCHANGED <<installed, enabled, onDisk, meta>> /\ UNCHANGEDRequests

StepNames == {SpecKitSteps[i].step : i \in DOMAIN SpecKitSteps}
             \cup UNION {{m.commands[i].step : i \in DOMAIN m.commands} : m \in Manifests}
ProjectWorkflowNext ==
  \/ \E f \in Folders : ChangeExtension(f) \/ AskChoice(f)
  \/ \E p \in Files : WriteFile(p)
  \/ OpenPage \/ ShowPage \/ AskChoice("spec-kit") \/ CheckChoice \/ SaveChoice
  \/ FindStep \/ ReadBody \/ FindArtifacts \/ CompleteStep
  \/ \E s \in StepNames : BeginPrompt(s) \/ Reopen(s) \/ \E b \in BOOLEAN : AskAuto(s, b)
ProjectWorkflowSpec == ProjectWorkflowInit /\ [][ProjectWorkflowNext]_projectWorkflowVars

-------------------------------------------------------------------------------
ProjectWorkflowTypeOK ==
  /\ installed \in [Folders -> Manifests \cup {NoManifest}] /\ enabled \subseteq Folders
  /\ onDisk \subseteq Files /\ meta \in Folders \cup {"spec-kit"} /\ done \subseteq StepNames
  /\ opened.at \in {"closed", "asked", "shown"} /\ choice.at \in {"idle", "asked", "checked", "saved"}
  /\ prompt.at \in {"idle", "begun", "found", "told"} /\ auto.at \in {"idle", "asked", "found"}

\* A chosen workflow is the one that is shown from then on, as long as nothing else
\* changes, if every extension is in a folder of its id: the list goes by folders and
\* the registry, the page by the id alone.
ChoiceIsShown ==
  LET filed == \A f \in Folders : ExtensionAt(f) # NoManifest => ExtensionAt(f).id = f IN
  filed /\ choice.at = "saved" /\ used.version = choice.as + 1 =>
    /\ WorkflowNamed(meta).id = choice.id
    /\ opened.at = "shown" /\ opened.as = used.version => opened.workflow.id = choice.id

\* An agent works on the step its user sees: the same workflow as on a page of the same
\* moment, and the text of that step's own command, or the built-in text for a built-in
\* step.  Two commands that share a step name are exempt: the page shows the first, and
\* the agent gets the first that has a text.
PromptIsOfStep ==
  prompt.at = "told" /\ prompt.as = used.version =>
    LET w == prompt.workflow IN
    /\ opened.at = "shown" /\ opened.as = used.version /\ HasStep(opened.workflow, prompt.step) =>
         w = opened.workflow
    /\ w # NoWorkflow /\ w # SpecKit =>
         LET cs == ExtensionAt(prompt.id).commands
             own == {i \in DOMAIN cs : cs[i].step = prompt.step} IN
         Cardinality(own) = 1 => \A i \in own :
           /\ (prompt.body = NoBody) = (cs[i].text = NoBody)
           /\ prompt.body # NoBody => prompt.body.text = cs[i].text

\* A step completes itself when, and only when, a file is there that an artifact on its
\* page stands for, or it shows none and a turn ended.  That nobody finds the files of a
\* placeholder in a directory's name, nor declared ones like NNN, is the code's behaviour:
\* of the built-in steps only the constitution completes itself.
StepsCompleteByFiles == ~used.unearned /\ ~used.missed

\* The workflow of a project: its records keep their types, and page, choice, agent and
\* completion agree on it.
WorkflowsAgree == ProjectWorkflowTypeOK /\ ChoiceIsShown /\ PromptIsOfStep /\ StepsCompleteByFiles

===============================================================================
