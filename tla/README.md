# Formal models of specifyr

This directory holds TLA+ models of the parts of specifyr whose correctness
depends on the order in which things happen, the TLC runs that check them on
small instances, and TLAPS proofs of the theorems that hold for every instance.
Paths are relative to the repository root.

## 1. Inventory

specifyr is a Nuxt/Nitro server (`server/`) over a JavaScript core (`src/`) and
a Vue application (`app/`).  State lives in three places: JSON and JSONL files
below `.specifyr/<org>/<project>/`, a Postgres database, and module-level maps
in the one server process.  Node runs one callback at a time, so a race needs
an `await` between two steps of one activity; nearly every handler has several.

| Component | State it keeps | Operations | What is hard |
|---|---|---|---|
| **Implement run**: `src/core/run-scheduler.js`, `run-store.js`, `run-manager.ts`, `run/*.post.ts` | `run/current.json` (and its `.tmp`), the registry of active schedulers, the scheduler's in-memory state, `inFlight`, `abort` | start, launch, complete, fail, block, cancel, retry, skip | lost updates between read and save, a save nobody awaits, a shared tmp file, a check before an await, cancel at any moment, a crash |
| **Page of a run**: `run.vue`, `sse-client.ts` | the tasks it shows, the stream it reads | start, patch, read again, lose the stream | patches against answers, answers out of order |
| **Interactive turns**: `turn-broker.js`, `session-store.js`, `steps/**/turn*.ts`, `[sid].delete.ts`, two plugins | session meta, messages, event log; broker maps `running`, `sessions`, idle timers; agent processes | start turn, event, end, cancel, delete, stream, idle close, shutdown, restart | check-then-act, unordered appends, timer against a new turn, gap-free streaming, delete during a turn, zombie sessions |
| **Page of a chat**: `ChatStream.vue` | messages shown, the stream it follows, requests under way | select, load, send, retry, stop, follow | a load that overlaps events, a session selected in the middle of a turn |
| **Page of a step**: `[stepId].vue` | list of sessions, route, last session in localStorage | load, open, create, delete, leave | late answers of a page that was left |
| **Runners**: `runners/acp.js`, `claude-code.js`, `hermes-streaming.js`, `utils/process.js` | child process, session id, event sink, the promise of a run | start, prompt, cancel, abort, close | several signals settle one promise, a child that outlives it, close during a prompt |
| **Step state**: `step-state.js`, `complete.post.ts`, `auto-complete.post.ts`, `reopen.post.ts` | one file per step | mark in progress, complete, reopen | read-modify-write of one file |
| **Company runtime**: `company-runtime.js`, `queue-poller.js`, `supervisor.js` | a queue directory, a queue and an entry per role, paths in flight, what the watchdog watches | start, dispatch, stop, supervise | dispatch while starting or stopping, repeated watcher events, failing runners, a dispatch that outlives its runtime |
| **Company history**: `company-event-log.js`, `company-event-index.js`, `runtime.vue` | a JSONL file, a table that survives the runtime | append, rebuild, pending dispatches, recent events | a crash between line and row, half a line, rows of an earlier runtime |
| **Company manager**: `company-manager.ts`, `company/start.post.ts`, `stop.post.ts`, `company-network.js` | registry of runtimes, networks, containers, pollers | start, stop, replace | partial failure, two starts, stop during start |
| **Agent containers**: `hermes-docker.js`, `capability-to-docker.js`, `spec-loader.js` | containers that last, specs and secrets they were made of | start, execute, stop | a container that outlives its start, specs edited between two reads |
| **Capability approvals**: `capability-approval-service.js`, `capability-gate.js`, `approvals/[id]/decide.post.ts` | pending requests with timers, the event log | request, decide, time out | decision racing the timeout, a stopped company |
| **Organisations**: `org-store.ts` | orgs, memberships, invites | accept, change role, remove, transfer | two admins at once |
| **Access**: `project-access.ts`, `project-store.ts`, `org-permissions-store.ts` | project memberships, permissions | admit, list, unlist, grant, revoke | five queries that no transaction spans |
| **Accounts**: `middleware/auth.ts`, `platform-settings.ts`, `admin/api/admin` | users, policy, list of admins | every request; block, delete, set policy and admins | admins against each other, ids that die |
| **LLM credentials**: `llm-credentials-store.ts`, `llm-agent-profiles-store.ts`, `runner-sessions-store.ts` | credentials, profiles, tokens | create, switch, expire, delete, save a profile, launch | a check and its use in two statements |
| **OAuth login**: `oauth-flow.ts`, `claude-oauth-driver.ts` | rows, a CLI process, its home on disk | start, code, cancel, delete, time out | late answers, credentials left in the clear |
| **Spec drafts**: `spec-draft-store.ts`, `spec-public-state.ts`, `active-session.ts` | drafts, published versions, files, the browser's copy | create, save, delete, publish | publish against a stale base, retried saves |
| **Organisation extensions**: `org-extensions-store.ts` | rows and directories | add, remove | row and directory disagree |
| **Project extensions**: `extension-install.ts`, `extensions/[extSlug].delete.ts`, `workflow-discovery.ts` | manifest, folders, the CLI's registry | install, remove, list | requests that overlap without a lock |
| **Workflow of a project**: `workflow-discovery.ts`, `workflows.ts`, `auto-complete.post.ts` | the id in `meta.json`; manifests and texts of extensions | list, choose, show, prompt, complete a step | each reader reads anew, and not all search the same places |
| **Projects**: `project-creation.ts`, `projects.post.ts`, `[projSlug].delete.ts` | row, directories, secrets | create, delete | a failure between two steps |
| **Git remote**: `project-repository.ts`, `git-remote.ts`, `repository-autosync.ts`, `repository*.ts` | configuration, token, working tree, remote | connect, disconnect, push, pull | two stores for one configuration, a push that fails after its commit |
| **Orchestrator**: `orchestrator.js`, `artifact-store.js`, `approval-service.js`, `spec-kit-bridge.js` | `spec.md`, `plan.json`, `tasks.json`, `run.json`, approvals, a mirror of the spec | create, refine, plan, generate tasks, approve, run, pull the mirror | four files per command, progress saved at the end, overlapping commands |
| **Others** (`PROJECT.json` lists each with its reason): task graph extraction, catalogues, ACP server, transports, CLI, other pages | none that outlives a call, or caches | | |

Interactions: HTTP handlers call stores and managers directly; the scheduler,
the broker and the company runtime drive agents through runner objects and hear
from them through callbacks; the stream handlers subscribe to emitters; the
approval service connects the capability gate of an agent with the HTTP
decision; pages follow streams and read again when they end; a crash keeps
files, rows and containers and loses every map.

## 2. Plan

Done, in this order, most important first: the implement run; the turns of a
session, their streams; the company runtime (each with proofs); approvals with
their abstract promise, manager, members, drafts, extensions, projects, steps,
OAuth login; credentials and profiles, accounts; the chat and run pages, project
extensions and git remote; the history and the containers of a company; access
to projects; the runners; the orchestrator; the workflow of a project and the
page of a step.

Left, in this order:

1. `RunScheduler` with an abstract pool of tasks, publishing as a
   compare-and-set.
2. Pure readers against reference definitions: validation of a task graph and
   of the reporting lines of a company, merging of catalogues.

The models share a form.  A component is a module: its state as variables, one
action per operation or per piece of a handler between two awaits, a type
invariant, and one or two properties, conjunctions of named parts, about what
several actors must do to break it.  History variables, marked as such, record
what a property exempts.  No module declares a RECURSIVE operator; iteration is
written as a recursive function or with the folds of the community modules.

## 3. Modules

### RunScheduler

One project's Implement run.  The tasks are the positions of `graph.tasks`;
constants give their dependencies, which are `parallelSafe`, the slots, and the
requests that may arrive.

* **Granularity.** An action is the code between two awaits that touch shared
  state.  A save is three steps, as in `utils/fs.js`: the copy is made when the
  state is read, `current.json.tmp` is written, the tmp file is renamed.  All
  writers use the same tmp name, so a writer may rename another's content, and
  a rename that finds no tmp file fails, which the code meets differently at
  each caller (`RenameRunFails`, `RenameOkFails`, `RenameFailFails`,
  `RenameLaunch`, `RenameEdit`).
* **State.** `current`/`tmp` are the files; `registry` is `run-manager.ts`'s
  map; `pc`, `doc`, `mem`, `inFlight`, `abort`, `outcome` belong to a start
  request and the `execute()` it becomes; `wpc`, `wdoc` to a task's promise;
  `lpc` to the unawaited save of `launchTask`; `epc`, `edoc` to a retry or
  skip.  `resolved`, `threw`, `skipped` are history variables.
* **Actions.** `StartRequest` .. `Register` are `start.post.ts`; `ReadRunStatus`
  .. `Verdict` are `execute()`; `LaunchTask` is `launchTask` with
  `pickLaunchable`; `AgentStarts` .. `RenameFailFails` are the promise it
  starts; `Cancel` is `cancel.post.ts` with `RunScheduler.cancel` and
  `AcpRunner.cancel`; `EditRequest` .. `RenameEdit` are the retry and skip
  handlers; `Restart` is a server crash.  The launch loop is synchronous, so
  nothing else runs while a scheduler is at `loop`.
* **Abstracted.** A blocked task's `lastError` is the task it names (`cause`);
  that retry looks for an id as a *substring* is the constant `Mentions`.
  Writing the tmp file is one step; I/O errors other than the rename race are
  left out.  Logs, summaries, events and the SSE stream are left out.  A task
  absent from the state cannot occur, since each start rewrites the state from
  the graph it executes.

### TurnBroker

One chat session, its files, and the turns that are posted to it.

* **Granularity.** An action is the code between two awaits that touch shared
  state.  `appendMessage` and `updateSessionMeta` read the whole meta file and
  write it back: `ReadMeta` and `WriteMeta`, with `AfterRead`, `AfterWrite` and
  `NewStatus` as the table of the seven places that do so.  A missing meta file
  is ignored by the first and makes the second throw.
* **State.** `status` is the field of `<sid>.json` ("gone" without a file),
  `log` the events file, `pending` the appends begun and not ended; `running`,
  `cached` and `timers` are the broker's maps; `child` is the state of each
  agent process, named by the turn that spawned it.  `pc`, `uses`, `seq`,
  `base`, `copy` are a turn's locals.  `dpc` and `zombie` are the deletions and
  the start-up repair.
* **Actions.** `PostTurn`, `NoProfile` are `turn.post.ts`; `StartTurn`,
  `ResolveRunner`, `Spawned`, `SpawnFails` are `startTurn` up to its answer;
  `PromptResolves`, `PromptRejects`, `Catch`, `IssueAppend`, `Land`, `Finally`
  the promise it leaves behind; `SessionUpdate` an update of the agent, whose
  append nobody awaits; `IdleTimer`, `ChildDies`, `Drain`, `Restart` what may
  happen at any time; `DeleteRequest`, `DeleteWaits`, `DeleteSession` are
  `[sid].delete.ts`; `ZombieRead`, `ZombieWrite` are the repair of one session.
* **Event sinks.** `prompt()` installs the turn's sink and restores the previous
  one, which is the sink the child was built with.  So an update that arrives
  between two turns goes to the turn that spawned the child (`Sinks`), and
  takes the next seq of that old turn.
* **Abstracted.** Message contents and prompts; a cancel, which changes no state
  here and lets the prompt resolve; I/O errors; the retry of an expired session
  (`turn-broker.js:237-268`), which needs an error result that `AcpRunner` never
  returns; closing a child, which is one step.

### TurnStream

`TurnBroker` composed with the streams of `turn/stream.get.ts`: `Land` and
`Finally` happen together with what the emitter's listeners do (`Deliver`,
`CloseAll`).  The synthetic event for an interrupted session is left out.

### CompanyRuntime

The runtimes a project has one after the other, over the same queue
directories.  A dispatch is named by its runtime and its task, since it goes on
when its runtime is stopped.

* **Granularity.** An action is the code between two awaits that touch shared
  state.  `_processNextDispatch` runs, up to the append of `dispatch-started`,
  in the turn of whoever calls it: `ProcessNext` is an operator that
  `EnqueueDispatch` and `Finish` use.  The unlink of a completed file and the
  finally after it are one step.
* **State.** `files` are the YAML files in the queue directories, `log` counts
  the events of the JSONL log; `phase`, `watching`, `pollers` say how far
  `start()` or `stop()` of the current runtime is; `told` and `reads` are its
  watchers' announcements and the reads they began; `queue`, `dispatching`,
  `inFlight` are the three maps of the runtime; `watch` and `tickets` are the
  supervisor's entries and the escalations it has begun; `act` is where each
  dispatch stands.  `written`, `alerts`, `lost`, `tried`, `early` are history.
* **Actions.** `Drop` is a file written by a dispatch endpoint, an agent or the
  user; `Announce`, `Refire`, `ReadFails` are the watcher's events;
  `EnqueueDispatch` is `_enqueueDispatch`; `LogStarted` .. `RemoveFile` are
  `_dispatchToRole` and the finally; `Tick` and `WriteTicket` are the
  supervisor; `Start`, `StartFails`, `OpenPoller`, `PollerReady` are `start()`;
  `Stop`, `StopPoller`, `StopEnds` are `stop()`; `Crash` is a server crash.
* **Order of runtimes.** `Start` waits for the end of the last `stop()`.  Starts
  and stops that overlap are the company manager's matter: `CompanyManager`.
* **Abstracted.** The contents of tasks, results and events; YAML that does not
  parse and other I/O errors; runners without `execute`, which only tests use; a
  role without a runner, which cannot be dispatched to while there are pollers;
  the SQLite index and the containers, which `EventHistory` and
  `AgentContainers` have.
  Ticks are per entry, so that two that overlap are included.

### ApprovalPromise, CapabilityApproval

`ApprovalPromise` is the abstract specification: a use of a capability is
allowed only to who is entitled to it, a guarded use only after a person said
so, and each use gets one outcome, for good.  `CapabilityApproval` is the code:
the gate, which looks at the first grant that matches; `requestApproval` with
its append, its `pending` map and its timer; `decide.post.ts`, which finds a
request only through the registry of active companies; the answer of an ACP
client; a stop of the company and a crash.  `Outcome` and `Voice` map its
stages to the promise's, and `ImplementsPromise` says that every step is one of
the promise's or a stutter.  The timeout's length is not modelled.

### OAuthLogin

Login with the claude CLI.  `ListRows` .. `UndoRow` are a start with its sweep of
older rows, `FindRow` .. `CleanHome` the code, `FindPending` .. `DropCancelled` the
cancellation, `DeleteCredential` and `EraseHome` the deletion, `FlowTimesOut` the
driver's timer; `CliWrites`, `CliExits`, `CliDies` the process, which is external.
A flow names its row, its process and its home.

### CompanyManager

Starts and stops of companies, a runtime being named by the start that builds
it: the 409 check, `markCompanyStarting`, the network and its peers, one
container and one poller per role, the registration, the stop a replaced runtime
gets without anybody waiting for it, the clean-up of a start that fails.
`calm`, chosen in the initial state, says whether clients wait for an answer
before they send the next request about a company.

### AgentContainers

What the containers of a company are given: `LoadSpecs`, `CheckSecrets` and
`LoadCompany` are the two reads of the specs and the check between them;
`Grants` is `capabilityFlags` as far as mount, network and environment go;
`StartPersistent` reuses a container of the role's name that runs;
`Execute` is `docker run` or `docker exec`.  `left` marks containers of starts
that failed or died, which the next start reuses as they are.

### EventHistory

The file and the table of events.  An append takes its time, then writes the
line, then the row, each an action; `Boot` fills the table from the file, while
rows of an earlier runtime stay; a crash may leave half a line, to which the
next line is appended.  `PendingDispatches` and `PagePending` are the index's
query and the page's loop over the newest `Limit` rows; `Recent` is every set of
rows that query may return, for rows of one millisecond come in any order.

### ProjectRepository

The remote of a project.  `CheckToken` .. `StoreConfig` are a PUT, `ClearConfig`
and `ClearToken` a DELETE; a push is `ReadConfig` .. `Stamp`, a pull ends with
`Pull`.  A commit is the set of edits it adds.  `MaxGitCalls` bounds the pushes
and pulls that are made.

### OrgMembers, ProjectAccess, Accounts

`OrgMembers` has the transactions of `org-store.ts`: a read is an action, the
writes with the commit are one, as READ COMMITTED has it.  `ProjectAccess` has
the five queries by which a request is let into a project, the lists of a
project and the permissions of an organisation, while memberships and projects
come and go.  `Accounts` has the middleware every request goes through (`Arrive`,
`FindUser`, `Gate`, `UpsertUser`) and what platform admins do.

### SpecDraft

The browser's session and its saves (`CommitTurn`, `SaveSucceeds`, `SaveFails`,
`RetrySave`), the drafts, and the publish with its lock, its writes to disk and
its roll-back.  `calmly` says whether a browser lets a save end before it begins
another or loads another draft.

A PATCH that was sent cannot be taken back.  When the page is reloaded, or the
browser takes an attempt for lost and makes another one or gives up, the request
is left `"astray"`, and the server may handle it at any later moment
(`PatchLate`), also after a newer save, whose files it then replaces; `belated`
has the drafts that this happened to since they were last saved or loaded.  The
comment of `commitTurn` (active-session.ts:130-137) says that `pendingSave` stays
until a PATCH succeeds, so that unsaved work is not lost track of.  The code does
not do that when another draft is opened: `openDraft` (active-session.ts:93-106)
replaces the session and clears the mark, and the edits that were not saved are
gone.  `LoadDraft` does the same, so `SaveIsHonest` speaks of the session that is
shown and not of those that were.

### OrgExtensions, ProjectExtensions, ProjectLife, StepProgress

`OrgExtensions`: quota, reservation, clone, rename and clean-up of
`addOrgExtension`, and `removeOrgExtension`.  `ProjectExtensions`: manifest,
folder and the registry of the `specify` CLI, which is external.  `ProjectLife`:
creating and deleting a project step by step, with its secrets.  `StepProgress`:
one state file with its read, its `.tmp` file and its rename, and the debounced
push.

### LlmRouting

Credentials, the profiles that name them, and launches that read a profile, its
credential and mint a token, one statement after the other.

### AgentRunners

One run of an agent as a child process, for each of the four ways there are:
`ClaudeCodeRunner`, `HermesStreamingRunner`, the one-shot `AcpRunner.run` and
`runCommand`.  `task` is the run and its promise, `agent` its child, `stopped`
what an abort or a cancel has told it.  The child, and the events node delivers
about it, move by themselves: it says something, exits, closes its pipes, or was
never born.  `Settled` marks the promise; what comes later must not change it.
A plain runner waits for node's `close`, after which stdout is empty.  The ACP
runner waits for `exit`, and leaves its connection and the `onEvent` of its
constructor in place: what stdout still held, updates and requests to write a
file, is served after the run was settled (`AgentSays` of an `"exited"` agent),
and nothing is claimed about it.
What the model shows besides its properties: a cancelled ACP prompt resolves, so
the task of the run is recorded as completed; a cancel while the session opens is
lost; `close()` never sends SIGKILL, since `child.killed` is true from the
SIGTERM on (`deaf`); a broken stdin rejects while the child runs on (`broken`).

### WorkflowOrchestrator

`SpecOrchestrator` with the stores it calls.  A command reads the project's
files, works and writes them one after the other; each write is an action, so
that other commands, a failure or a crash fall between two.  `dir` are the files
of the project, `mirror` the copies for spec-kit, `call` the commands under way;
texts are versions, a batch of tasks is its length.  `past` is history: what was
executed, what succeeded, what was generated again.  The provider is
`LocalTemplateProvider`, and the executor may fail.

### ProjectWorkflow

What the id in `meta.json` means.  `ExtensionAt` .. `WorkflowNamed` are the pure
part: where a manifest is looked for, which manifests are workflows, and which
artifacts a step has (`ExtractArtifactPaths`).  Each request reads the id in one
action and what it stands for in the next, while `ChangeExtension` and
`WriteFile`, which are the `specify` CLI and an agent, go on.  What the model
shows besides its property: an artifact with a placeholder in its directory is
never found, so that of the built-in steps only the constitution completes
itself; nor is a declared one like `NNN.md`; the picker goes by folder and
registry, the page by the id as the name of a folder; of two commands with one
step name the page shows the first and the agent gets the first with a text.

### StepPage

The page of a step.  Nuxt mounts a page for each step one comes to, and a page
that was left goes on with its requests: `pages` has them all, the last one is
shown.  A request is sent, served and answered in three actions.  `Replace` is
`router.replace` by a page that may no longer be shown: its late answer takes
the user back to its step.

### ChatView, RunPage

One browser each, with the server as the page sees it.  A request is sent,
served and answered in three actions, so that answers may overtake each other
and events.  `adrift` and `astray` mark what a page does not claim to survive.
Of a turn's end a page of a chat meets, in the order of `startTurn`: the reply is
stored (or, when the turn fails, the text there is, or nothing), it is announced,
`done` or `turn_failed` is announced, the status is recorded, and the broker
forgets the turn (`StoreReply` or `FailTurn`, `TellReply`, `TellEnd`,
`RecordEnd`, `Forget`).  So a page may load a session that is still "running"
after it heard the end; and a POST is answered with 409 until the turn is
forgotten.

### MC modules

`MCRunScheduler`, `MCTurnBroker`, `MCTurnStream`, `MCCompanyRuntime` give one
module its constants.  `MCTurns`, `MCImplement`, `MCProject`, `MCLive`,
`MCStores` and `MCWorkflows` put several modules that share no variable into one run: a variable
`part`, chosen in the initial state, says which of them moves while the others
stay where they began.  So a run explores the sum of its parts and not their
product, and each property is judged on the part it is about.  Where components
do share state they are one module, or compose: `TurnStream` extends
`TurnBroker`, and `StepProgress` has both the state file and its push.

### Proof modules

Section 5 has the theorems and their arguments.

| Module | About |
|---|---|
| `RunSchedulerProofs` | `RunScheduler`, `WorkflowOrchestrator`, `RunPage`, `ProjectExtensions` |
| `TurnBrokerProofs` | `TurnBroker` |
| `PageProofs` | `ChatView`, `StepPage`, and the two with `TurnBroker` |
| `CompanyRuntimeProofs` | `CompanyRuntime` |
| `LiveProofs` | `CapabilityApproval` and that it implements `ApprovalPromise`, `OAuthLogin`, `AgentRunners`, `TurnStream`, and the four together |
| `StoreProofs` | `StepProgress`, `ProjectLife`, `SpecDraft`, `OrgExtensions`, `LlmRouting`, `CompanyManager`, `OrgMembers`, `ProjectAccess`, `Accounts`, and the nine together |
| `ProjectProofs` | `AgentContainers`, `ProjectRepository`, `EventHistory`, `ProjectWorkflow`, and the four with `CompanyRuntime` |
| `StepwiseRecursion` | recursive functions over 0..n, for the proofs that meet one |

## 4. Runs

| Run | Instance | Checks |
|---|---|---|
| `rs_one` | 3 independent tasks, the first solo, 2 slots, 1 start, fairness | `SlotRules`, `LaunchedOncePerRun`, `EveryStartEnds` |
| `rs_two` | server: chain of 2, 2 starts (symmetric). Page: 2 tasks, 1 run, 2 reads at once. Extensions: 2 slugs, 2 installs, 1 removal | `DependenciesResolvedFirst`, `CompletedIsEarned`, `PageSettles`, `ExtensionsAgree` |
| `rs_edit` | server: 3 tasks listed against their dependencies, 1 start without cancel, 2 edits, 1 crash. Orchestrator: 4 calls of which 2 overlap, 2 tasks, 1 edit of the mirror, 1 failure or crash | `TypeOK`, `VerdictHonest`, `FailureBlocksDownstream`, `WorkflowIsGated` |
| `tb` | server: 2 turns, 1 update in all, 1 deletion, 1 crash or shutdown, no overlapping POSTs. Page: 2 sessions, one of them cut off by a crash, stops, loads and lost streams, with 1 message whatever happens and with 2 as long as the page keeps track. Step: 2 steps, 3 sessions, 3 pages, 2 clicks | `TurnsTypeOK`, `OneTurnInFlight`, `ChildrenAreTended`, `TurnEndsOnce`, `ChatIsComplete`, `SessionsAreShown` |
| `cr` | company: 2 roles, a task and a ticket in the first one's queue, 2 starts, 1 repeated event, stops and crashes. History: 1 file, 2 runtimes, a page of 2 rows. Containers: 2 roles, one that lasts, 3 specs, 2 starts, 2 edits. Repository: 2 remotes, 2 PUTs, a DELETE, 2 pushes and a pull of which 2 are made, 1 edit. Workflow: 2 folders, 3 manifests, 1 change, 3 requests | `OwnedTypeOK`, `NoTaskLost`, `NoDoubleDispatch`, `WorkIsFollowed`, `HistoryIsTrue`, `ContainersAreCurrent`, `RepositoryKeepsStep`, `WorkflowsAgree` |
| `live` | turns: 1 turn, 1 update, 1 stream, 1 crash or shutdown. Approvals: 2 requests of 4 uses, 1 runtime. Login: 2 flows, of which one has a code and a cancellation and the other is deleted, crashes (`DeletedOrCancelled`). Runners: 1 run of each kind. Fairness | `LiveTypeOK`, `RecordMatchesAnswer`, `CredentialsLeaveDisk`, `ChildrenAreGone`, `TurnsAndStreamsEnd`, `ImplementsPromise`, `EveryRequestAnswered`, `ChildrenAreStopped` |
| `stores` | nine parts with two or three requests of each kind: companies, members, drafts, extensions, projects, steps, credentials, accounts, access. Drafts: two of one author, of which one is edited and saved, once; one save that is waited for and, of a calm browser, one PATCH that is not (`FewSaves`) | `StoresTypeOK`, `CompaniesAreWhole`, `ExtensionsAreInstalled`, `KeysAreRouted`, `FilesAreKept`, `PeopleAreKept` |

Several properties are conjunctions of named parts, each with its own comment in
the module: `TurnEndsOnce`, `ChildrenAreTended` (`NoChildLeaks`,
`IdleChildTimed`, `NoTimerDuringTurn`), `WorkIsFollowed` (`NothingForgotten`,
`LogBalances`, `WatchIsAccurate`), `TurnsAndStreamsEnd` (`TurnEnds`,
`StreamCloses`), `HistoryIsTrue`, `ContainersAreCurrent`, `RepositoryKeepsStep`,
`WorkflowsAgree` (`ChoiceIsShown`, `PromptIsOfStep`, `StepsCompleteByFiles`),
`SessionsAreShown` (`SessionsStayWithSteps`, `StepHasItsSession`),
`CompaniesAreWhole`, `KeysAreRouted`, `FilesAreKept` (`DraftsAreKept`,
`ProjectsAreWhole`, `StepsAreKept`), `PeopleAreKept` (`OwnerStaysAdmin`,
`AccountsAreKept`, `AccessIsEarned`), `ChildrenAreStopped` (`ChildrenEnd`,
`StoppedRunsEnd`), `WorkflowIsGated` (`TasksAreGated`, `RunsAreWhole`).

**What properties exempt.**  A property that the code does not keep in some
corner names that corner by a history variable, and the model reaches it:

| Exempt | The code's behaviour |
|---|---|
| `early` (CompanyRuntime) | dispatches that begin before `start()` has opened its last poller are never watched |
| `orphans`, `kept`, `calm` (CompanyManager) | a start that fails between two pollers leaves the first open; a network docker refuses to remove stays; two overlapping starts both pass the check |
| `left`, `edited` (AgentContainers) | a container of a start that failed or died is reused with its old grants; a secret declared between the two reads of the specs has no value |
| `missed`, `Tied` (EventHistory) | a row that could not be written is missing until the next start; two events of one millisecond have no order |
| `moved`, `fated` (ProjectRepository) | a DELETE between the writes of a PUT leaves a configuration without a token; a commit whose push failed counts as "nothing to push" |
| `interrupted`, `orphaned` (OAuthLogin) | a code request that fails after the submission leaves the home until the next start; a CLI outlives a server that dies |
| `broken`, `deaf` (AgentRunners) | a child whose stdin broke runs on; one that ignores SIGTERM is never killed. By kind and not by a variable: an ACP child is heard after its run was settled |
| `troubles`, `rebatched`, `edited` (WorkflowOrchestrator) | after a failure, a crash or two calls at once the files of a project may disagree; a batch generated later has tasks of the same numbers; the spec is edited in the mirror |
| `lapse` (OrgMembers) | an owner who accepts an invitation as a member, a transfer that overlaps another request about the new owner |
| `torn`, `calmly`, `belated` (SpecDraft) | a publish that is rolled back leaves half-written files; a save that ends after another draft was loaded may clear its mark; a PATCH that nobody waits for may replace a newer save |
| `crossed` (OrgExtensions) | a removal or a failed add takes away the directory of a later add |
| `overlap` (ProjectLife) | overlapping creates wipe each other's files |
| `settled`, `crashed` (StepProgress) | a completion that met a request under way can be overwritten; a crash forgets the scheduled push |
| `ambushed` (Accounts) | two admins block each other |
| `disturbed` (ProjectExtensions) | two requests about one slug, a crash, an unreadable registry |
| `filed` (ProjectWorkflow) | an extension whose folder is not its id can be chosen and is shown as spec-kit |
| `hasty`, `crossed`, `failed` (StepPage) | a page left while busy takes the user back; a load that crosses a creation lists a session twice or not; a request that fails opens no session |
| `astray` (RunPage), `adrift` (ChatView) | answers in the wrong order, a failed read; a user who selects or sends while a request is under way, or retries while a turn is followed |

**Bounds.** Three tasks and two slots are the least in which others wait for a
solo task and two then run together; two starts are the least in which the
registry check matters; a chain of two tasks is the least with a dependency;
three tasks listed backwards are the least in which one pass of `propagateBlock`
is not enough; two edits are the least in which a retry and a skip overlap.
`MaxRestarts` bounds crashes, `Cancellable` says which starts may be cancelled
(`rs_two` and `rs_edit` have no cancel, which `rs_one` has); both exist only to bound
the model. Of the turns, two are the least in which a child is reused, a timer
meets a new turn and a late event meets the next turn's log (`InOrder` names the
one posted first, for they are alike); one update (`OneUpdate`) is the least
that can land out of order with the events a turn waits for; one deletion and
one crash can each fall between any two steps. `Overlapping` says whether a POST
may arrive while another of the session has no answer: the client does not send
one, so the passing runs and the theorems exclude it, and `tb_overlap` shows
what the broker's own checks are worth when it happens. Of the page of a chat,
one message meets all that may happen to a page; a second one, without which no
turn follows another, comes only while `adrift` does not hold (the parts "page"
and "talk"). The proof of `ChatIsComplete` showed that one was too small a
bound: a retry while a turn is followed loses that turn's message, which is why
`adrift` names it. Of the company, two files of one role are the least of which
one waits for the other, and the second role makes a start have a step between
two pollers; two starts are the least in which a dispatch outlives its runtime.
`MaxRefires` bounds the repeated events, `MaxAlerts` the escalations that one
dispatch may get and those whose ticket is still to be written, `MaxRuntimes`
the starts, `MaxCompanies`, `MaxClock`, `MaxBoots`, `MaxSpecEdits`,
`MaxGitCalls`, `MaxRuns`, `MaxReads`, `MaxChanges`, `MaxRequests`,
`MaxSessions`, `MaxVisits`, `MaxClicks`, `MaxBehind`, `MaxLoads`, `MaxProjects`,
`MaxMoves`, `MaxEdits` and `MaxRetries` what their names say. Elsewhere two
requests of each kind are enough for each to fall between any two steps of the
other, and a third is there where a third can profit: the third add of
`OrgExtensions` takes the slug that the first two lost. `rs_two` has a state
constraint, `Telling`: the page's states are not explored further once `astray`
holds in its last run, for `PageSettles` then says nothing any more; and `live`
has `DeletedOrCancelled`: a login with a cancellation gets no delete request, which
the other one gets.
`CHECK_DEADLOCK FALSE` where every request has been answered and nothing is left
to do: a finite number of requests is a bound of the model.

**Fairness.**  `FairSpec`, for `EveryStartEnds`: Node runs ready callbacks, so
every begun start, every task promise and every loop turn is weakly fair.  That
`runner.run()` eventually settles is an assumption about the agent: the code has
no timeout for it.  User actions (start, cancel, retry, skip) and crashes are
not fair.  `StreamFairness`, for `TurnsAndStreamsEnd`, likewise: begun handlers,
meta steps, appends, the finally and the streams go on; that a prompt settles
and a spawn ends is assumed of the agent; requests, updates, timers, deaths and
crashes are not fair.  `ApprovalFairness`: the request's own append ends, and an
armed timer fires, for `setTimeout` does; nobody has to decide.
`LoginFairness`: the driver's timer fires, and a process that got SIGTERM dies;
that anybody posts a code is not assumed.
`RunnersFairness`: a child that was told to end, or whose pipes are to close,
does so, and begun handlers go on; that an agent ends by itself is not assumed.
`FairSpec` of `CompanyRuntime`, for
`cr_pickup`: watchers report, reads end, dispatches settle, and a begun `start()`
or `stop()` goes on; new files, starts, stops, repeated events, ticks and
crashes are not fair.

Runs that are expected to find a violation, each of a statement in the
repository's own words (quoted in `PROJECT.json` under `findings`):

| Run | Statement | What happens |
|---|---|---|
| `rs_dependents` | a task whose dependencies are completed is dispatched | the loop reads the state once; no dependent is started in the same run |
| `tb_stuck` | no session stays recorded as running after a restart | the repair and the first turn's `appendMessage` both read "running"; the turn writes it back and then cannot start |
| `tb_overlap` | `startTurn` throws if a turn is in flight | the check and `running.set` are three awaits apart |
| `cr_pickup` | a file left in a queue is picked up by the next start | it is read before the first poller is in `this.pollers`, queued, and taken by nobody; its path counts as in flight |
| `ts_gap` | the stream is a gap-free tail of the log | of two lines that landed out of order, the lower seq is dropped |

## 5. Proofs

`RunSchedulerProofs` proves, for every graph, slot count, set of requests and
number of restarts satisfying `RunAssumption` (the last two under
`ProjectExtAssumption` and `RunPageAssumption`):

| Theorem | Property | Argument |
|---|---|---|
| `TypeCorrect` | `TypeOK` | inductive |
| `SlotRulesHold` | `SlotRules` | `TypeOK /\ SlotRules` is inductive: a launch happens only when the slot test and the solo tests pass; everything else shrinks `inFlight` |
| `LaunchedOnce` | `LaunchedOncePerRun` | strengthening: a task whose promise exists is `running` in the scheduler's memory from then on, and the memory is never reread, so it is not launchable |
| `CompletionsEarned` | `CompletedIsEarned` | inductive over every copy of the state: files, tmp file, memory and each pending write |
| `DependenciesFirst` | `DependenciesResolvedFirst` | from `CompletionsEarned` for the memory the launch reads |
| `VerdictsHonest` | `VerdictHonest` | strengthening: from the verdict on nothing is in flight, and the history only grows |
| `FailureStops` | `FailureBlocksDownstream` | `AllFine`: every copy of the state, pending and half-written ones included, blocks only what is downstream of a task that failed, and, until an edit has read the state, has no task waiting on a failed or blocked one; `FailSetLemma`: `FailSet` leaves none behind, however its passes go |
| `RunsGated` (`WorkflowOrchestrator`) | `WorkflowIsGated` | `CallsInv`: whatever overlaps, `Deserved` and `WorkOK` hold of `run.json` and of each call's copy of it; while calls come one after another, the files agree between two calls (`RunSettled`, `Mirrored`, `BatchKept`) and, in a call, as far as it has written them (`InCall`) |
| `ListedIsOffered` (`ProjectExtensions`) | `ExtensionsAgree` | `ExtInv`: where a request is and what it needs there (`JobsFit`), and for each slug that was not disturbed what manifest, folder and registry say together while a request is at it (`SlugInv`) |
| `PageCatchesUp` (`RunPage`) | `PageSettles` | `PageInv`: a server at rest has its state on disk (`ServerRests`), and the last read under way will bring that state, all others being late (`Caught`) |

`FailSet` is a recursive function: a pass over the tasks, iterated as long as
there are tasks. Recursion over a bounded number of steps needs no induction
theorem: were the `CHOOSE` of such a function not what its equation says, or a
value of it not as claimed, there would be a least step at which it fails, and
that step contradicts the one before it (`CountUp`, `CountUpDefines` in
`StepwiseRecursion`).  `PassLemma` and `LoopLemma` are two uses of it, one for
what a pass keeps and one for the number of tasks that the passes so far have
left waiting; `Without` of `StepPage`, `EventsSince` and `Pushed` of
`TurnStream` are the others.

`TurnBrokerProofs` proves, for every set of turns and deletions and every number
of updates and crashes satisfying `TurnAssumption`, and (all but the first) when
no two POSTs overlap:

| Theorem | Property | Argument |
|---|---|---|
| `TypeCorrect` | `TypeOK` | inductive, with one lemma for the tables of places |
| `TurnsAreExclusive` | `OneTurnInFlight` | strengthening `Alone`: while a turn is in its handler, `running` is empty and no other turn is in its handler; and `Awaited`: an append that is not an update belongs to a turn that waits for it, so its end moves no other turn |
| `TimersSpareTurns` | `NoTimerDuringTurn` | `TimersKept`: only the cached child is timed, and no timer is armed while a turn has or starts a child |
| `ChildrenAreKnown` | `NoChildLeaks` | `ChildrenKept`: a live child is the cached one, and nothing is cached during a spawn |
| `IdleChildrenAreTimed` | `IdleChildTimed` | `TimerComes`: a cached child has a timer or a turn that will arm one; `MetaKept`: only a deletion makes the meta file go, the one way a turn leaves its child untimed |
| `ChildrenTended` | `ChildrenAreTended` | the conjunction of the three above |
| `EndsAreRecorded` | `EndIsRecorded`, a part of `TurnEndsOnce` | with `Alone`, no other turn writes the meta file while one is over |
| `TurnsEndOnce` | `TurnEndsOnce` | `LogSettled`: a terminal event is in the log or pending only of a turn past the place where it is appended (`EndsTold`), and a pending one keeps its turn waiting (`EndsAwaited`) |

The conjunction `IInv` of the parts about the broker is its inductive invariant;
TLC agrees with each part on the instance of `tb`.

`PageProofs`, for every set of sessions, messages, loads, steps and every number
of visits and clicks satisfying `ChatAssumption` and `StepPageAssumption`:

| Theorem | Property | Argument |
|---|---|---|
| `ChatShown` (`ChatView`) | `ChatIsComplete` | `ChatInv`: the server's store has each message once (`StoredOnce`), the logs and their ends fit the turns (`TurnsPosted`, `TurnsKnown`, `LogsEnd`); a page that keeps track has one of POST, load and stream under way at most, and what that one will bring makes the page equal to the store (`OnTrack`); an end is heard after the turn's last message was stored (`EndIsHeardLate`), so that the load it causes brings that message |
| `SessionsShown` (`StepPage`) | `SessionsAreShown` | `StepPageInv`: what a page, the store of the browser and the answers under way name is of their step (`GoodPages`, `GoodStore`, `KeptBelong`); and while nobody was hasty, nothing failed and no load crossed another request, only the shown page is busy and it is a `CalmPage`: a load is alone on it and its answer is what the server has (`LoadingIsAlone`), else the server has what was created, then what is listed without what was deleted (`ListIsKept`), the open session is listed and remembered (`SessionIsListed`), and a page without one is about to get one (`SessionIsMade`) |
| `TurnsTyped` | `TurnsTypeOK` | the type parts of the invariants of the three, `TurnBroker`'s included, in the composition `MCTurns` (`TurnsAreParts`) |

`Without`, the removal of a session from a list, is what makes `SessionsShown`
hard: `WithoutIsWithout` says which sessions it leaves, `WithoutSparesFirst` that
one put in front meanwhile stays in front, as the page and the server both need.

`CompanyRuntimeProofs` proves, for every company, set of files and number of
starts, events and crashes satisfying `CompanyAssumption`:

| Theorem | Property | Argument |
|---|---|---|
| `TypeCorrect` | `TypeOK` | inductive, with a lemma for what `ProcessNext` leaves behind |
| `TasksAreKept` | `NoTaskLost` | strengthening `RemovedIsLogged`: a dispatch that is about to remove its file has logged the completion (from a table of how a stage may change, `Reached`), and the log only grows |
| `OneAlertEach` | `OneAlertPerDispatch` | strengthening `WatchedIsCalm`: an entry that is not marked belongs to a dispatch without an alert |
| `DispatchesAreExclusive` | `OneDispatchPerRole`, `NoDoubleDispatch` | `IInv`: `DispatchOrdered` relates queues, entries, paths and dispatches between two calls, over the values a call passes on (`Ordered`); `CleanStart`: before the first watcher the maps are empty, so no end of an old dispatch and no late read meets them; `NoneLater`: a runtime yet to start has no dispatches |
| `WorkIsNeverForgotten` | `WorkIsFollowed` | `Followed`: a file whose reading is owed, which waits, or which its role works on is cared for (`Cared`), a role without work has an empty queue once the first poller is open, an entry was tried, what is watched is what is under way (`Accurate`), and before the pollers nothing is; `Balanced`: the started events of a file are its ends, the dispatches under way and the ones a crash cut off |

TLC agrees with `IInv` on the instance of `cr`.

`StoreProofs`, under the assumptions of the nine modules:

| Theorem | Property | Argument |
|---|---|---|
| `CompletionsKept` | `StepsAreKept` | `StepInv`: what a completion is about to write says complete, a stray tmp file that does not has its writer before its rename (`StrayTmpIsHeld`), and a settled completion is alone (`SettledIsAlone`) |
| `ProjectsWhole` | `ProjectsAreWhole` | `ProjectInv`: without overlap one request works at a time (`OneAtATime`), and what there is of a project is what its request has made so far (`MadeSoFar`, `FoundRow`, `NoSecretsLeft`) |
| `DraftsKept` | `DraftsAreKept` | `DraftInv`: who publishes holds the lock of its row (`LockIsHeld`), so versions are published in a chain; `CalmInv`: with one save at a time (`OneSaveEach`), a save that is waited for (`Awaited`) carries what its session had at that revision (`SavesFollowSessions`), and what is being loaded is what is stored (`LoadsAreFresh`), both but for `belated` drafts |
| `FilesKept` | `FilesAreKept` | the three, in the composition `MCStores` |
| `ExtensionsInstalled` | `ExtensionsAreInstalled` | `ExtensionInv`: a row has the slug of its manifest and is the only one (`RowsAreClaimed`), an add has read and reserved what its place says (`AddsFitPlaces`), a removal still to take a directory away is of a slug without a row or a crossed one (`RemovalsCross`), and a clone is in its directory from the rename on (`MovedIsInPlace`) |
| `KeysRouted` | `KeysAreRouted` | `RoutingInv`: profiles name credentials of their owner (`ProfilesAreOwned`), a launch and its token are bound to what it read (`LaunchesAreResolved`, `TokensAreBound`), and who is at the organisation's profile had none (`SharedWereBare`) |
| `CompaniesWhole` | `CompaniesAreWhole` | `ManagerInv`: where a start or stop is and what it has opened or removed so far (`PlacesFit`, `PollersArePast`), and for clients that wait, that one request about a company is under way (`CalmManager`) |
| `OwnersAdminister` | `OwnerStaysAdmin` | `OrgInv`, while there is no `lapse`: who is about to be demoted or removed is not the owner, or was read to be (`LoweredIsNotOwner`), and who is about to become the owner is a member (`HeirIsMember`) |
| `AccessEarned` | `AccessIsEarned` | `AccessInv`: what is listed is listed for the project there is (`ListedIsCurrent`); a request past the look at the project found one (`ProjectWasFound`), and whose membership it read was in, or an admin, at some moment of it (`ReadersWereIn`) |
| `AccountsKept` | `AccountsAreKept` | `AccountInv`: a visit has a row's id from the upsert on (`IdsFitPlaces`), and the row is there (`HeldRowsExist`); past the look at its row it was welcome, and what makes it an admin entitles it (`VisitsAreWitnessed`) |
| `PeopleKept` | `PeopleAreKept` | the three, in the composition `MCStores` |
| `StoresTyped` | `StoresTypeOK` | the type parts of the nine invariants, in the composition `MCStores` (`StoresAreParts`) |

`LiveProofs`, under `ApprovalAssumption`, `LoginAssumption` and, for the last
two, `TurnAssumption`:

| Theorem | Property | Argument |
|---|---|---|
| `GateIsExact` | what `Gate` computes | a lemma about the operator: the first grant that matches decides as any order of the grants would |
| `ApprovalTypeCorrect` | `ApprovalTypeOK` | inductive |
| `RecordsMatchAnswers` | `RecordMatchesAnswer` | `ApprovalInv`: a request has no answer before its stage says so (`AnsweredOnce`), and one that waits is on disk (`RequestOnDisk`), so the second of decision, timer and crash finds nothing to answer |
| `PromiseIsKept` | `ImplementsPromise` | step simulation under the mapping `Outcome`, `Voice`: initial states map to initial states, and each action to a step of `ApprovalPromise` or a stutter, from `ApprovalInv` |
| `CredentialsLeave` | `CredentialsLeaveDisk` | `LoginInv`: the driver has live children only (`ChildIsDriven`), while the CLI may still write the code request waits for it or has failed (`CodeIsAwaited`), and a home with credentials has that request (`HomeIsTended`) |
| `ChildrenGone` | `ChildrenAreGone` | `RunnersInv`: where a run is and how its child fares go together (`RunFitsChild`), a close has its verdict (`ClosesFor`), a verdict its reason (`TaughtRight`), and a plain run that is settled has seen its child close, unless stdin failed |
| `StreamTypes` (`TurnStream`) | `StreamTypeOK`, a part of `LiveTypeOK` | inductive; `SinceType` and `PushedType` say what the two loops over the log return, for logs of any length |
| `LiveTyped` | `LiveTypeOK` | the type parts of the invariants of streams, approvals, logins and runners, in the composition `MCLive` (`LiveIsParts`) |

`ProjectProofs`, under `ContainerAssumption`, `RepositoryAssumption`,
`HistoryAssumption`, `ProjectWorkflowAssumption`:

| Theorem | Property | Argument |
|---|---|---|
| `GrantsStayCurrent` | `ContainersAreCurrent` | `ContainerInv`: a container that is nobody's leftover is of the present start, which will remove it (`ContainerIsOwned`), a dispatch has what this start gives its role (`JobIsCurrent`), and what was checked at the start is what is loaded, or was `edited` (`BootIsChecked`) |
| `RemoteKeepsStep` | `RepositoryKeepsStep` | `RepositoryInv`: as long as no change overlaps another request, a configured remote has its token and a change is alone (`RepoIsSettled`); what a push found is never lost on the way (`PushHolds`), and what is committed is on a remote, on its way, or a failed push's (`CommitsAreBound`) |
| `HistoryIsKept` | `HistoryIsTrue` | `HistoryInv`: an event was written by a dispatch that got there (`EventsFit`), dispatches begin in the order of their runtimes and end after they begin (`StartsInOrder`), the index heard of every event of this runtime that had its turn (`RowsAreWritten`), and an earlier runtime's rows were there at the boot (`OldRowsAreOld`); `PageLemma`: whichever of the tied rows are among the newest, what the loop of the page makes of them is what the query makes of all rows, as far as they reach |
| `WorkflowAgreed` | `WorkflowsAgree` | `ProjectWorkflowInv`: a page, a prompt and a completion that read since the last change have what the files say (`PageFits`, `PromptFits`, `AutoFits`), and a choice that was admitted is of a workflow the page may show (`ChoiceFits`) |
| `OwnedTyped` | `OwnedTypeOK` | the type parts of the invariants of the four and of `CompanyRuntime`, in the composition `MCProject` (`OwnedIsParts`) |

`TurnsAreParts`, `LiveIsParts`, `StoresAreParts` and `OwnedIsParts` say that a
behaviour of a composed run is one of the specification of each of its parts, so
that what is proved of a part is proved of what the run explores.

The assumptions say that the constants are what the code gives them: numbers are
naturals, a token that means "none" is not a name, a table maps requests to what
they ask for.  One says more: `ProjectExtAssumption` has a request name a slug
once.  `project-creation.ts` builds a set, and the page's widget sends what is
missing; the POST handler does not remove duplicates, and with one the record of
a registered extension could end as "failed".  `ProjectWorkflowAssumption` has
the files that agents write lie in directories whose names are no placeholders
(`specs/<feature>` is what a text says, and never the name of a directory), and
`HistoryAssumption` a finite set of queue files.

Proving found what TLC had not:

* a CASE in the model of a member change whose arms overlapped, of which TLC
  took the first (now they exclude each other);
* the retry while a turn is followed (section 4);
* that a page of events has rows of one millisecond in an order of the
  database's choice: `Recent` had taken TLC's;
* that a completion may ask for a step which the workflow no longer has by the
  time it is served, of which `CompleteStep` compared an arbitrary command;
* that "no waiting task is behind a failed one" is false of two runs at a time:
  one of them completes a task whose dependency failed in the other, and
  `propagateBlock`, which follows waiting tasks only, stops there.
  `FailureBlocksDownstream` had said it of the transitive closure and was true
  only in an instance with one run; it now says it of direct dependencies.

What stays with TLC because the provers cannot reach it: liveness under fairness
and ENABLED (`EveryStartEnds`, `TurnsAndStreamsEnd`, `EveryRequestAnswered`,
`ChildrenAreStopped`).  Every invariant and every action property that a
passing run checks is stated by a theorem above.

## 6. Not modelled

`PROJECT.json` lists every component with its status and the reason.

* **Left out of what is modelled.**  Of the implement run: the contents of logs
  and events, the extraction of the task graph by an agent, disk errors, and a
  process that dies between a `writeFile`'s first and last byte.  Of the company
  runtime and of the turns: what section 3 lists as abstracted, and the shared
  tmp file of two meta writes, which `RunScheduler` and `StepProgress` model for
  their own files.  Encryption, texts and layouts everywhere.
* **No state between calls**: readers of YAML and markdown (task graph, agent
  specs, catalogues), the ACP protocol's glue, transports, most pages
  and handlers that call one store function after an access check.
* **One statement or one locked transaction**: bridge subnets, pruning of runner
  sessions.
