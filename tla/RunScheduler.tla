---------------------------- MODULE RunScheduler ----------------------------
(***************************************************************************)
(* The Implement run: src/core/run-scheduler.js executing a task graph,    *)
(* src/core/run-store.js keeping its state in run/current.json, the        *)
(* registry of active schedulers (server/shared/utils/run-manager.ts) and  *)
(* the HTTP handlers that start and cancel a run and retry or skip a task. *)
(*                                                                         *)
(* JavaScript runs to completion between two awaits, so an action is the   *)
(* code between two awaits that touch shared state.  Every writer of       *)
(* current.json reads the file, edits a copy, writes the copy to           *)
(* current.json.tmp (one name for all writers) and renames it: three       *)
(* steps, between which every other activity may run.  A rename that finds *)
(* no tmp file (another writer renamed it) throws ENOENT.  The write of    *)
(* the tmp file is taken as atomic.                                        *)
(***************************************************************************)
EXTENDS Naturals, FiniteSets

CONSTANTS
  NumTasks,     \* the tasks of the graph are their positions in graph.tasks
  DependsOn,    \* task -> the tasks of its dependsOn
  ParallelSafe, \* the tasks marked parallelSafe
  Mentions,     \* task -> the tasks whose id text contains its id ("T1" in "T10")
  MaxParallel,  \* the scheduler's slots
  Starts,       \* the run/start requests; each accepted one is a scheduler
  Cancellable,  \* the starts a user may cancel (bounds the model)
  Edits,        \* the retry and skip requests
  MaxRestarts,  \* how often the server may crash (bounds the model)
  NoRun         \* no scheduler is registered

Task == 1..NumTasks

ASSUME RunAssumption ==
  /\ NumTasks \in Nat
  /\ DependsOn \in [Task -> SUBSET Task]
  /\ ParallelSafe \subseteq Task
  /\ Mentions \in [Task -> SUBSET Task]
  /\ MaxParallel \in Nat \ {0}
  /\ Cancellable \subseteq Starts
  /\ MaxRestarts \in Nat
  /\ NoRun \notin Starts

TaskStatus == {"pending", "ready", "running", "completed", "failed",
               "blocked_by_upstream", "skipped"}
RunStatus == {"absent", "idle", "running", "paused", "completed", "failed"}

(* A task's record: its status and, when it is blocked, the task its       *)
(* lastError names (0 when lastError names none).                          *)
TaskState == [status : TaskStatus, cause : 0..NumTasks]

(* The content of current.json; status "absent" stands for no file.        *)
RunState == [status : RunStatus, task : [Task -> TaskState]]

FreshTasks == [t \in Task |-> [status |-> "pending", cause |-> 0]]
Absent == [status |-> "absent", task |-> FreshTasks]

VARIABLES
  current,   \* run/current.json
  tmp,       \* run/current.json.tmp
  registry,  \* the scheduler registered for the project
  pc,        \* start request -> where its handler, then execute(), stands
  doc,       \* start request -> the copy of the state it is about to save
  mem,       \* scheduler -> the state object execute() keeps in memory
  inFlight,  \* scheduler -> its inFlight map's keys
  abort,     \* scheduler -> its abort flag
  outcome,   \* scheduler -> the finalStatus it computed ("absent" before)
  wpc,       \* scheduler, task -> where the task's promise stands
  wdoc,      \* scheduler, task -> the copy of the state it is about to save
  lpc,       \* scheduler, task -> launchTask's saveCurrent, which nobody awaits
  epc,       \* retry or skip request -> where its handler stands
  edoc,      \* retry or skip request -> the copy of the state it is about to save
  restarts,  \* server crashes so far
  resolved,  \* history: tasks for which some runner.run() resolved
  threw,     \* history: tasks some scheduler recorded as failed
  skipped    \* history: tasks some skip request was applied to

disk  == <<current, tmp>>
run   == <<pc, doc, mem, inFlight, abort, outcome>>
work  == <<wpc, wdoc, lpc>>
edit  == <<epc, edoc>>
hist  == <<resolved, threw, skipped>>
vars  == <<disk, registry, run, work, edit, restarts, hist>>

Ended == {"refused", "done", "error", "lost"}
RunPc == Ended \cup {"idle", "graph", "initRename", "setup",
         "runRead", "runWrite", "runRename", "load", "loop", "wait", "drain",
         "endRead", "endWrite", "endRename"}
WorkPc == {"none", "starting", "prompting", "cancelled", "okWrite", "okRename",
           "saveFailed", "failWrite", "failRename", "ended"}
LaunchSavePc == {"none", "write", "rename"}
EditPc == {"idle", "checked", "write", "rename", "ended"}

TypeOK ==
  /\ current \in RunState
  /\ tmp \in RunState
  /\ registry \in Starts \cup {NoRun}
  /\ pc \in [Starts -> RunPc]
  /\ doc \in [Starts -> RunState]
  /\ mem \in [Starts -> RunState]
  /\ inFlight \in [Starts -> SUBSET Task]
  /\ abort \in [Starts -> BOOLEAN]
  /\ outcome \in [Starts -> RunStatus]
  /\ wpc \in [Starts -> [Task -> WorkPc]]
  /\ wdoc \in [Starts -> [Task -> RunState]]
  /\ lpc \in [Starts -> [Task -> LaunchSavePc]]
  /\ epc \in [Edits -> EditPc]
  /\ edoc \in [Edits -> RunState]
  /\ restarts \in 0..MaxRestarts
  /\ resolved \subseteq Task
  /\ threw \subseteq Task
  /\ skipped \subseteq Task

Init ==
  /\ current = Absent
  /\ tmp = Absent
  /\ registry = NoRun
  /\ pc = [r \in Starts |-> "idle"]
  /\ doc = [r \in Starts |-> Absent]
  /\ mem = [r \in Starts |-> Absent]
  /\ inFlight = [r \in Starts |-> {}]
  /\ abort = [r \in Starts |-> FALSE]
  /\ outcome = [r \in Starts |-> "absent"]
  /\ wpc = [r \in Starts |-> [t \in Task |-> "none"]]
  /\ wdoc = [r \in Starts |-> [t \in Task |-> Absent]]
  /\ lpc = [r \in Starts |-> [t \in Task |-> "none"]]
  /\ epc = [e \in Edits |-> "idle"]
  /\ edoc = [e \in Edits |-> Absent]
  /\ restarts = 0
  /\ resolved = {}
  /\ threw = {}
  /\ skipped = {}

-----------------------------------------------------------------------------
(* RunStore: saveCurrent writes the tmp file, then renames it.             *)

WriteTmp(state) == tmp' = state /\ UNCHANGED current
CanRename == tmp # Absent
RenameTmp == current' = tmp /\ tmp' = Absent

-----------------------------------------------------------------------------
(* RunScheduler's choices                                                  *)

Waiting == {"pending", "ready"}

(* Mutant: a dependency blocks only when it failed.                        *)
LaunchableUnlessFailed(r, t) ==
  /\ t \notin inFlight[r]
  /\ mem[r].task[t].status \in Waiting
  /\ \A d \in DependsOn[t] : mem[r].task[d].status # "failed"
  /\ t \in ParallelSafe \/ inFlight[r] = {}

(* One step of pickLaunchable's scan: may task t start now?                *)
Launchable(r, t) ==
  /\ t \notin inFlight[r]
  /\ mem[r].task[t].status \in Waiting
  /\ \A d \in DependsOn[t] : mem[r].task[d].status = "completed"
  /\ t \in ParallelSafe \/ inFlight[r] = {}

(* Mutant: the solo rule forgotten while the solo task is in flight.       *)
PickLaunchableBesideSolo(r) ==
  IF Cardinality(inFlight[r]) >= MaxParallel THEN {}
  ELSE {t \in Task : /\ Launchable(r, t)
                     /\ \A u \in 1..(t - 1) : ~Launchable(r, u)}

(* What pickLaunchable may return: the first launchable task, if a slot is *)
(* free and no solo task is in flight.                                     *)
PickLaunchable(r) ==
  IF \/ Cardinality(inFlight[r]) >= MaxParallel
     \/ inFlight[r] \ ParallelSafe # {}
  THEN {}
  ELSE {t \in Task : /\ Launchable(r, t)
                     /\ \A u \in 1..(t - 1) : ~Launchable(r, u)}

(* One pass of propagateBlock over graph.tasks, in order.                  *)
BlockPass(fail) ==
  LET seen[k \in 0..NumTasks] ==
        IF k = 0 THEN fail
        ELSE IF DependsOn[k] \cap seen[k - 1] # {}
             THEN seen[k - 1] \cup {k}
             ELSE seen[k - 1]
  IN  seen[NumTasks]

(* Mutant: a single pass.                                                  *)
FailSetOnePass(t, tasks) == BlockPass({t})

(* propagateBlock's loop: another pass only while the last one found a     *)
(* dependent that was still waiting (`changed`).                           *)
FailSet(t, tasks) ==
  LET loop[n \in 0..NumTasks] ==
        IF n = 0 THEN [fail |-> {t}, changed |-> TRUE]
        ELSE LET last == loop[n - 1]
                 next == BlockPass(last.fail)
             IN  IF ~last.changed THEN last
                 ELSE [fail |-> next,
                       changed |-> \E u \in next \ last.fail :
                                     tasks[u].status \in Waiting]
  IN  loop[NumTasks].fail

(* Mutant: a status outside TASK_STATUSES.                                 *)
FailTaskMisspelt(state, t) ==
  [state EXCEPT !.task = [u \in Task |->
     IF u = t THEN [status |-> "failed", cause |-> 0]
     ELSE IF u \in FailSet(t, state.task) THEN [status |-> "blocked", cause |-> t]
     ELSE state.task[u]]]

(* The state with task t failed and its dependents blocked.                *)
FailTask(state, t) ==
  [state EXCEPT !.task = [u \in Task |->
     IF u = t THEN [status |-> "failed", cause |-> 0]
     ELSE IF u \in FailSet(t, state.task) /\ state.task[u].status \in Waiting
          THEN [status |-> "blocked_by_upstream", cause |-> t]
          ELSE state.task[u]]]

(* Mutant: a task still recorded as running counts as done.                *)
FinalStatusRunningDone(r, tasks) ==
  IF abort[r] \/ \E t \in Task : tasks[t].status \in Waiting
  THEN "paused"
  ELSE IF \E t \in Task : tasks[t].status \in {"failed", "blocked_by_upstream"}
       THEN "failed" ELSE "completed"

(* execute()'s verdict on the state it reads when nothing is in flight.    *)
FinalStatus(r, tasks) ==
  IF abort[r] \/ \E t \in Task : tasks[t].status \in Waiting \cup {"running"}
  THEN "paused"
  ELSE IF \E t \in Task : tasks[t].status \in {"failed", "blocked_by_upstream"}
       THEN "failed" ELSE "completed"

-----------------------------------------------------------------------------
(* run/start.post.ts                                                       *)

StartRequest(r) ==
  /\ pc[r] = "idle"
  /\ pc' = [pc EXCEPT ![r] = IF registry = NoRun THEN "graph" ELSE "refused"]
  /\ UNCHANGED <<disk, registry, doc, mem, inFlight, abort, outcome, work, edit,
                 restarts, hist>>

(* getOrBuildTaskGraph answers; initFromGraph writes a state in which      *)
(* every task is pending, whatever the stored one says.                    *)
InitFromGraph(r) ==
  /\ pc[r] = "graph"
  /\ WriteTmp([status |-> "idle", task |-> FreshTasks])
  /\ pc' = [pc EXCEPT ![r] = "initRename"]
  /\ UNCHANGED <<registry, doc, mem, inFlight, abort, outcome, work, edit,
                 restarts, hist>>

(* No tasks.md (400), no agent profile (400): the handler throws; the      *)
(* second one after the stored state was already reset.                    *)
StartFails(r) ==
  /\ pc[r] \in {"graph", "setup"}
  /\ pc' = [pc EXCEPT ![r] = "refused"]
  /\ UNCHANGED <<disk, registry, doc, mem, inFlight, abort, outcome, work, edit,
                 restarts, hist>>

(* registerScheduler, then execute() up to its first await.                *)
Register(r) ==
  /\ pc[r] = "setup"
  /\ registry' = r
  /\ pc' = [pc EXCEPT ![r] = "runRead"]
  /\ UNCHANGED <<disk, doc, mem, inFlight, abort, outcome, work, edit,
                 restarts, hist>>

-----------------------------------------------------------------------------
(* RunScheduler.execute                                                    *)

(* setRunStatus reads the state and merges the new status into it.         *)
ReadRunStatus(r) ==
  /\ pc[r] \in {"runRead", "endRead"}
  /\ doc' = [doc EXCEPT ![r] = [current EXCEPT !.status =
               IF pc[r] = "runRead" THEN "running" ELSE outcome[r]]]
  /\ pc' = [pc EXCEPT ![r] = IF @ = "runRead" THEN "runWrite" ELSE "endWrite"]
  /\ UNCHANGED <<disk, registry, mem, inFlight, abort, outcome, work, edit,
                 restarts, hist>>

WriteRun(r) ==
  /\ pc[r] \in {"runWrite", "endWrite"}
  /\ WriteTmp(doc[r])
  /\ doc' = [doc EXCEPT ![r] = Absent]
  /\ pc' = [pc EXCEPT ![r] = IF @ = "runWrite" THEN "runRename" ELSE "endRename"]
  /\ UNCHANGED <<registry, mem, inFlight, abort, outcome, work, edit,
                 restarts, hist>>

(* The rename of the request's saves: initFromGraph's and setRunStatus's.  *)
(* After the last one the handler deregisters its project's scheduler,     *)
(* whichever instance that is.                                             *)
RenameRun(r) ==
  /\ pc[r] \in {"initRename", "runRename", "endRename"}
  /\ CanRename
  /\ RenameTmp
  /\ pc' = [pc EXCEPT ![r] = CASE @ = "initRename" -> "setup"
                               [] @ = "runRename" -> "load"
                               [] OTHER -> "done"]
  /\ registry' = IF pc[r] = "endRename" THEN NoRun ELSE registry
  /\ UNCHANGED <<doc, mem, inFlight, abort, outcome, work, edit, restarts, hist>>

(* The rename throws: initFromGraph fails the request, setRunStatus        *)
(* rejects execute(), whose caller deregisters.                            *)
RenameRunFails(r) ==
  /\ pc[r] \in {"initRename", "runRename", "endRename"}
  /\ ~CanRename
  /\ pc' = [pc EXCEPT ![r] = IF @ = "initRename" THEN "refused" ELSE "error"]
  /\ registry' = IF pc[r] = "initRename" THEN registry ELSE NoRun
  /\ UNCHANGED <<disk, doc, mem, inFlight, abort, outcome, work, edit,
                 restarts, hist>>

(* The one read of the state the launch loop works on.                     *)
Load(r) ==
  /\ pc[r] = "load"
  /\ mem' = [mem EXCEPT ![r] = current]
  /\ pc' = [pc EXCEPT ![r] = "loop"]
  /\ UNCHANGED <<disk, registry, doc, inFlight, abort, outcome, work, edit,
                 restarts, hist>>

(* Mutant: the in-memory state keeps the task waiting.                     *)
LaunchTaskStillWaiting(r, t) ==
  /\ pc[r] = "loop"
  /\ ~abort[r]
  /\ t \in PickLaunchable(r)
  /\ inFlight' = [inFlight EXCEPT ![r] = @ \cup {t}]
  /\ wpc' = [wpc EXCEPT ![r][t] = "starting"]
  /\ lpc' = [lpc EXCEPT ![r][t] = "write"]
  /\ UNCHANGED <<disk, registry, pc, doc, mem, abort, outcome, wdoc, edit,
                 restarts, hist>>

(* launchTask: the task is running in memory, a save of the in-memory      *)
(* state begins that nobody awaits, and the task's promise starts.         *)
LaunchTask(r, t) ==
  /\ pc[r] = "loop"
  /\ ~abort[r]
  /\ t \in PickLaunchable(r)
  /\ mem' = [mem EXCEPT ![r].task[t].status = "running"]
  /\ inFlight' = [inFlight EXCEPT ![r] = @ \cup {t}]
  /\ wpc' = [wpc EXCEPT ![r][t] = "starting"]
  /\ lpc' = [lpc EXCEPT ![r][t] = "write"]
  /\ UNCHANGED <<disk, registry, pc, doc, abort, outcome, wdoc, edit,
                 restarts, hist>>

(* Mutant: the loop waits although nothing is in flight.                   *)
LoopTurnEndsWaiting(r) ==
  /\ pc[r] = "loop"
  /\ abort[r] \/ PickLaunchable(r) = {}
  /\ pc' = [pc EXCEPT ![r] = IF abort[r] THEN "drain" ELSE "wait"]
  /\ UNCHANGED <<disk, registry, doc, mem, inFlight, abort, outcome, work, edit,
                 restarts, hist>>

(* The loop has nothing (more) to launch: wait for a promise to settle, or *)
(* leave it when aborted or when nothing is in flight.                     *)
LoopTurnEnds(r) ==
  /\ pc[r] = "loop"
  /\ abort[r] \/ PickLaunchable(r) = {}
  /\ pc' = [pc EXCEPT ![r] = IF abort[r] \/ inFlight[r] = {} THEN "drain"
                             ELSE "wait"]
  /\ UNCHANGED <<disk, registry, doc, mem, inFlight, abort, outcome, work, edit,
                 restarts, hist>>

(* Nothing in flight: read the state and decide how the run ended.         *)
Verdict(r) ==
  /\ pc[r] = "drain"
  /\ inFlight[r] = {}
  /\ outcome' = [outcome EXCEPT ![r] = FinalStatus(r, current.task)]
  /\ pc' = [pc EXCEPT ![r] = "endRead"]
  /\ UNCHANGED <<disk, registry, doc, mem, inFlight, abort, work, edit,
                 restarts, hist>>

-----------------------------------------------------------------------------
(* The task's promise                                                      *)

(* AcpRunner.start has a session; the prompt is sent.                      *)
AgentStarts(r, t) ==
  /\ wpc[r][t] = "starting"
  /\ wpc' = [wpc EXCEPT ![r][t] = "prompting"]
  /\ UNCHANGED <<disk, registry, run, wdoc, lpc, edit, restarts, hist>>

(* runner.run() resolves, whatever its stopReason: the task is marked      *)
(* completed in a fresh copy of the state.                                 *)
RunnerResolves(r, t) ==
  /\ wpc[r][t] \in {"prompting", "cancelled"}
  /\ wpc' = [wpc EXCEPT ![r][t] = "okWrite"]
  /\ wdoc' = [wdoc EXCEPT ![r][t] = [current EXCEPT !.task[t].status = "completed"]]
  /\ resolved' = resolved \cup {t}
  /\ UNCHANGED <<disk, registry, run, lpc, edit, restarts, threw, skipped>>

(* Mutant: the catch records the task as completed.                        *)
RunnerRejectsCompleted(r, t) ==
  /\ wpc[r][t] \in {"starting", "prompting", "cancelled", "saveFailed"}
  /\ wpc' = [wpc EXCEPT ![r][t] = "failWrite"]
  /\ wdoc' = [wdoc EXCEPT ![r][t] = [current EXCEPT !.task[t].status = "completed"]]
  /\ threw' = threw \cup {t}
  /\ UNCHANGED <<disk, registry, run, lpc, edit, restarts, resolved, skipped>>

(* runner.run() rejects, or the save of the completed task did: the catch  *)
(* marks the task failed in a fresh copy and blocks its dependents.        *)
RunnerRejects(r, t) ==
  /\ wpc[r][t] \in {"starting", "prompting", "cancelled", "saveFailed"}
  /\ wpc' = [wpc EXCEPT ![r][t] = "failWrite"]
  /\ wdoc' = [wdoc EXCEPT ![r][t] = FailTask(current, t)]
  /\ threw' = threw \cup {t}
  /\ UNCHANGED <<disk, registry, run, lpc, edit, restarts, resolved, skipped>>

WriteTask(r, t) ==
  /\ wpc[r][t] \in {"okWrite", "failWrite"}
  /\ WriteTmp(wdoc[r][t])
  /\ wdoc' = [wdoc EXCEPT ![r][t] = Absent]
  /\ wpc' = [wpc EXCEPT ![r][t] = IF @ = "okWrite" THEN "okRename" ELSE "failRename"]
  /\ UNCHANGED <<registry, run, lpc, edit, restarts, hist>>

(* The task is saved: its finally frees the slot and its promise fulfils,  *)
(* which wakes the launch loop.                                            *)
RenameTask(r, t) ==
  /\ wpc[r][t] \in {"okRename", "failRename"}
  /\ CanRename
  /\ RenameTmp
  /\ wpc' = [wpc EXCEPT ![r][t] = "ended"]
  /\ inFlight' = [inFlight EXCEPT ![r] = @ \ {t}]
  /\ pc' = [pc EXCEPT ![r] = IF @ = "wait" THEN "loop" ELSE @]
  /\ UNCHANGED <<registry, doc, mem, abort, outcome, wdoc, lpc, edit, restarts, hist>>

(* The save of a completed task throws: on to the catch.                   *)
RenameOkFails(r, t) ==
  /\ wpc[r][t] = "okRename"
  /\ ~CanRename
  /\ wpc' = [wpc EXCEPT ![r][t] = "saveFailed"]
  /\ UNCHANGED <<disk, registry, run, wdoc, lpc, edit, restarts, hist>>

(* The save in the catch throws: the promise rejects, and with it          *)
(* execute() when it is racing the promises in flight.                     *)
RenameFailFails(r, t) ==
  /\ wpc[r][t] = "failRename"
  /\ ~CanRename
  /\ wpc' = [wpc EXCEPT ![r][t] = "ended"]
  /\ inFlight' = [inFlight EXCEPT ![r] = @ \ {t}]
  /\ pc' = [pc EXCEPT ![r] = IF @ = "wait" THEN "error" ELSE @]
  /\ registry' = IF pc[r] = "wait" THEN NoRun ELSE registry
  /\ UNCHANGED <<disk, doc, mem, abort, outcome, wdoc, lpc, edit, restarts, hist>>

(* launchTask's own save: the in-memory state as it is when it is          *)
(* serialised; a failed rename is swallowed.                               *)
WriteLaunch(r, t) ==
  /\ lpc[r][t] = "write"
  /\ WriteTmp(mem[r])
  /\ lpc' = [lpc EXCEPT ![r][t] = "rename"]
  /\ UNCHANGED <<registry, run, wpc, wdoc, edit, restarts, hist>>

RenameLaunch(r, t) ==
  /\ lpc[r][t] = "rename"
  /\ IF CanRename THEN RenameTmp ELSE UNCHANGED disk
  /\ lpc' = [lpc EXCEPT ![r][t] = "none"]
  /\ UNCHANGED <<registry, run, wpc, wdoc, edit, restarts, hist>>

-----------------------------------------------------------------------------
(* run/cancel.post.ts and RunScheduler.cancel: AcpRunner.cancel reaches    *)
(* only an agent that has a session.                                       *)
Cancel(r) ==
  /\ r \in Cancellable
  /\ registry = r
  /\ abort' = [abort EXCEPT ![r] = TRUE]
  /\ wpc' = [wpc EXCEPT ![r] = [t \in Task |->
               IF @[t] = "prompting" THEN "cancelled" ELSE @[t]]]
  /\ UNCHANGED <<disk, registry, pc, doc, mem, inFlight, outcome, wdoc, lpc,
                 edit, restarts, hist>>

(* run/tasks/[tid]/retry.post.ts and skip.post.ts: the check ...           *)
EditRequest(e) ==
  /\ epc[e] = "idle"
  /\ epc' = [epc EXCEPT ![e] = IF registry = NoRun THEN "checked" ELSE "ended"]
  /\ UNCHANGED <<disk, registry, run, work, edoc, restarts, hist>>

(* ... the retry: the task is pending again, and so is every blocked task  *)
(* whose lastError contains its id; a finished run is paused ...           *)
RetriedState(state, t) ==
  [status |-> IF state.status \in {"failed", "completed"} THEN "paused"
              ELSE state.status,
   task |-> [u \in Task |->
     IF \/ u = t
        \/ /\ state.task[u].status = "blocked_by_upstream"
           /\ state.task[u].cause \in Mentions[t]
     THEN [status |-> "pending", cause |-> 0]
     ELSE state.task[u]]]

ReadRetry(e, t) ==
  /\ epc[e] = "checked"
  /\ current # Absent
  /\ edoc' = [edoc EXCEPT ![e] = RetriedState(current, t)]
  /\ epc' = [epc EXCEPT ![e] = "write"]
  /\ UNCHANGED <<disk, registry, run, work, restarts, hist>>

(* ... the skip ...                                                        *)
ReadSkip(e, t) ==
  /\ epc[e] = "checked"
  /\ current # Absent
  /\ edoc' = [edoc EXCEPT ![e] =
                [current EXCEPT !.task[t] = [status |-> "skipped", cause |-> 0]]]
  /\ epc' = [epc EXCEPT ![e] = "write"]
  /\ skipped' = skipped \cup {t}
  /\ UNCHANGED <<disk, registry, run, work, restarts, resolved, threw>>

(* ... 404 when there is no run state ...                                  *)
EditNotFound(e) ==
  /\ epc[e] = "checked"
  /\ current = Absent
  /\ epc' = [epc EXCEPT ![e] = "ended"]
  /\ UNCHANGED <<disk, registry, run, work, edoc, restarts, hist>>

(* ... and the save.                                                       *)
WriteEdit(e) ==
  /\ epc[e] = "write"
  /\ WriteTmp(edoc[e])
  /\ edoc' = [edoc EXCEPT ![e] = Absent]
  /\ epc' = [epc EXCEPT ![e] = "rename"]
  /\ UNCHANGED <<registry, run, work, restarts, hist>>

RenameEdit(e) ==
  /\ epc[e] = "rename"
  /\ IF CanRename THEN RenameTmp ELSE UNCHANGED disk
  /\ epc' = [epc EXCEPT ![e] = "ended"]
  /\ UNCHANGED <<registry, run, work, edoc, restarts, hist>>

-----------------------------------------------------------------------------
(* The server process dies and comes back: only the files survive.         *)
Restart ==
  /\ restarts < MaxRestarts
  /\ restarts' = restarts + 1
  /\ registry' = NoRun
  /\ pc' = [r \in Starts |-> IF pc[r] = "idle" THEN "idle"
                             ELSE IF pc[r] \in Ended THEN pc[r] ELSE "lost"]
  /\ doc' = [r \in Starts |-> Absent]
  /\ mem' = [r \in Starts |-> Absent]
  /\ inFlight' = [r \in Starts |-> {}]
  /\ wpc' = [r \in Starts |-> [t \in Task |->
               IF wpc[r][t] = "none" THEN "none" ELSE "ended"]]
  /\ lpc' = [r \in Starts |-> [t \in Task |-> "none"]]
  /\ wdoc' = [r \in Starts |-> [t \in Task |-> Absent]]
  /\ epc' = [e \in Edits |-> IF epc[e] = "idle" THEN "idle" ELSE "ended"]
  /\ edoc' = [e \in Edits |-> Absent]
  /\ UNCHANGED <<disk, abort, outcome, hist>>

-----------------------------------------------------------------------------
StartStep(r) ==
  \/ StartRequest(r) \/ InitFromGraph(r) \/ StartFails(r) \/ Register(r)
  \/ ReadRunStatus(r) \/ WriteRun(r) \/ RenameRun(r) \/ RenameRunFails(r)
  \/ Load(r) \/ Verdict(r)

TaskStep(r, t) ==
  \/ AgentStarts(r, t) \/ RunnerResolves(r, t) \/ RunnerRejects(r, t)
  \/ WriteTask(r, t) \/ RenameTask(r, t)
  \/ RenameOkFails(r, t) \/ RenameFailFails(r, t)

LaunchSaveStep(r, t) == WriteLaunch(r, t) \/ RenameLaunch(r, t)

EditStep(e) ==
  \/ EditRequest(e) \/ EditNotFound(e) \/ WriteEdit(e) \/ RenameEdit(e)
  \/ \E t \in Task : ReadRetry(e, t) \/ ReadSkip(e, t)

LoopStep(r) == LoopTurnEnds(r) \/ \E t \in Task : LaunchTask(r, t)

(* The launch loop is synchronous code: nothing else runs during its turn. *)
InLoop == \E r \in Starts : pc[r] = "loop"

Next ==
  \/ \E r \in Starts : LoopStep(r)
  \/ /\ ~InLoop
     /\ \/ \E r \in Starts : StartStep(r) \/ Cancel(r)
        \/ \E r \in Starts, t \in Task : TaskStep(r, t) \/ LaunchSaveStep(r, t)
        \/ \E e \in Edits : EditStep(e)
        \/ Restart

Spec == Init /\ [][Next]_vars

(* Node keeps running ready callbacks: every accepted start, every task    *)
(* promise and every loop turn goes on.  That runner.run() settles is an   *)
(* assumption about the agent; no user action is fair.                     *)
Fairness ==
  /\ \A r \in Starts :
       /\ WF_vars(LoopStep(r))
       /\ WF_vars(~InLoop /\ pc[r] # "idle" /\ StartStep(r))
  /\ \A r \in Starts, t \in Task : WF_vars(~InLoop /\ TaskStep(r, t))

FairSpec == Spec /\ Fairness
-----------------------------------------------------------------------------
(* Properties                                                              *)

(* The tasks downstream of t: the least set that holds every task with a   *)
(* dependency that is t or in the set.                                     *)
Downstream(t) ==
  {u \in Task : \A S \in SUBSET Task :
     (\A v \in Task : DependsOn[v] \cap (S \cup {t}) # {} => v \in S) => u \in S}

(* A scheduler never has more than maxParallel tasks in flight, and a task *)
(* that is not parallelSafe is in flight alone: the solo mode of           *)
(* pickLaunchable, kept by launches and completions in any order.          *)
SlotRules ==
  \A r \in Starts :
    /\ Cardinality(inFlight[r]) <= MaxParallel
    /\ \A t \in inFlight[r] : t \in ParallelSafe \/ inFlight[r] = {t}

(* One execute() hands a task to an agent at most once, whatever the       *)
(* stale saves, retries and skips make of the task's status on disk.       *)
LaunchedOncePerRun ==
  [][\A r \in Starts : \A t \in inFlight'[r] \ inFlight[r] :
       wpc[r][t] = "none"]_vars

(* A task is handed to an agent only when an agent's run of each of its    *)
(* dependencies has resolved; a skipped dependency does not count          *)
(* (skip.post.ts).                                                         *)
DependenciesResolvedFirst ==
  [][\A r \in Starts : \A t \in inFlight'[r] \ inFlight[r] :
       DependsOn[t] \subseteq resolved]_vars

(* No file, copy in flight or memory ever says completed of a task no      *)
(* agent's run of which has resolved, or skipped of a task no skip request *)
(* named: the state spreads through reads, copies, stale saves and renames *)
(* of another writer's file.                                               *)
Earned(state) ==
  \A t \in Task : /\ state.task[t].status = "completed" => t \in resolved
                  /\ state.task[t].status = "skipped" => t \in skipped
CompletedIsEarned ==
  /\ Earned(current) /\ Earned(tmp)
  /\ \A r \in Starts : Earned(doc[r]) /\ Earned(mem[r])
  /\ \A r \in Starts, t \in Task : Earned(wdoc[r][t])
  /\ \A e \in Edits : Earned(edoc[e])

(* A task recorded as blocked has a recorded cause: a task upstream of it  *)
(* that some scheduler recorded as failed.                                 *)
BlockedByFailure ==
  \A t \in Task : current.task[t].status = "blocked_by_upstream" =>
    /\ current.task[t].cause \in threw
    /\ t \in Downstream(current.task[t].cause)

(* No waiting task has a dependency that the same state records as failed  *)
(* or blocked.                                                             *)
NoneWaitsOnFailure(state) ==
  \A u \in Task : state.task[u].status \in Waiting =>
    \A d \in DependsOn[u] : state.task[d].status \notin {"failed", "blocked_by_upstream"}

(* A failure stops what is downstream of it, in whatever order graph.tasks *)
(* lists the tasks and however stale the state that records it: until a    *)
(* retry or skip reads the state, no file, copy or memory shows a task     *)
(* waiting on a failed or blocked one.  propagateBlock's loop stops after  *)
(* a pass that changed no waiting task, so a task past waiting (completed  *)
(* or skipped, or running in another run's eyes) can hide a waiting one    *)
(* behind it; a blocked one cannot.  And nothing else is blocked.          *)
FailureBlocksDownstream ==
  /\ (\A e \in Edits : epc[e] \in {"idle", "checked"}) =>
       /\ NoneWaitsOnFailure(current) /\ NoneWaitsOnFailure(tmp)
       /\ \A r \in Starts : NoneWaitsOnFailure(doc[r]) /\ NoneWaitsOnFailure(mem[r])
       /\ \A r \in Starts, t \in Task : NoneWaitsOnFailure(wdoc[r][t])
  /\ BlockedByFailure

(* A run that ends has nothing left in flight, and it ends as completed    *)
(* only when each task's agent run resolved or the task was skipped.       *)
VerdictHonest ==
  \A r \in Starts : pc[r] = "done" =>
    /\ inFlight[r] = {}
    /\ outcome[r] = "completed" => resolved \cup skipped = Task

(* Every accepted start ends: refused, done, or with execute() rejected.   *)
EveryStartEnds ==
  \A r \in Starts : (pc[r] # "idle") ~> (pc[r] \in Ended)

-----------------------------------------------------------------------------
(* What the documentation says                                             *)

(* "Topological dispatch: whenever a slot is free, pick the next task      *)
(* whose dependencies are all `completed`" (run-scheduler.js): a run that  *)
(* was not cancelled does not end with a waiting task whose dependencies   *)
(* are all completed.                                                      *)
DependentsDispatched ==
  \A r \in Starts : (pc[r] = "done" /\ ~abort[r]) =>
    \A t \in Task :
      ~ /\ current.task[t].status \in Waiting
        /\ \A d \in DependsOn[t] : current.task[d].status = "completed"
=============================================================================
