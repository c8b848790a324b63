------------------------- MODULE RunSchedulerProofs -------------------------
(* Theorems about RunScheduler, for every task graph, number of slots and  *)
(* number of start, retry and skip requests; about the orchestrator of the *)
(* command line, for every number of calls, tasks and crashes; about the   *)
(* page that follows a run, RunPage, for every number of events, reads and *)
(* tasks; and about ProjectExtensions, for every set of requests.          *)
EXTENDS RunScheduler, WorkflowOrchestrator, RunPage, ProjectExtensions,
        StepwiseRecursion, FiniteSetTheorems, TLAPS

USE RunAssumption

(* What the writers compute from a state is a state.                       *)
LEMMA AbsentType == Absent \in RunState /\ FreshTasks \in [Task -> TaskState]
  BY DEF Absent, FreshTasks, RunState, RunStatus, TaskState, TaskStatus, Task

LEMMA TaskUpdateType ==
  ASSUME NEW state \in RunState, NEW t \in Task, NEW s \in TaskStatus
  PROVE  [state EXCEPT !.task[t].status = s] \in RunState
  BY DEF RunState, TaskState

LEMMA TaskReplaceType ==
  ASSUME NEW state \in RunState, NEW t \in Task, NEW s \in TaskState
  PROVE  [state EXCEPT !.task[t] = s] \in RunState
  BY DEF RunState

LEMMA StatusUpdateType ==
  ASSUME NEW state \in RunState, NEW s \in RunStatus
  PROVE  [state EXCEPT !.status = s] \in RunState
  BY DEF RunState

LEMMA FailTaskType ==
  ASSUME NEW state \in RunState, NEW t \in Task
  PROVE  FailTask(state, t) \in RunState
<1>1. \A u \in Task :
        (IF u = t THEN [status |-> "failed", cause |-> 0]
         ELSE IF u \in FailSet(t, state.task) /\ state.task[u].status \in Waiting
              THEN [status |-> "blocked_by_upstream", cause |-> t]
              ELSE state.task[u]) \in TaskState
  BY DEF RunState, TaskState, TaskStatus, Task
<1>2. QED
  BY <1>1 DEF FailTask, RunState

LEMMA RetriedStateType ==
  ASSUME NEW state \in RunState, NEW t \in Task
  PROVE  RetriedState(state, t) \in RunState
<1>1. \A u \in Task :
        (IF \/ u = t
            \/ /\ state.task[u].status = "blocked_by_upstream"
               /\ state.task[u].cause \in Mentions[t]
         THEN [status |-> "pending", cause |-> 0]
         ELSE state.task[u]) \in TaskState
  BY DEF RunState, TaskState, TaskStatus, Task
<1>2. (IF state.status \in {"failed", "completed"} THEN "paused"
       ELSE state.status) \in RunStatus
  BY DEF RunState, RunStatus
<1>3. QED
  BY <1>1, <1>2 DEF RetriedState, RunState

-----------------------------------------------------------------------------
(* Type correctness                                                        *)

LEMMA StartStepType ==
  ASSUME TypeOK, NEW r \in Starts, StartStep(r)
  PROVE  TypeOK'
<1> USE DEF TypeOK, vars, disk, run, work, edit, hist, WriteTmp, RenameTmp
<1>1. CASE StartRequest(r) \/ StartFails(r) \/ Register(r)
  <2>1. CASE StartRequest(r)
    BY <2>1 DEF StartRequest, RunPc, Ended
  <2>2. CASE StartFails(r)
    BY <2>2 DEF StartFails, RunPc, Ended
  <2>3. CASE Register(r)
    BY <2>3 DEF Register, RunPc, Ended
  <2>4. QED
    BY <1>1, <2>1, <2>2, <2>3
<1>2. CASE InitFromGraph(r)
  <2>1. [status |-> "idle", task |-> FreshTasks] \in RunState
    BY AbsentType DEF RunState, RunStatus
  <2>2. QED
    BY <1>2, <2>1 DEF InitFromGraph, RunPc, Ended
<1>3. CASE ReadRunStatus(r)
  <2>1. [current EXCEPT !.status =
           IF pc[r] = "runRead" THEN "running" ELSE outcome[r]] \in RunState
    BY StatusUpdateType DEF RunStatus
  <2>2. QED
    BY <1>3, <2>1 DEF ReadRunStatus, RunPc, Ended
<1>4. CASE WriteRun(r)
  BY <1>4, AbsentType DEF WriteRun, RunPc, Ended
<1>5. CASE RenameRun(r) \/ RenameRunFails(r)
  BY <1>5, AbsentType DEF RenameRun, RenameRunFails, RunPc, Ended
<1>6. CASE Load(r)
  BY <1>6 DEF Load, RunPc, Ended
<1>7. CASE Verdict(r)
  BY <1>7 DEF Verdict, FinalStatus, RunPc, Ended, RunStatus
<1>8. QED
  BY StartStep(r), <1>1, <1>2, <1>3, <1>4, <1>5, <1>6, <1>7 DEF StartStep

LEMMA LoopStepType ==
  ASSUME TypeOK, NEW r \in Starts, LoopStep(r)
  PROVE  TypeOK'
<1> USE DEF TypeOK, vars, disk, run, work, edit, hist
<1>1. CASE LoopTurnEnds(r)
  BY <1>1 DEF LoopTurnEnds, RunPc, Ended
<1>2. ASSUME NEW t \in Task, LaunchTask(r, t)
      PROVE  TypeOK'
  <2>1. mem[r] \in RunState
    OBVIOUS
  <2>2. [mem[r] EXCEPT !.task[t].status = "running"] \in RunState
    BY <2>1, TaskUpdateType DEF TaskStatus
  <2>3. mem' = [mem EXCEPT ![r] = [mem[r] EXCEPT !.task[t].status = "running"]]
    BY <1>2 DEF LaunchTask
  <2>4. mem' \in [Starts -> RunState]
    BY <2>2, <2>3
  <2>5. QED
    BY <1>2, <2>4 DEF LaunchTask, WorkPc, LaunchSavePc
<1>3. QED
  BY LoopStep(r), <1>1, <1>2 DEF LoopStep

LEMMA TaskStepType ==
  ASSUME TypeOK, NEW r \in Starts, NEW t \in Task, TaskStep(r, t)
  PROVE  TypeOK'
<1> USE DEF TypeOK, vars, disk, run, work, edit, hist, WriteTmp, RenameTmp
<1>1. CASE AgentStarts(r, t)
  BY <1>1 DEF AgentStarts, WorkPc
<1>2. CASE RunnerResolves(r, t)
  <2>1. [current EXCEPT !.task[t].status = "completed"] \in RunState
    BY TaskUpdateType DEF TaskStatus
  <2>2. QED
    BY <1>2, <2>1 DEF RunnerResolves, WorkPc
<1>3. CASE RunnerRejects(r, t)
  BY <1>3, FailTaskType DEF RunnerRejects, WorkPc
<1>4. CASE WriteTask(r, t)
  BY <1>4, AbsentType DEF WriteTask, WorkPc
<1>5. CASE RenameTask(r, t)
  BY <1>5, AbsentType DEF RenameTask, WorkPc, RunPc, Ended
<1>6. CASE RenameOkFails(r, t)
  BY <1>6 DEF RenameOkFails, WorkPc
<1>7. CASE RenameFailFails(r, t)
  BY <1>7 DEF RenameFailFails, WorkPc, RunPc, Ended
<1>8. QED
  BY TaskStep(r, t), <1>1, <1>2, <1>3, <1>4, <1>5, <1>6, <1>7 DEF TaskStep

LEMMA LaunchSaveStepType ==
  ASSUME TypeOK, NEW r \in Starts, NEW t \in Task, LaunchSaveStep(r, t)
  PROVE  TypeOK'
<1> USE DEF TypeOK, disk, run, work, edit, hist, WriteTmp, RenameTmp, LaunchSavePc
<1>1. CASE WriteLaunch(r, t)
  BY <1>1 DEF WriteLaunch
<1>2. CASE RenameLaunch(r, t)
  <2>1. current' \in RunState /\ tmp' \in RunState
    BY <1>2, AbsentType DEF RenameLaunch
  <2>2. QED
    BY <1>2, <2>1 DEF RenameLaunch
<1>3. QED
  BY LaunchSaveStep(r, t), <1>1, <1>2 DEF LaunchSaveStep

LEMMA CancelType ==
  ASSUME TypeOK, NEW r \in Starts, Cancel(r)
  PROVE  TypeOK'
<1> USE DEF TypeOK, disk, run, work, edit, hist, Cancel
<1>1. [t \in Task |-> IF wpc[r][t] = "prompting" THEN "cancelled" ELSE wpc[r][t]]
        \in [Task -> WorkPc]
  BY DEF WorkPc
<1>2. wpc' = [wpc EXCEPT ![r] =
        [t \in Task |-> IF wpc[r][t] = "prompting" THEN "cancelled" ELSE wpc[r][t]]]
  BY Cancel(r)
<1>3. wpc' \in [Starts -> [Task -> WorkPc]]
  BY <1>1, <1>2
<1>4. QED
  BY <1>3

LEMMA EditStepType ==
  ASSUME TypeOK, NEW e \in Edits, EditStep(e)
  PROVE  TypeOK'
<1> USE DEF TypeOK, vars, disk, run, work, edit, hist, WriteTmp, RenameTmp, EditPc
<1>1. CASE EditRequest(e) \/ EditNotFound(e)
  BY <1>1 DEF EditRequest, EditNotFound
<1>2. ASSUME NEW t \in Task, ReadRetry(e, t)
      PROVE  TypeOK'
  BY <1>2, RetriedStateType DEF ReadRetry
<1>3. ASSUME NEW t \in Task, ReadSkip(e, t)
      PROVE  TypeOK'
  <2>1. [status |-> "skipped", cause |-> 0] \in TaskState
    BY DEF TaskState, TaskStatus
  <2>2. [current EXCEPT !.task[t] = [status |-> "skipped", cause |-> 0]] \in RunState
    BY <2>1, TaskReplaceType
  <2>3. QED
    BY <1>3, <2>2 DEF ReadSkip
<1>4. CASE WriteEdit(e)
  BY <1>4, AbsentType DEF WriteEdit
<1>5. CASE RenameEdit(e)
  BY <1>5, AbsentType DEF RenameEdit
<1>6. QED
  BY EditStep(e), <1>1, <1>2, <1>3, <1>4, <1>5 DEF EditStep

LEMMA RestartType ==
  ASSUME TypeOK, Restart
  PROVE  TypeOK'
<1>1. /\ pc' \in [Starts -> RunPc]
      /\ wpc' \in [Starts -> [Task -> WorkPc]]
      /\ epc' \in [Edits -> EditPc]
  BY DEF TypeOK, Restart, RunPc, Ended, WorkPc, EditPc
<1>2. QED
  BY <1>1, AbsentType DEF TypeOK, Restart, disk, hist, LaunchSavePc

(* Every variable keeps its type: in particular every file, copy and       *)
(* memory of the run state stays a well-formed state.                      *)
THEOREM TypeCorrect == Spec => []TypeOK
<1>1. Init => TypeOK
  BY AbsentType DEF Init, TypeOK, RunPc, Ended, WorkPc, EditPc, LaunchSavePc, RunStatus
<1>2. TypeOK /\ [Next]_vars => TypeOK'
  <2> SUFFICES ASSUME TypeOK, [Next]_vars
               PROVE  TypeOK'
    OBVIOUS
  <2>1. CASE UNCHANGED vars
    BY <2>1 DEF TypeOK, vars, disk, run, work, edit, hist
  <2>2. CASE Next
    BY <2>2, StartStepType, LoopStepType, TaskStepType, LaunchSaveStepType,
       CancelType, EditStepType, RestartType DEF Next
  <2>3. QED
    BY <2>1, <2>2
<1>3. QED
  BY <1>1, <1>2, PTL DEF Spec
-----------------------------------------------------------------------------
(* The slots                                                               *)

(* Only a launch adds to a scheduler's tasks in flight.                    *)
LEMMA InFlightStep ==
  ASSUME TypeOK, [Next]_vars, NEW q \in Starts
  PROVE  \/ inFlight'[q] \subseteq inFlight[q]
         \/ \E t \in Task : LaunchTask(q, t)
<1> USE DEF TypeOK, vars, run
<1>1. CASE UNCHANGED vars
  BY <1>1
<1>2. ASSUME NEW r \in Starts, LoopTurnEnds(r)
      PROVE  inFlight'[q] \subseteq inFlight[q]
  BY <1>2 DEF LoopTurnEnds
<1>3. ASSUME NEW r \in Starts, NEW t \in Task, LaunchTask(r, t), r # q
      PROVE  inFlight'[q] \subseteq inFlight[q]
  BY <1>3 DEF LaunchTask
<1>4. ASSUME NEW r \in Starts, StartStep(r) \/ Cancel(r)
      PROVE  inFlight'[q] \subseteq inFlight[q]
  BY <1>4
  DEF StartStep, StartRequest, InitFromGraph, StartFails, Register, ReadRunStatus,
      WriteRun, RenameRun, RenameRunFails, Load, Verdict, Cancel
<1>5. ASSUME NEW r \in Starts, NEW t \in Task, TaskStep(r, t) \/ LaunchSaveStep(r, t)
      PROVE  inFlight'[q] \subseteq inFlight[q]
  <2>1. CASE RenameTask(r, t) \/ RenameFailFails(r, t)
    <3>1. inFlight' = [inFlight EXCEPT ![r] = @ \ {t}]
      BY <2>1 DEF RenameTask, RenameFailFails
    <3>2. QED
      BY <3>1
  <2>2. CASE ~(RenameTask(r, t) \/ RenameFailFails(r, t))
    BY <1>5, <2>2
    DEF TaskStep, AgentStarts, RunnerResolves, RunnerRejects, WriteTask,
        RenameOkFails, LaunchSaveStep, WriteLaunch, RenameLaunch
  <2>3. QED
    BY <2>1, <2>2
<1>6. ASSUME NEW e \in Edits, EditStep(e)
      PROVE  inFlight'[q] \subseteq inFlight[q]
  BY <1>6
  DEF EditStep, EditRequest, ReadRetry, ReadSkip, EditNotFound, WriteEdit, RenameEdit
<1>7. CASE Restart
  BY <1>7 DEF Restart
<1>8. ASSUME NEW r \in Starts, LoopStep(r)
      PROVE  inFlight'[q] \subseteq inFlight[q] \/ \E t \in Task : LaunchTask(q, t)
  <2> HIDE DEF TypeOK, vars, run
  <2>1. CASE LoopTurnEnds(r)
    BY <1>2, <2>1
  <2>2. ASSUME NEW t \in Task, LaunchTask(r, t)
        PROVE  inFlight'[q] \subseteq inFlight[q] \/ \E u \in Task : LaunchTask(q, u)
    <3>1. CASE r = q
      BY <2>2, <3>1
    <3>2. CASE r # q
      BY <1>3, <2>2, <3>2
    <3>3. QED
      BY <3>1, <3>2
  <2>3. QED
    BY <1>8, <2>1, <2>2 DEF LoopStep
<1>9. QED
  <2> HIDE DEF TypeOK, vars, run
  <2>1. QED
    BY <1>1, <1>4, <1>5, <1>6, <1>7, <1>8 DEF Next

LEMMA InFlightFinite ==
  ASSUME TypeOK, NEW r \in Starts
  PROVE  IsFiniteSet(inFlight[r])
BY FS_Interval, FS_Subset DEF TypeOK, Task

(* The slot rules hold of every scheduler, however its launches interleave *)
(* with the ends of its tasks, cancellations and other schedulers.         *)
THEOREM SlotRulesHold == Spec => []SlotRules
<1>1. Init => SlotRules
  BY FS_EmptySet DEF Init, SlotRules
<1>2. TypeOK /\ SlotRules /\ [Next]_vars => SlotRules'
  <2> SUFFICES ASSUME TypeOK, SlotRules, [Next]_vars, NEW q \in Starts
               PROVE  /\ Cardinality(inFlight'[q]) <= MaxParallel
                      /\ \A t \in inFlight'[q] : t \in ParallelSafe \/ inFlight'[q] = {t}
    BY DEF SlotRules
  <2>1. /\ Cardinality(inFlight[q]) \in Nat
        /\ Cardinality(inFlight[q]) <= MaxParallel
        /\ \A t \in inFlight[q] : t \in ParallelSafe \/ inFlight[q] = {t}
    BY InFlightFinite, FS_CardinalityType DEF SlotRules
  <2>2. CASE inFlight'[q] \subseteq inFlight[q]
    <3>1. Cardinality(inFlight'[q]) \in Nat
          /\ Cardinality(inFlight'[q]) <= Cardinality(inFlight[q])
      BY <2>2, InFlightFinite, FS_Subset, FS_CardinalityType
    <3>2. QED
      BY <2>1, <2>2, <3>1
  <2>3. ASSUME NEW t \in Task, LaunchTask(q, t)
        PROVE  /\ Cardinality(inFlight'[q]) <= MaxParallel
               /\ \A u \in inFlight'[q] : u \in ParallelSafe \/ inFlight'[q] = {u}
    <3>1. inFlight'[q] = inFlight[q] \cup {t}
      BY <2>3 DEF LaunchTask, TypeOK
    <3>2. /\ ~ Cardinality(inFlight[q]) >= MaxParallel
          /\ inFlight[q] \ ParallelSafe = {}
          /\ Launchable(q, t)
      BY <2>3 DEF LaunchTask, PickLaunchable
    <3>3. t \notin inFlight[q] /\ (t \in ParallelSafe \/ inFlight[q] = {})
      BY <3>2 DEF Launchable
    <3>4. Cardinality(inFlight[q] \cup {t}) = Cardinality(inFlight[q]) + 1
      BY <3>3, InFlightFinite, FS_AddElement
    <3>5. QED
      BY <2>1, <3>1, <3>2, <3>3, <3>4
  <2>4. QED
    BY <2>2, <2>3, InFlightStep
<1>3. QED
  BY <1>1, <1>2, TypeCorrect, PTL DEF Spec

-----------------------------------------------------------------------------
(* A task is launched once per run                                         *)

(* Once a task's promise exists, the launch loop has begun, and as long as *)
(* it goes on the in-memory state keeps the task running: nothing but      *)
(* launchTask writes to it.                                                *)
StaysRunning ==
  \A r \in Starts, t \in Task : wpc[r][t] # "none" =>
    /\ pc[r] \in Ended \cup {"loop", "wait", "drain", "endRead", "endWrite", "endRename"}
    /\ pc[r] \in {"loop", "wait"} => mem[r].task[t].status = "running"

LEMMA StaysRunningStep ==
  ASSUME TypeOK, StaysRunning, [Next]_vars
  PROVE  StaysRunning'
<1> USE DEF TypeOK, StaysRunning, vars, run, work, Ended
<1>1. CASE UNCHANGED vars
  BY <1>1
<1>2. ASSUME NEW r \in Starts, LoopTurnEnds(r)
      PROVE  StaysRunning'
  BY <1>2 DEF LoopTurnEnds
<1>3. ASSUME NEW r \in Starts, NEW t \in Task, LaunchTask(r, t)
      PROVE  StaysRunning'
  <2>1. mem[r] \in RunState
    OBVIOUS
  <2>2. /\ mem'[r].task[t].status = "running"
        /\ \A u \in Task \ {t} : mem'[r].task[u] = mem[r].task[u]
        /\ \A q \in Starts \ {r} : mem'[q] = mem[q]
    BY <1>3, <2>1 DEF LaunchTask, RunState, TaskState
  <2>3. /\ \A u \in Task \ {t} : wpc'[r][u] = wpc[r][u]
        /\ \A q \in Starts \ {r} : wpc'[q] = wpc[q]
        /\ pc' = pc /\ pc[r] = "loop"
    BY <1>3 DEF LaunchTask
  <2>4. ASSUME NEW q \in Starts, NEW u \in Task, wpc'[q][u] # "none"
        PROVE  /\ pc'[q] \in Ended \cup {"loop", "wait", "drain", "endRead",
                                           "endWrite", "endRename"}
               /\ pc'[q] \in {"loop", "wait"} => mem'[q].task[u].status = "running"
    <3>1. CASE q = r /\ u = t
      BY <2>2, <2>3, <3>1
    <3>2. CASE ~(q = r /\ u = t)
      BY <2>2, <2>3, <2>4, <3>2
    <3>3. QED
      BY <3>1, <3>2
  <2>5. QED
    BY <2>4
<1>4. ASSUME NEW r \in Starts, StartStep(r)
      PROVE  StaysRunning'
  BY <1>4
  DEF StartStep, StartRequest, InitFromGraph, StartFails, Register, ReadRunStatus,
      WriteRun, RenameRun, RenameRunFails, Load, Verdict
<1>5. ASSUME NEW r \in Starts, Cancel(r)
      PROVE  StaysRunning'
  BY <1>5 DEF Cancel
<1>6. ASSUME NEW r \in Starts, NEW t \in Task, TaskStep(r, t)
      PROVE  StaysRunning'
  <2>1. /\ mem' = mem
        /\ wpc[r][t] # "none"
        /\ \E next \in WorkPc : wpc' = [wpc EXCEPT ![r][t] = next]
    BY <1>6
    DEF TaskStep, AgentStarts, RunnerResolves, RunnerRejects, WriteTask, RenameTask,
        RenameOkFails, RenameFailFails, WorkPc
  <2>2. \A q \in Starts : pc'[q] = pc[q] \/ (pc[q] = "wait" /\ pc'[q] \in {"loop", "error"})
    BY <1>6
    DEF TaskStep, AgentStarts, RunnerResolves, RunnerRejects, WriteTask, RenameTask,
        RenameOkFails, RenameFailFails
  <2>3. QED
    BY <2>1, <2>2
<1>7. ASSUME NEW r \in Starts, NEW t \in Task, LaunchSaveStep(r, t)
      PROVE  StaysRunning'
  BY <1>7 DEF LaunchSaveStep, WriteLaunch, RenameLaunch
<1>8. ASSUME NEW e \in Edits, EditStep(e)
      PROVE  StaysRunning'
  BY <1>8
  DEF EditStep, EditRequest, ReadRetry, ReadSkip, EditNotFound, WriteEdit, RenameEdit
<1>9. CASE Restart
  BY <1>9 DEF Restart
<1>10. QED
  BY <1>1, <1>2, <1>3, <1>4, <1>5, <1>6, <1>7, <1>8, <1>9 DEF Next, LoopStep

(* One execute() launches a task at most once, whatever happens on disk.   *)
THEOREM LaunchedOnce == Spec => LaunchedOncePerRun
<1>1. Init => StaysRunning
  BY DEF Init, StaysRunning
<1>2. TypeOK /\ StaysRunning /\ [Next]_vars => StaysRunning'
  BY StaysRunningStep
<1>3. TypeOK /\ StaysRunning /\ [Next]_vars =>
        [\A r \in Starts : \A t \in inFlight'[r] \ inFlight[r] : wpc[r][t] = "none"]_vars
  <2> SUFFICES ASSUME TypeOK, StaysRunning, [Next]_vars,
                      NEW r \in Starts, NEW t \in inFlight'[r] \ inFlight[r]
               PROVE  wpc[r][t] = "none"
    OBVIOUS
  <2>1. PICK u \in Task : LaunchTask(r, u)
    BY InFlightStep
  <2>2. u = t
    BY <2>1 DEF LaunchTask, TypeOK
  <2>3. pc[r] = "loop" /\ mem[r].task[t].status \in Waiting
    BY <2>1, <2>2 DEF LaunchTask, PickLaunchable, Launchable
  <2>4. QED
    BY <2>2, <2>3 DEF StaysRunning, Waiting
<1>4. QED
  BY <1>1, <1>2, <1>3, TypeCorrect, PTL DEF Spec, LaunchedOncePerRun
-----------------------------------------------------------------------------
(* A completed task was run by an agent, a skipped one was skipped         *)

LEMMA FailTaskEarned ==
  ASSUME NEW state \in RunState, NEW t \in Task, Earned(state)
  PROVE  Earned(FailTask(state, t))
BY DEF Earned, FailTask, RunState

LEMMA RetriedStateEarned ==
  ASSUME NEW state \in RunState, NEW t \in Task, Earned(state)
  PROVE  Earned(RetriedState(state, t))
BY DEF Earned, RetriedState, RunState

LEMMA AbsentEarned == Earned(Absent)
BY DEF Earned, Absent, FreshTasks

LEMMA EarnedStartStep ==
  ASSUME TypeOK, CompletedIsEarned, NEW r \in Starts,
         StartStep(r) \/ Cancel(r) \/ LoopStep(r)
  PROVE  CompletedIsEarned'
<1> USE DEF TypeOK, CompletedIsEarned, Earned, disk, run, work, edit, hist,
            WriteTmp, RenameTmp
<1>1. CASE \/ StartRequest(r) \/ StartFails(r) \/ Register(r) \/ RenameRunFails(r)
           \/ Verdict(r) \/ Cancel(r) \/ LoopTurnEnds(r)
  BY <1>1 DEF StartRequest, StartFails, Register, RenameRunFails, Verdict, Cancel,
              LoopTurnEnds
<1>2. CASE InitFromGraph(r)
  BY <1>2 DEF InitFromGraph, FreshTasks
<1>3. CASE ReadRunStatus(r)
  <2>1. \E s \in RunStatus : doc' = [doc EXCEPT ![r] = [current EXCEPT !.status = s]]
    BY <1>3 DEF ReadRunStatus, RunStatus
  <2>2. QED
    BY <1>3, <2>1 DEF ReadRunStatus, RunState
<1>4. CASE WriteRun(r)
  BY <1>4, AbsentEarned DEF WriteRun
<1>5. CASE RenameRun(r)
  BY <1>5, AbsentEarned DEF RenameRun
<1>6. CASE Load(r)
  BY <1>6 DEF Load
<1>7. ASSUME NEW t \in Task, LaunchTask(r, t)
      PROVE  CompletedIsEarned'
  <2>1. mem[r] \in RunState
    OBVIOUS
  <2>2. mem'[r] = [mem[r] EXCEPT !.task[t].status = "running"]
    BY <1>7 DEF LaunchTask
  <2>3. \A u \in Task : \/ mem'[r].task[u] = mem[r].task[u]
                        \/ mem'[r].task[u].status = "running"
    BY <2>1, <2>2 DEF RunState, TaskState
  <2>4. \A u \in Task : /\ mem'[r].task[u].status = "completed" => u \in resolved
                        /\ mem'[r].task[u].status = "skipped" => u \in skipped
    BY <2>3
  <2>5. QED
    BY <1>7, <2>4 DEF LaunchTask
<1>8. QED
  BY StartStep(r) \/ Cancel(r) \/ LoopStep(r),
     <1>1, <1>2, <1>3, <1>4, <1>5, <1>6, <1>7 DEF StartStep, LoopStep

LEMMA EarnedTaskStep ==
  ASSUME TypeOK, CompletedIsEarned, NEW r \in Starts, NEW t \in Task,
         TaskStep(r, t) \/ LaunchSaveStep(r, t)
  PROVE  CompletedIsEarned'
<1> USE DEF TypeOK, CompletedIsEarned, disk, run, work, edit, hist, WriteTmp, RenameTmp
<1>1. CASE AgentStarts(r, t) \/ RenameOkFails(r, t) \/ RenameFailFails(r, t)
  BY <1>1 DEF AgentStarts, RenameOkFails, RenameFailFails, Earned
<1>2. CASE RunnerResolves(r, t)
  <2> DEFINE new == [current EXCEPT !.task[t].status = "completed"]
  <2>0. resolved' = resolved \cup {t}
    BY <1>2 DEF RunnerResolves
  <2>1. \A u \in Task : /\ new.task[u].status = "completed" => u \in resolved'
                        /\ new.task[u].status = "skipped" => u \in skipped
    <3>1. current \in RunState /\ Earned(current)
      OBVIOUS
    <3>2. \A u \in Task \ {t} : new.task[u] = current.task[u]
      BY <3>1 DEF RunState
    <3>3. new.task[t].status = "completed"
      BY <3>1 DEF RunState, TaskState
    <3>4. QED
      BY <2>0, <3>1, <3>2, <3>3 DEF Earned
  <2>2. /\ wdoc' = [wdoc EXCEPT ![r][t] = new]
        /\ UNCHANGED <<current, tmp, doc, mem, edoc, skipped>>
    BY <1>2 DEF RunnerResolves
  <2> HIDE DEF new
  <2>3. \A q \in Starts, u \in Task : wdoc'[q][u] \in {wdoc[q][u], new}
    BY <2>2
  <2>4. QED
    BY <2>0, <2>1, <2>2, <2>3 DEF Earned
<1>3. CASE RunnerRejects(r, t)
  <2>1. Earned(FailTask(current, t))
    BY FailTaskEarned
  <2>2. QED
    BY <1>3, <2>1 DEF RunnerRejects, Earned
<1>4. CASE WriteTask(r, t)
  BY <1>4, AbsentEarned DEF WriteTask, Earned
<1>5. CASE RenameTask(r, t)
  BY <1>5, AbsentEarned DEF RenameTask, Earned
<1>6. CASE WriteLaunch(r, t)
  BY <1>6 DEF WriteLaunch, Earned
<1>7. CASE RenameLaunch(r, t)
  BY <1>7, AbsentEarned DEF RenameLaunch, Earned
<1>8. QED
  BY TaskStep(r, t) \/ LaunchSaveStep(r, t),
     <1>1, <1>2, <1>3, <1>4, <1>5, <1>6, <1>7 DEF TaskStep, LaunchSaveStep

LEMMA EarnedEditStep ==
  ASSUME TypeOK, CompletedIsEarned, NEW e \in Edits, EditStep(e)
  PROVE  CompletedIsEarned'
<1> USE DEF TypeOK, CompletedIsEarned, disk, run, work, edit, hist, WriteTmp, RenameTmp
<1>1. CASE EditRequest(e) \/ EditNotFound(e)
  BY <1>1 DEF EditRequest, EditNotFound, Earned
<1>2. ASSUME NEW t \in Task, ReadRetry(e, t)
      PROVE  CompletedIsEarned'
  <2>1. Earned(RetriedState(current, t))
    BY RetriedStateEarned
  <2>2. QED
    BY <1>2, <2>1 DEF ReadRetry, Earned
<1>3. ASSUME NEW t \in Task, ReadSkip(e, t)
      PROVE  CompletedIsEarned'
  <2> DEFINE new == [current EXCEPT !.task[t] = [status |-> "skipped", cause |-> 0]]
  <2>1. \A u \in Task : /\ new.task[u].status = "completed" => u \in resolved
                        /\ new.task[u].status = "skipped" => u \in skipped'
    BY <1>3 DEF ReadSkip, Earned, RunState
  <2>2. QED
    BY <1>3, <2>1 DEF ReadSkip, Earned
<1>4. CASE WriteEdit(e)
  BY <1>4, AbsentEarned DEF WriteEdit, Earned
<1>5. CASE RenameEdit(e)
  BY <1>5, AbsentEarned DEF RenameEdit, Earned
<1>6. QED
  BY EditStep(e), <1>1, <1>2, <1>3, <1>4, <1>5 DEF EditStep

LEMMA EarnedStep == TypeOK /\ CompletedIsEarned /\ [Next]_vars => CompletedIsEarned'
<1> SUFFICES ASSUME TypeOK, CompletedIsEarned, [Next]_vars
             PROVE  CompletedIsEarned'
  OBVIOUS
<1>1. CASE UNCHANGED vars
  BY <1>1 DEF CompletedIsEarned, Earned, vars, disk, run, work, edit, hist
<1>2. CASE Restart
  BY <1>2, AbsentEarned DEF Restart, CompletedIsEarned, Earned, disk, hist
<1>3. QED
  BY <1>1, <1>2, EarnedStartStep, EarnedTaskStep, EarnedEditStep DEF Next

(* No file, copy or memory records a completion that no agent's run earned *)
(* or a skip that no request asked for.                                    *)
THEOREM CompletionsEarned == Spec => []CompletedIsEarned
<1>1. Init => CompletedIsEarned
  BY AbsentEarned DEF Init, CompletedIsEarned
<1>2. QED
  BY <1>1, EarnedStep, TypeCorrect, PTL DEF Spec

(* A task reaches an agent only after its dependencies' agents resolved.   *)
THEOREM DependenciesFirst == Spec => DependenciesResolvedFirst
<1>1. TypeOK /\ CompletedIsEarned /\ [Next]_vars =>
        [\A r \in Starts : \A t \in inFlight'[r] \ inFlight[r] :
           DependsOn[t] \subseteq resolved]_vars
  <2> SUFFICES ASSUME TypeOK, CompletedIsEarned, [Next]_vars,
                      NEW r \in Starts, NEW t \in inFlight'[r] \ inFlight[r]
               PROVE  DependsOn[t] \subseteq resolved
    OBVIOUS
  <2>1. PICK u \in Task : LaunchTask(r, u)
    BY InFlightStep
  <2>2. u = t
    BY <2>1 DEF LaunchTask, TypeOK
  <2>3. \A d \in DependsOn[t] : mem[r].task[d].status = "completed"
    BY <2>1, <2>2 DEF LaunchTask, PickLaunchable, Launchable
  <2>4. QED
    BY <2>1, <2>2, <2>3 DEF CompletedIsEarned, Earned
<1>2. QED
  BY <1>1, CompletionsEarned, TypeCorrect, PTL DEF Spec, DependenciesResolvedFirst
-----------------------------------------------------------------------------
(* The verdict                                                             *)

(* From the verdict on, nothing is in flight and a completed verdict was   *)
(* read off a state whose completions and skips are earned.                *)
VerdictKept ==
  \A r \in Starts : pc[r] \in {"endRead", "endWrite", "endRename", "done"} =>
    /\ inFlight[r] = {}
    /\ outcome[r] = "completed" => resolved \cup skipped = Task

LEMMA VerdictStep ==
  ASSUME TypeOK, CompletedIsEarned, VerdictKept, [Next]_vars
  PROVE  VerdictKept'
<1> USE DEF TypeOK, VerdictKept, vars, run, hist
<1>1. CASE UNCHANGED vars
  BY <1>1
<1>2. ASSUME NEW r \in Starts, LoopStep(r)
      PROVE  VerdictKept'
  <2>1. CASE LoopTurnEnds(r)
    BY <2>1 DEF LoopTurnEnds
  <2>2. ASSUME NEW t \in Task, LaunchTask(r, t)
        PROVE  VerdictKept'
    BY <2>2 DEF LaunchTask
  <2>3. QED
    BY <1>2, <2>1, <2>2 DEF LoopStep
<1>3. ASSUME NEW r \in Starts, StartStep(r), ~Verdict(r)
      PROVE  VerdictKept'
  <2>1. CASE StartRequest(r) \/ InitFromGraph(r) \/ StartFails(r)
    BY <2>1 DEF StartRequest, InitFromGraph, StartFails
  <2>2. CASE Register(r) \/ ReadRunStatus(r)
    BY <2>2 DEF Register, ReadRunStatus
  <2>3. CASE WriteRun(r)
    BY <2>3 DEF WriteRun
  <2>4. CASE RenameRun(r) \/ RenameRunFails(r)
    <3>1. UNCHANGED <<inFlight, outcome, resolved, skipped>>
      BY <2>4 DEF RenameRun, RenameRunFails
    <3>2. /\ \A q \in Starts \ {r} : pc'[q] = pc[q]
          /\ pc'[r] = "done" => pc[r] = "endRename"
          /\ pc'[r] \notin {"endRead", "endWrite", "endRename"}
      BY <2>4 DEF RenameRun, RenameRunFails
    <3>3. QED
      BY <3>1, <3>2
  <2>5. CASE Load(r)
    BY <2>5 DEF Load
  <2>6. QED
    BY <1>3, <2>1, <2>2, <2>3, <2>4, <2>5 DEF StartStep
<1>4. ASSUME NEW r \in Starts, Verdict(r)
      PROVE  VerdictKept'
  <2>1. FinalStatus(r, current.task) = "completed" =>
          \A t \in Task : current.task[t].status \in {"completed", "skipped"}
    BY DEF FinalStatus, Waiting, RunState, TaskState, TaskStatus
  <2>2. FinalStatus(r, current.task) = "completed" => resolved \cup skipped = Task
    BY <2>1 DEF CompletedIsEarned, Earned
  <2>3. QED
    BY <1>4, <2>2 DEF Verdict
<1>5. ASSUME NEW r \in Starts, Cancel(r)
      PROVE  VerdictKept'
  BY <1>5 DEF Cancel
<1>6. ASSUME NEW r \in Starts, NEW t \in Task, TaskStep(r, t)
      PROVE  VerdictKept'
  <2>1. /\ outcome' = outcome /\ resolved \subseteq resolved' /\ skipped' = skipped
        /\ resolved' \subseteq Task
        /\ \A q \in Starts : inFlight'[q] \subseteq inFlight[q]
        /\ \A q \in Starts : pc'[q] = pc[q] \/ pc'[q] \in {"loop", "error"}
    <3>1. CASE RenameTask(r, t) \/ RenameFailFails(r, t)
      <4>1. inFlight' = [inFlight EXCEPT ![r] = @ \ {t}]
        BY <3>1 DEF RenameTask, RenameFailFails
      <4>2. QED
        BY <3>1, <4>1 DEF RenameTask, RenameFailFails
    <3>2. CASE ~(RenameTask(r, t) \/ RenameFailFails(r, t))
      BY <1>6, <3>2
      DEF TaskStep, AgentStarts, RunnerResolves, RunnerRejects, WriteTask, RenameOkFails
    <3>3. QED
      BY <3>1, <3>2
  <2>2. QED
    BY <2>1
<1>7. ASSUME NEW r \in Starts, NEW t \in Task, LaunchSaveStep(r, t)
      PROVE  VerdictKept'
  BY <1>7 DEF LaunchSaveStep, WriteLaunch, RenameLaunch
<1>8. ASSUME NEW e \in Edits, EditStep(e)
      PROVE  VerdictKept'
  BY <1>8
  DEF EditStep, EditRequest, ReadRetry, ReadSkip, EditNotFound, WriteEdit, RenameEdit
<1>9. CASE Restart
  BY <1>9 DEF Restart
<1>10. QED
  BY <1>1, <1>2, <1>3, <1>4, <1>5, <1>6, <1>7, <1>8, <1>9 DEF Next

(* A run that is done left nothing in flight, and it is recorded completed *)
(* only if every task was run by an agent or skipped.                      *)
THEOREM VerdictsHonest == Spec => []VerdictHonest
<1>1. Init => VerdictKept
  BY DEF Init, VerdictKept
<1>2. TypeOK /\ CompletedIsEarned /\ VerdictKept /\ [Next]_vars => VerdictKept'
  BY VerdictStep
<1>3. VerdictKept => VerdictHonest
  BY DEF VerdictKept, VerdictHonest
<1>4. QED
  BY <1>1, <1>2, <1>3, CompletionsEarned, TypeCorrect, PTL DEF Spec

-----------------------------------------------------------------------------
(* A failure stops what is downstream of it                                *)

(* One pass of propagateBlock, as a function of how far it came.           *)
LEMMA BlockPassLemma ==
  ASSUME NEW fail \in SUBSET Task
  PROVE  \E seen \in [0..NumTasks -> SUBSET Task] :
           /\ seen[0] = fail
           /\ \A k \in Task : seen[k] = IF DependsOn[k] \cap seen[k - 1] # {} THEN seen[k - 1] \cup {k} ELSE seen[k - 1]
           /\ BlockPass(fail) = seen[NumTasks]
<1> DEFINE T == SUBSET Task
           Grow(k, s) == IF DependsOn[k] \cap s # {} THEN s \cup {k} ELSE s
           Body(f) == [k \in 0..NumTasks |-> IF k = 0 THEN fail ELSE Grow(k, f[k - 1])]
           seen == CHOOSE f : f = Body(f)
<1>1. /\ NumTasks \in Nat /\ fail \in T /\ Task = 1..NumTasks
      /\ \A k \in 1..NumTasks, s \in T : Grow(k, s) \in T
  BY DEF Task
<1>2. BlockPass(fail) = seen[NumTasks]
  BY DEF BlockPass
<1> HIDE DEF T, Grow
<1> DEFINE step == [k \in 1..NumTasks |-> [s \in T |-> Grow(k, s)]]
<1>3. step \in [1..NumTasks -> [T -> T]] /\ \A k \in 1..NumTasks, s \in T : step[k][s] = Grow(k, s)
  BY <1>1
<1>4. PICK g \in [0..NumTasks -> T] : g[0] = fail /\ \A k \in 1..NumTasks : g[k] = step[k][g[k - 1]]
  <2> HIDE DEF step
  <2>1. NumTasks \in Nat /\ fail \in T /\ step \in [1..NumTasks -> [T -> T]]
    BY <1>1, <1>3
  <2>2. Counted(NumTasks, T, fail, step) # {}
    BY <2>1, CountUpDefines
  <2>3. QED
    BY <2>2 DEF Counted
<1> HIDE DEF step
<1>5. \A k \in 1..NumTasks : g[k] = Grow(k, g[k - 1])
  <2> SUFFICES ASSUME NEW k \in 1..NumTasks PROVE g[k] = Grow(k, g[k - 1])
    OBVIOUS
  <2>1. k - 1 \in 0..NumTasks
    BY <1>1
  <2>2. g[k - 1] \in T
    BY <2>1
  <2>3. QED
    BY <1>3, <1>4, <2>2
<1>6. g = Body(g)
  <2>1. \A k \in 0..NumTasks : g[k] = IF k = 0 THEN fail ELSE Grow(k, g[k - 1])
    BY <1>1, <1>4, <1>5
  <2>2. QED
    BY <2>1
<1>7. seen = Body(seen)
  <2> HIDE DEF Body
  <2>1. QED
    BY <1>6
<1> HIDE DEF seen
<1>8. seen = [k \in 0..NumTasks |-> seen[k]] /\ \A k \in 0..NumTasks : seen[k] = IF k = 0 THEN fail ELSE Grow(k, seen[k - 1])
  BY <1>7
<1> HIDE DEF Body
<1>9. 0 \in 0..NumTasks /\ \A k \in 1..NumTasks : k \in 0..NumTasks /\ k # 0
  BY <1>1
<1>10. seen[0] = fail /\ \A k \in 1..NumTasks : seen[k] = Grow(k, seen[k - 1])
  BY <1>8, <1>9
<1>11. \A k \in 0..NumTasks : seen[k] \in T
  <2> DEFINE S == {k \in 0..NumTasks : seen[k] \in T}
  <2>1. 0 \in S
    BY <1>1, <1>9, <1>10
  <2>2. ASSUME NEW k \in 1..NumTasks, k - 1 \in S PROVE k \in S
    BY <1>1, <1>9, <1>10, <2>2
  <2> HIDE DEF S
  <2>3. \A k \in 0..NumTasks : k \in S
    BY <1>1, <2>1, <2>2, CountUp
  <2>4. QED
    BY <2>3 DEF S
<1>12. seen \in [0..NumTasks -> T]
  BY <1>8, <1>11
<1>13. QED
  BY <1>1, <1>2, <1>10, <1>12 DEF T, Grow

(* A pass keeps what failed, adds every dependent of it, and adds nothing   *)
(* but what depends on something it has.                                   *)
LEMMA PassLemma ==
  ASSUME NEW fail \in SUBSET Task
  PROVE  /\ fail \subseteq BlockPass(fail) /\ BlockPass(fail) \subseteq Task
         /\ \A u \in Task : DependsOn[u] \cap fail # {} => u \in BlockPass(fail)
         /\ \A S \in SUBSET Task :
              fail \subseteq S /\ (\A v \in Task : DependsOn[v] \cap S # {} => v \in S) => BlockPass(fail) \subseteq S
<1>1. PICK seen \in [0..NumTasks -> SUBSET Task] :
        /\ seen[0] = fail
        /\ \A k \in Task : seen[k] = IF DependsOn[k] \cap seen[k - 1] # {} THEN seen[k - 1] \cup {k} ELSE seen[k - 1]
        /\ BlockPass(fail) = seen[NumTasks]
  BY BlockPassLemma
<1>2. \A k \in 0..NumTasks : fail \subseteq seen[k] /\ \A u \in 1..k : DependsOn[u] \cap fail # {} => u \in seen[k]
  <2> DEFINE K == {k \in 0..NumTasks : fail \subseteq seen[k] /\ \A u \in 1..k : DependsOn[u] \cap fail # {} => u \in seen[k]}
  <2>1. 0 \in K
    BY <1>1
  <2>2. ASSUME NEW k \in 1..NumTasks, k - 1 \in K PROVE k \in K
    <3>1. seen[k] = IF DependsOn[k] \cap seen[k - 1] # {} THEN seen[k - 1] \cup {k} ELSE seen[k - 1]
      BY <1>1 DEF Task
    <3>2. fail \subseteq seen[k - 1] /\ \A u \in 1..(k - 1) : DependsOn[u] \cap fail # {} => u \in seen[k - 1]
      BY <2>2
    <3>3. seen[k - 1] \subseteq seen[k] /\ (DependsOn[k] \cap fail # {} => k \in seen[k])
      BY <3>1, <3>2
    <3>4. \A u \in 1..k : u = k \/ u \in 1..(k - 1)
      OBVIOUS
    <3>5. QED
      BY <3>2, <3>3, <3>4
  <2> HIDE DEF K
  <2>3. \A k \in 0..NumTasks : k \in K
    BY <2>1, <2>2, CountUp
  <2>4. QED
    BY <2>3 DEF K
<1>3. ASSUME NEW S \in SUBSET Task, fail \subseteq S, \A v \in Task : DependsOn[v] \cap S # {} => v \in S
      PROVE  BlockPass(fail) \subseteq S
  <2> DEFINE K == {k \in 0..NumTasks : seen[k] \subseteq S}
  <2>1. 0 \in K
    BY <1>1, <1>3
  <2>2. ASSUME NEW k \in 1..NumTasks, k - 1 \in K PROVE k \in K
    <3>1. seen[k] = IF DependsOn[k] \cap seen[k - 1] # {} THEN seen[k - 1] \cup {k} ELSE seen[k - 1]
      BY <1>1 DEF Task
    <3>2. QED
      BY <1>3, <2>2, <3>1 DEF Task
  <2> HIDE DEF K
  <2>3. \A k \in 0..NumTasks : k \in K
    BY <2>1, <2>2, CountUp
  <2>4. QED
    BY <1>1, <2>3 DEF K
<1>4. NumTasks \in 0..NumTasks /\ Task = 1..NumTasks
  BY DEF Task
<1>5. BlockPass(fail) \subseteq Task
  BY <1>1, <1>4
<1>6. fail \subseteq BlockPass(fail) /\ \A u \in Task : DependsOn[u] \cap fail # {} => u \in BlockPass(fail)
  BY <1>1, <1>2, <1>4
<1>7. QED
  BY <1>3, <1>5, <1>6

(* propagateBlock's loop, as a function of the passes it made.             *)
LEMMA LoopLemma ==
  ASSUME NEW t \in Task, NEW tasks
  PROVE  \E loop \in [0..NumTasks -> [fail : SUBSET Task, changed : BOOLEAN]] :
           /\ loop[0] = [fail |-> {t}, changed |-> TRUE]
           /\ \A k \in 1..NumTasks :
                loop[k] = IF ~loop[k - 1].changed THEN loop[k - 1]
                          ELSE [fail |-> BlockPass(loop[k - 1].fail),
                                changed |-> \E u \in BlockPass(loop[k - 1].fail) \ loop[k - 1].fail :
                                              tasks[u].status \in Waiting]
           /\ FailSet(t, tasks) = loop[NumTasks].fail
<1> DEFINE T == [fail : SUBSET Task, changed : BOOLEAN]
           first == [fail |-> {t}, changed |-> TRUE]
           Grow(k, last) == IF ~last.changed THEN last
                            ELSE [fail |-> BlockPass(last.fail),
                                  changed |-> \E u \in BlockPass(last.fail) \ last.fail : tasks[u].status \in Waiting]
           Body(f) == [k \in 0..NumTasks |-> IF k = 0 THEN first ELSE Grow(k, f[k - 1])]
           seen == CHOOSE f : f = Body(f)
<1>1. /\ NumTasks \in Nat /\ first \in T /\ Task = 1..NumTasks
      /\ \A k \in 1..NumTasks, s \in T : Grow(k, s) \in T
  <2>1. ASSUME NEW last \in T PROVE Grow(1, last) \in T
    <3>1. BlockPass(last.fail) \in SUBSET Task
      BY PassLemma
    <3>2. QED
      BY <3>1
  <2>2. QED
    BY <2>1 DEF Task
<1>2. FailSet(t, tasks) = seen[NumTasks].fail
  BY DEF FailSet
<1> HIDE DEF T, Grow, first
<1> DEFINE step == [k \in 1..NumTasks |-> [s \in T |-> Grow(k, s)]]
<1>3. step \in [1..NumTasks -> [T -> T]] /\ \A k \in 1..NumTasks, s \in T : step[k][s] = Grow(k, s)
  BY <1>1
<1>4. PICK g \in [0..NumTasks -> T] : g[0] = first /\ \A k \in 1..NumTasks : g[k] = step[k][g[k - 1]]
  <2> HIDE DEF step
  <2>1. NumTasks \in Nat /\ first \in T /\ step \in [1..NumTasks -> [T -> T]]
    BY <1>1, <1>3
  <2>2. Counted(NumTasks, T, first, step) # {}
    BY <2>1, CountUpDefines
  <2>3. QED
    BY <2>2 DEF Counted
<1> HIDE DEF step
<1>5. \A k \in 1..NumTasks : g[k] = Grow(k, g[k - 1])
  <2> SUFFICES ASSUME NEW k \in 1..NumTasks PROVE g[k] = Grow(k, g[k - 1])
    OBVIOUS
  <2>1. k - 1 \in 0..NumTasks
    BY <1>1
  <2>2. g[k - 1] \in T
    BY <2>1
  <2>3. QED
    BY <1>3, <1>4, <2>2
<1>6. g = Body(g)
  <2>1. \A k \in 0..NumTasks : g[k] = IF k = 0 THEN first ELSE Grow(k, g[k - 1])
    BY <1>1, <1>4, <1>5
  <2>2. QED
    BY <2>1
<1>7. seen = Body(seen)
  <2> HIDE DEF Body
  <2>1. QED
    BY <1>6
<1> HIDE DEF seen
<1>8. seen = [k \in 0..NumTasks |-> seen[k]] /\ \A k \in 0..NumTasks : seen[k] = IF k = 0 THEN first ELSE Grow(k, seen[k - 1])
  BY <1>7
<1> HIDE DEF Body
<1>9. 0 \in 0..NumTasks /\ \A k \in 1..NumTasks : k \in 0..NumTasks /\ k # 0
  BY <1>1
<1>10. seen[0] = first /\ \A k \in 1..NumTasks : seen[k] = Grow(k, seen[k - 1])
  BY <1>8, <1>9
<1>11. \A k \in 0..NumTasks : seen[k] \in T
  <2> DEFINE S == {k \in 0..NumTasks : seen[k] \in T}
  <2>1. 0 \in S
    BY <1>1, <1>9, <1>10
  <2>2. ASSUME NEW k \in 1..NumTasks, k - 1 \in S PROVE k \in S
    BY <1>1, <1>9, <1>10, <2>2
  <2> HIDE DEF S
  <2>3. \A k \in 0..NumTasks : k \in S
    BY <1>1, <2>1, <2>2, CountUp
  <2>4. QED
    BY <2>3 DEF S
<1>12. seen \in [0..NumTasks -> T]
  BY <1>8, <1>11
<1>13. QED
  BY <1>1, <1>2, <1>10, <1>12 DEF T, Grow, first


(* What failed stops every waiting dependent, at any distance with only     *)
(* waiting tasks between; and nothing that is not downstream.              *)
LEMMA FailSetLemma ==
  ASSUME NEW t \in Task, NEW tasks
  PROVE  /\ \A u \in Task : t \in DependsOn[u] => u \in FailSet(t, tasks)
         /\ \A d \in FailSet(t, tasks), u \in Task :
              tasks[d].status \in Waiting /\ d \in DependsOn[u] => u \in FailSet(t, tasks)
         /\ \A u \in FailSet(t, tasks) : u = t \/ u \in Downstream(t)
<1> DEFINE Shut(f) == \A d \in f, u \in Task : (d = t \/ tasks[d].status \in Waiting) /\ d \in DependsOn[u] => u \in f
           Below(f) == f \subseteq Downstream(t) \cup {t}
<1>1. PICK loop \in [0..NumTasks -> [fail : SUBSET Task, changed : BOOLEAN]] :
        /\ loop[0] = [fail |-> {t}, changed |-> TRUE]
        /\ \A k \in 1..NumTasks :
             loop[k] = IF ~loop[k - 1].changed THEN loop[k - 1]
                       ELSE [fail |-> BlockPass(loop[k - 1].fail),
                             changed |-> \E u \in BlockPass(loop[k - 1].fail) \ loop[k - 1].fail :
                                           tasks[u].status \in Waiting]
        /\ FailSet(t, tasks) = loop[NumTasks].fail
  BY LoopLemma
<1>2. NumTasks \in Nat /\ Task = 1..NumTasks /\ IsFiniteSet(Task) /\ Cardinality(Task) = NumTasks
  BY FS_Interval DEF Task
<1>3. \A k \in 0..NumTasks : loop[k].fail \in SUBSET Task /\ loop[k].changed \in BOOLEAN
  OBVIOUS
<1> DEFINE K == {k \in 0..NumTasks :
                   /\ t \in loop[k].fail /\ Below(loop[k].fail)
                   /\ loop[k].changed => k < Cardinality(loop[k].fail)
                   /\ ~loop[k].changed => Shut(loop[k].fail)}
<1>4. 0 \in K
  <2>1. Cardinality({t}) = 1
    BY FS_Singleton
  <2>2. loop[0].fail = {t} /\ loop[0].changed /\ 0 \in 0..NumTasks
    BY <1>1, <1>2
  <2>3. 0 < Cardinality(loop[0].fail) /\ Below(loop[0].fail)
    BY <2>1, <2>2
  <2> HIDE DEF Shut, Below
  <2>4. QED
    BY <2>2, <2>3
<1>5. ASSUME NEW k \in 1..NumTasks, k - 1 \in K PROVE k \in K
  <2> DEFINE last == loop[k - 1].fail
             next == BlockPass(last)
  <2>1. /\ last \in SUBSET Task /\ t \in last /\ Below(last)
        /\ loop[k - 1].changed => k - 1 < Cardinality(last)
        /\ ~loop[k - 1].changed => Shut(last)
        /\ k \in 0..NumTasks
    <3> HIDE DEF Shut, Below
    <3>1. k - 1 \in 0..NumTasks /\ k \in 0..NumTasks
      BY <1>2
    <3>2. QED
      BY <1>3, <1>5, <3>1
  <2>2. CASE ~loop[k - 1].changed
    <3> HIDE DEF Shut, Below
    <3>1. loop[k] = loop[k - 1]
      BY <1>1, <2>2
    <3>2. QED
      BY <2>1, <2>2, <3>1
  <2>3. CASE loop[k - 1].changed
    <3>1. loop[k] = [fail |-> next, changed |-> \E u \in next \ last : tasks[u].status \in Waiting]
      BY <1>1, <2>3
    <3>2. /\ last \subseteq next /\ next \subseteq Task
          /\ \A u \in Task : DependsOn[u] \cap last # {} => u \in next
          /\ \A S \in SUBSET Task :
               last \subseteq S /\ (\A v \in Task : DependsOn[v] \cap S # {} => v \in S) => next \subseteq S
      BY <2>1, PassLemma
    <3> HIDE DEF last, next
    <3>3. loop[k].changed => k < Cardinality(next)
      <4> SUFFICES ASSUME loop[k].changed PROVE k < Cardinality(next)
        OBVIOUS
      <4>1. last # next
        BY <3>1
      <4>2. IsFiniteSet(next) /\ IsFiniteSet(last)
        BY <1>2, <3>2, FS_Subset
      <4>3. Cardinality(last) \in Nat /\ Cardinality(next) \in Nat
        BY <4>2, FS_CardinalityType
      <4>4. Cardinality(last) < Cardinality(next)
        BY <3>2, <4>1, <4>2, <4>3, FS_Subset
      <4>5. k - 1 < Cardinality(last)
        BY <2>1, <2>3
      <4>6. QED
        BY <1>2, <4>3, <4>4, <4>5
    <3>4. ~loop[k].changed => Shut(next)
      <4> SUFFICES ASSUME ~loop[k].changed, NEW d \in next, NEW u \in Task, d = t \/ tasks[d].status \in Waiting,
                          d \in DependsOn[u]
                   PROVE  u \in next
        OBVIOUS
      <4>1. d \in last
        BY <2>1, <3>1
      <4>2. QED
        BY <3>2, <4>1
    <3>5. Below(next)
      <4> SUFFICES ASSUME NEW u \in next, u # t, NEW S \in SUBSET Task,
                          \A v \in Task : DependsOn[v] \cap (S \cup {t}) # {} => v \in S
                   PROVE  u \in S
        BY <3>2 DEF Downstream
      <4>1. last \subseteq S \cup {t}
        BY <2>1 DEF Downstream
      <4>2. \A v \in Task : DependsOn[v] \cap (S \cup {t}) # {} => v \in S \cup {t}
        OBVIOUS
      <4>3. S \cup {t} \in SUBSET Task
        OBVIOUS
      <4>4. next \subseteq S \cup {t}
        BY <3>2, <4>1, <4>2, <4>3
      <4>5. QED
        BY <4>4
    <3> HIDE DEF Shut, Below
    <3>6. loop[k].fail = next /\ t \in next
      BY <2>1, <3>1, <3>2
    <3>7. QED
      BY <2>1, <3>3, <3>4, <3>5, <3>6
  <2>4. QED
    BY <2>2, <2>3
<1>6. NumTasks \in K
  <2> HIDE DEF K
  <2>1. \A k \in 0..NumTasks : k \in K
    BY <1>2, <1>4, <1>5, CountUp
  <2>2. QED
    BY <1>2, <2>1
<1>7. ~loop[NumTasks].changed
  <2>1. NumTasks \in 0..NumTasks
    BY <1>2
  <2>2. Cardinality(loop[NumTasks].fail) \in Nat /\ Cardinality(loop[NumTasks].fail) <= NumTasks
    BY <1>2, <1>3, <2>1, FS_Subset, FS_CardinalityType
  <2> HIDE DEF Shut, Below
  <2>3. QED
    BY <1>2, <1>6, <2>2
<1>8. t \in FailSet(t, tasks) /\ Shut(FailSet(t, tasks)) /\ Below(FailSet(t, tasks))
  <2> HIDE DEF Shut, Below
  <2>1. QED
    BY <1>1, <1>6, <1>7
<1>9. QED
  BY <1>8

(* What a state may say: what is blocked is blocked by a failure, and,     *)
(* until an edit reads a state, nothing waits on a failure.                *)
EditsWait == \A e \in Edits : epc[e] \in {"idle", "checked"}
Caused(state, failed) ==
  \A t \in Task : state.task[t].status = "blocked_by_upstream" =>
    state.task[t].cause \in failed /\ t \in Downstream(state.task[t].cause)
Fine(state, failed, unedited) == Caused(state, failed) /\ (unedited => NoneWaitsOnFailure(state))
AllFine ==
  /\ Fine(current, threw, EditsWait) /\ Fine(tmp, threw, EditsWait)
  /\ \A r \in Starts : Fine(doc[r], threw, EditsWait) /\ Fine(mem[r], threw, EditsWait)
  /\ \A r \in Starts, t \in Task : Fine(wdoc[r][t], threw, EditsWait)
  /\ \A e \in Edits : Caused(edoc[e], threw)

LEMMA FineGrows ==
  ASSUME NEW state, NEW f, NEW g, NEW w, NEW v, Fine(state, f, w), f \subseteq g, v => w
  PROVE  Fine(state, g, v)
  BY DEF Fine, Caused

LEMMA FreshIsFine ==
  ASSUME NEW state, state.task = FreshTasks, NEW f, NEW w
  PROVE  Fine(state, f, w)
  BY DEF Fine, Caused, NoneWaitsOnFailure, FreshTasks, Waiting

LEMMA SameTasksFine ==
  ASSUME NEW state, NEW new, new.task = state.task, NEW f, NEW w, Fine(state, f, w)
  PROVE  Fine(new, f, w)
  BY DEF Fine, Caused, NoneWaitsOnFailure

LEMMA PassedIsFine ==
  ASSUME NEW state \in RunState, NEW t \in Task, NEW s \in {"running", "completed"}, NEW f, NEW w, Fine(state, f, w)
  PROVE  Fine([state EXCEPT !.task[t].status = s], f, w)
<1> DEFINE new == [state EXCEPT !.task[t].status = s]
<1>1. new.task[t].status = s /\ \A u \in Task \ {t} : new.task[u] = state.task[u]
  BY DEF RunState, TaskState
<1> HIDE DEF new
<1>2. Caused(new, f)
  BY <1>1 DEF Fine, Caused
<1>3. NoneWaitsOnFailure(state) => NoneWaitsOnFailure(new)
  BY <1>1 DEF NoneWaitsOnFailure, Waiting
<1>4. QED
  BY <1>2, <1>3 DEF Fine, new

LEMMA FailureIsFine ==
  ASSUME NEW state \in RunState, NEW t \in Task, NEW f, NEW w, Fine(state, f, w)
  PROVE  Fine(FailTask(state, t), f \cup {t}, w)
<1> DEFINE new == FailTask(state, t)
           fails == FailSet(t, state.task)
<1>1. /\ new.task[t].status = "failed"
      /\ \A u \in Task \ {t} : u \in fails /\ state.task[u].status \in Waiting =>
           new.task[u].status = "blocked_by_upstream" /\ new.task[u].cause = t
      /\ \A u \in Task \ {t} : ~(u \in fails /\ state.task[u].status \in Waiting) => new.task[u] = state.task[u]
  BY DEF FailTask, RunState
<1>2. /\ \A u \in Task : t \in DependsOn[u] => u \in fails
      /\ \A d \in fails, u \in Task : state.task[d].status \in Waiting /\ d \in DependsOn[u] => u \in fails
      /\ \A u \in fails : u = t \/ u \in Downstream(t)
  BY FailSetLemma
<1> HIDE DEF new, fails
<1>3. Caused(new, f \cup {t})
  BY <1>1, <1>2 DEF Fine, Caused
<1>4. NoneWaitsOnFailure(state) => NoneWaitsOnFailure(new)
  <2> SUFFICES ASSUME NoneWaitsOnFailure(state), NEW u \in Task, new.task[u].status \in Waiting, NEW d \in DependsOn[u],
                      new.task[d].status \in {"failed", "blocked_by_upstream"}
               PROVE  FALSE
    BY DEF NoneWaitsOnFailure
  <2>1. d \in Task /\ u # t /\ u \notin fails /\ state.task[u].status \in Waiting
    BY <1>1 DEF Waiting
  <2>2. d # t
    BY <1>2, <2>1
  <2>3. ~(d \in fails /\ state.task[d].status \in Waiting)
    BY <1>2, <2>1
  <2>4. new.task[d] = state.task[d]
    BY <1>1, <2>1, <2>2, <2>3
  <2>5. QED
    BY <2>1, <2>4 DEF NoneWaitsOnFailure
<1>5. QED
  BY <1>3, <1>4 DEF Fine, new

LEMMA EditsAreCaused ==
  ASSUME NEW state \in RunState, NEW t \in Task, NEW f, Caused(state, f)
  PROVE  /\ Caused(RetriedState(state, t), f)
         /\ Caused([state EXCEPT !.task[t] = [status |-> "skipped", cause |-> 0]], f)
  BY DEF Caused, RetriedState, RunState

(* A step copies states that are there, and makes at most one new one.     *)
Known(state) ==
  \/ state \in {current, tmp, Absent}
  \/ \E r \in Starts : state \in {doc[r], mem[r]}
  \/ \E r \in Starts, t \in Task : state = wdoc[r][t]

LEMMA StatesSpread ==
  ASSUME AllFine, EditsWait' => EditsWait, threw \subseteq threw', NEW new, Fine(new, threw', EditsWait'),
         Known(current') \/ current' = new, Known(tmp') \/ tmp' = new,
         \A r \in Starts : (Known(doc'[r]) \/ doc'[r] = new) /\ (Known(mem'[r]) \/ mem'[r] = new),
         \A r \in Starts, t \in Task : Known(wdoc'[r][t]) \/ wdoc'[r][t] = new,
         \A e \in Edits : Known(edoc'[e]) \/ edoc'[e] = new \/ edoc'[e] = edoc[e]
  PROVE  AllFine'
<1>1. ASSUME NEW state, Known(state) PROVE Fine(state, threw', EditsWait')
  <2>1. Fine(state, threw, EditsWait)
    BY <1>1, FreshIsFine DEF Known, AllFine, Absent
  <2>2. QED
    BY <2>1, FineGrows
<1>2. \A e \in Edits : Caused(edoc[e], threw')
  BY DEF AllFine, Caused
<1>3. \A state : Known(state) \/ state = new => Fine(state, threw', EditsWait')
  BY <1>1
<1>4. \A e \in Edits : Caused(edoc'[e], threw')
  BY <1>2, <1>3 DEF Fine
<1>5. QED
  BY <1>3, <1>4 DEF AllFine

(* Once a retry or skip read the state, an edit never waits again; and a    *)
(* failure stays recorded.                                                 *)
LEMMA EditsWaitOnce ==
  ASSUME TypeOK, [Next]_vars
  PROVE  (EditsWait' => EditsWait) /\ threw \subseteq threw'
<1> USE DEF TypeOK, EditsWait, vars, disk, run, work, edit, hist
<1>1. CASE UNCHANGED <<epc, threw>>
  BY <1>1
<1>2. ASSUME NEW r \in Starts, StartStep(r) \/ Cancel(r) \/ LoopStep(r)
      PROVE  UNCHANGED <<epc, threw>>
  BY <1>2 DEF StartStep, StartRequest, InitFromGraph, StartFails, Register, ReadRunStatus, WriteRun, RenameRun,
              RenameRunFails, Load, Verdict, Cancel, LoopStep, LoopTurnEnds, LaunchTask
<1>3. ASSUME NEW r \in Starts, NEW t \in Task, TaskStep(r, t) \/ LaunchSaveStep(r, t)
      PROVE  UNCHANGED epc /\ threw \subseteq threw'
  BY <1>3 DEF TaskStep, AgentStarts, RunnerResolves, RunnerRejects, WriteTask, RenameTask, RenameOkFails,
              RenameFailFails, LaunchSaveStep, WriteLaunch, RenameLaunch
<1>4. ASSUME NEW e \in Edits, EditStep(e)
      PROVE  (EditsWait' => EditsWait) /\ UNCHANGED threw
  <2>1. UNCHANGED threw /\ epc[e] # "ended" /\ (epc'[e] \in {"idle", "checked"} => epc[e] = "idle")
        /\ \A f \in Edits \ {e} : epc'[f] = epc[f]
    BY <1>4 DEF EditStep, EditRequest, EditNotFound, WriteEdit, RenameEdit, ReadRetry, ReadSkip
  <2>2. QED
    BY <2>1
<1>5. CASE Restart
  BY <1>5 DEF Restart
<1>6. QED
  BY <1>1, <1>2, <1>3, <1>4, <1>5 DEF Next

LEMMA FineStartStep ==
  ASSUME TypeOK, AllFine, EditsWait' => EditsWait, threw \subseteq threw', NEW r \in Starts,
         StartStep(r) \/ Cancel(r) \/ LoopStep(r)
  PROVE  AllFine'
<1> USE DEF TypeOK, disk, run, work, edit, hist, WriteTmp, RenameTmp
<1>1. CASE \/ StartRequest(r) \/ StartFails(r) \/ Register(r) \/ RenameRunFails(r)
           \/ Verdict(r) \/ Cancel(r) \/ LoopTurnEnds(r) \/ WriteRun(r) \/ RenameRun(r) \/ Load(r)
  <2>1. Fine(Absent, threw', EditsWait')
    BY FreshIsFine DEF Absent
  <2>2. /\ Known(current') /\ Known(tmp') /\ UNCHANGED <<wdoc, edoc>>
        /\ \A q \in Starts : Known(doc'[q]) /\ Known(mem'[q])
    BY <1>1 DEF StartRequest, StartFails, Register, RenameRunFails, Verdict, Cancel, LoopTurnEnds, WriteRun,
                RenameRun, Load, Known
  <2>3. QED
    BY <2>1, <2>2, StatesSpread DEF Known
<1>2. CASE InitFromGraph(r)
  <2> DEFINE new == [status |-> "idle", task |-> FreshTasks]
  <2>1. Fine(new, threw', EditsWait')
    BY FreshIsFine
  <2>2. tmp' = new /\ UNCHANGED <<current, doc, mem, wdoc, edoc>>
    BY <1>2 DEF InitFromGraph
  <2> HIDE DEF new
  <2>3. QED
    BY <2>1, <2>2, StatesSpread DEF Known
<1>3. CASE ReadRunStatus(r)
  <2>1. PICK s \in RunStatus : doc' = [doc EXCEPT ![r] = [current EXCEPT !.status = s]]
    BY <1>3 DEF ReadRunStatus, RunStatus
  <2> DEFINE new == [current EXCEPT !.status = s]
  <2>2. new.task = current.task
    BY DEF RunState
  <2> HIDE DEF new
  <2>3. Fine(current, threw', EditsWait')
    BY FineGrows DEF AllFine
  <2>4. Fine(new, threw', EditsWait')
    BY <2>2, <2>3, SameTasksFine
  <2>5. \A q \in Starts : doc'[q] \in {doc[q], new}
    BY <2>1 DEF new
  <2>6. UNCHANGED <<current, tmp, mem, wdoc, edoc>>
    BY <1>3 DEF ReadRunStatus
  <2>7. QED
    BY <2>4, <2>5, <2>6, StatesSpread DEF Known
<1>4. ASSUME NEW t \in Task, LaunchTask(r, t)
      PROVE  AllFine'
  <2> DEFINE new == [mem[r] EXCEPT !.task[t].status = "running"]
  <2>1. Fine(new, threw, EditsWait)
    BY PassedIsFine DEF AllFine
  <2>2. \A q \in Starts : mem'[q] \in {mem[q], new}
    BY <1>4 DEF LaunchTask
  <2>3. UNCHANGED <<current, tmp, doc, wdoc, edoc>>
    BY <1>4 DEF LaunchTask
  <2> HIDE DEF new
  <2>4. Fine(new, threw', EditsWait')
    BY <2>1, FineGrows
  <2>5. QED
    BY <2>2, <2>3, <2>4, StatesSpread DEF Known
<1>5. QED
  BY StartStep(r) \/ Cancel(r) \/ LoopStep(r), <1>1, <1>2, <1>3, <1>4 DEF StartStep, LoopStep

LEMMA FineTaskStep ==
  ASSUME TypeOK, AllFine, EditsWait' => EditsWait, threw \subseteq threw', NEW r \in Starts, NEW t \in Task,
         TaskStep(r, t) \/ LaunchSaveStep(r, t)
  PROVE  AllFine'
<1> USE DEF TypeOK, disk, run, work, edit, hist, WriteTmp, RenameTmp
<1>1. CASE \/ AgentStarts(r, t) \/ RenameOkFails(r, t) \/ RenameFailFails(r, t)
           \/ WriteTask(r, t) \/ RenameTask(r, t) \/ WriteLaunch(r, t) \/ RenameLaunch(r, t)
  <2>1. Fine(Absent, threw', EditsWait')
    BY FreshIsFine DEF Absent
  <2>2. /\ current' \in {current, tmp} /\ tmp' \in {tmp, Absent, wdoc[r][t], mem[r]} /\ UNCHANGED <<doc, mem, edoc>>
        /\ wdoc' \in {wdoc, [wdoc EXCEPT ![r][t] = Absent]}
    BY <1>1 DEF AgentStarts, RenameOkFails, RenameFailFails, WriteTask, RenameTask, WriteLaunch, RenameLaunch
  <2>3. \A q \in Starts, u \in Task : wdoc'[q][u] \in {wdoc[q][u], Absent}
    <3>1. CASE wdoc' = wdoc
      BY <3>1
    <3>2. CASE wdoc' = [wdoc EXCEPT ![r][t] = Absent]
      BY <3>2
    <3>3. QED
      BY <2>2, <3>1, <3>2
  <2>4. Known(current') /\ Known(tmp')
    <3>1. Known(current) /\ Known(tmp) /\ Known(Absent) /\ Known(mem[r]) /\ Known(wdoc[r][t])
      BY DEF Known
    <3>2. QED
      BY <2>2, <3>1
  <2>5. /\ \A q \in Starts : Known(doc'[q]) /\ Known(mem'[q])
        /\ \A q \in Starts, u \in Task : Known(wdoc'[q][u])
        /\ \A e \in Edits : edoc'[e] = edoc[e]
    BY <2>2, <2>3 DEF Known
  <2>6. QED
    BY <2>1, <2>4, <2>5, StatesSpread
<1>2. ASSUME NEW new, Fine(new, threw', EditsWait'), wdoc' = [wdoc EXCEPT ![r][t] = new],
             UNCHANGED <<current, tmp, doc, mem, edoc>>
      PROVE  AllFine'
  <2>1. \A q \in Starts, u \in Task : wdoc'[q][u] \in {wdoc[q][u], new}
    BY <1>2
  <2>2. QED
    BY <1>2, <2>1, StatesSpread DEF Known
<1>3. CASE RunnerResolves(r, t)
  <2>1. Fine([current EXCEPT !.task[t].status = "completed"], threw, EditsWait)
    BY PassedIsFine DEF AllFine
  <2>2. Fine([current EXCEPT !.task[t].status = "completed"], threw', EditsWait')
    BY <2>1, FineGrows
  <2>3. QED
    BY <1>2, <1>3, <2>2 DEF RunnerResolves
<1>4. CASE RunnerRejects(r, t)
  <2>1. Fine(FailTask(current, t), threw \cup {t}, EditsWait)
    BY FailureIsFine DEF AllFine
  <2>2. Fine(FailTask(current, t), threw', EditsWait')
    BY <1>4, <2>1, FineGrows DEF RunnerRejects
  <2>3. QED
    BY <1>2, <1>4, <2>2 DEF RunnerRejects
<1>5. QED
  BY TaskStep(r, t) \/ LaunchSaveStep(r, t), <1>1, <1>3, <1>4 DEF TaskStep, LaunchSaveStep

LEMMA FineEditStep ==
  ASSUME TypeOK, AllFine, EditsWait' => EditsWait, threw \subseteq threw', NEW e \in Edits, EditStep(e)
  PROVE  AllFine'
<1> USE DEF TypeOK, disk, run, work, edit, hist, WriteTmp, RenameTmp
<1>1. CASE EditRequest(e) \/ EditNotFound(e) \/ RenameEdit(e)
  <2>1. Fine(Absent, threw', EditsWait')
    BY FreshIsFine DEF Absent
  <2>2. Known(current') /\ Known(tmp') /\ UNCHANGED <<doc, mem, wdoc, edoc>>
    BY <1>1 DEF EditRequest, EditNotFound, RenameEdit, Known
  <2>3. QED
    BY <2>1, <2>2, StatesSpread DEF Known
<1>2. ASSUME NEW new, Caused(new, threw), epc'[e] \notin {"idle", "checked"}, UNCHANGED <<current, doc, mem, wdoc>>,
             tmp' \in {tmp, new}, \A f \in Edits : edoc'[f] \in {edoc[f], Absent, new}
      PROVE  AllFine'
  <2>1. ~EditsWait'
    BY <1>2 DEF EditsWait
  <2>2. Fine(new, threw', EditsWait')
    BY <1>2, <2>1 DEF Fine, Caused
  <2>3. QED
    BY <1>2, <2>2, StatesSpread DEF Known
<1>3. ASSUME NEW t \in Task, ReadRetry(e, t) \/ ReadSkip(e, t)
      PROVE  AllFine'
  <2>1. Caused(RetriedState(current, t), threw) /\ Caused([current EXCEPT !.task[t] = [status |-> "skipped", cause |-> 0]], threw)
    BY EditsAreCaused DEF AllFine, Fine
  <2>2. CASE ReadRetry(e, t)
    BY <1>2, <2>1, <2>2 DEF ReadRetry
  <2>3. CASE ReadSkip(e, t)
    BY <1>2, <2>1, <2>3 DEF ReadSkip
  <2>4. QED
    BY <1>3, <2>2, <2>3
<1>4. CASE WriteEdit(e)
  <2>1. Caused(edoc[e], threw)
    BY DEF AllFine
  <2>2. epc'[e] = "rename" /\ UNCHANGED <<current, doc, mem, wdoc>> /\ tmp' = edoc[e]
        /\ \A f \in Edits : edoc'[f] \in {edoc[f], Absent}
    BY <1>4 DEF WriteEdit
  <2>3. QED
    BY <1>2, <2>1, <2>2
<1>5. QED
  BY EditStep(e), <1>1, <1>3, <1>4 DEF EditStep

(* Until a retry or skip reads the state, a failure stops every task that   *)
(* waits on what it stopped, in every file, copy and memory of the run,     *)
(* and whatever is recorded as blocked is downstream of a task that failed  *)
(* (propagateBlock and _markTask of run-scheduler.js, the saves of           *)
(* run-store.js).                                                          *)
THEOREM FailureStops == Spec => []FailureBlocksDownstream
<1>1. Init => AllFine
  BY FreshIsFine DEF Init, AllFine, Absent, Fine
<1>2. TypeOK /\ AllFine /\ [Next]_vars => AllFine'
  <2> SUFFICES ASSUME TypeOK, AllFine, [Next]_vars PROVE AllFine'
    OBVIOUS
  <2>1. (EditsWait' => EditsWait) /\ threw \subseteq threw'
    BY EditsWaitOnce
  <2>2. Fine(Absent, threw', EditsWait')
    BY FreshIsFine DEF Absent
  <2>3. CASE UNCHANGED vars
    BY <2>1, <2>2, <2>3, StatesSpread DEF Known, vars, disk, run, work, edit, hist
  <2>4. CASE Restart
    <3>1. /\ UNCHANGED <<current, tmp>>
          /\ \A r \in Starts : doc'[r] = Absent /\ mem'[r] = Absent
          /\ \A r \in Starts, t \in Task : wdoc'[r][t] = Absent
          /\ \A e \in Edits : edoc'[e] = Absent
      BY <2>4 DEF Restart, disk
    <3>2. QED
      BY <2>1, <2>2, <3>1, StatesSpread DEF Known
  <2>5. QED
    BY <2>1, <2>3, <2>4, FineStartStep, FineTaskStep, FineEditStep DEF Next
<1>3. AllFine => FailureBlocksDownstream
  BY DEF AllFine, Fine, Caused, FailureBlocksDownstream, BlockedByFailure, EditsWait
<1>4. QED
  BY <1>1, <1>2, <1>3, TypeCorrect, PTL DEF Spec
-----------------------------------------------------------------------------
(* The orchestrator of the command line: its tasks are gated, its runs     *)
(* whole                                                                   *)

Ops == {"none", "create", "refine", "plan", "tasks", "run", "pull"} \cup APPROVAL_STAGES
Places == {"idle", "making", "describing", "first", "artifact", "save", "sync", "mirroring", "approving",
           "listing", "starting", "loop", "reading", "pulling", "pulled", "redrafting"}
RunFiles == [status : RUN_STATUSES \cup {"none"}, approvals : SUBSET APPROVAL_STAGES, bare : BOOLEAN,
             done : SUBSET Nat, lost : SUBSET Nat]
Counts == 0..MaxTasks
Works == [at : Places, op : Ops, spec : SpecTexts, plan : Counts, tasks : Counts, run : RunFiles]
Dirs == [made : BOOLEAN, meta : BOOLEAN, spec : SpecTexts, plan : Counts, tasks : Counts, run : RunFiles,
         granted : SUBSET APPROVAL_STAGES]
Mirrors == [spec : SpecTexts, plan : Counts, tasks : Counts]
Pasts == [calls : Nat, troubles : Nat, edited : BOOLEAN, rebatched : BOOLEAN, asked : BOOLEAN,
          tried : SUBSET Nat, again : SUBSET Nat, good : SUBSET Nat]

FilesTyped == call \in [Slots -> Works] /\ dir \in Dirs /\ mirror \in Mirrors /\ past \in Pasts

(* What a run file says was done has succeeded, whoever wrote it.          *)
Deserved(f) ==
  /\ f.done \subseteq past.good /\ f.lost \subseteq past.tried /\ f.done \cap f.lost = {}
  /\ "task_batch" \in f.approvals => past.asked
WorkOK(k) ==
  /\ Deserved(k.run)
  /\ k.at = "idle" => k = NoWork
  /\ k.at = "artifact" => k.op \in {"refine", "plan", "tasks"} /\ (k.op = "refine" => k.spec.notes < MaxNotes)
  /\ k.at = "approving" => k.op \in APPROVAL_STAGES
  /\ k.at \in {"starting", "loop"} => "task_batch" \in k.run.approvals
PastOK ==
  /\ past.good \subseteq past.tried /\ (past.tried # {} => past.asked)
  /\ \A n \in past.tried : Dependencies(n) \subseteq past.good
CallsOK == FilesTyped /\ (\A c \in Slots : WorkOK(call[c])) /\ Deserved(dir.run) /\ PastOK

(* What holds besides, of calls that come one after another.               *)
NoRunYet == dir.run = NoRunFile /\ dir.granted = {} /\ past.tried = {}
Founded == dir.made /\ dir.meta /\ dir.run.status # "none"
RunSettled ==
  /\ dir.granted = dir.run.approvals /\ dir.run.status # "running"
  /\ past.tried \subseteq dir.run.done \cup dir.run.lost
Mirrored == /\ mirror.plan = dir.plan /\ mirror.tasks = dir.tasks
            /\ mirror.spec = dir.spec \/ past.edited
Between == /\ dir.made => Founded
           /\ ~dir.made => NoRunYet
           /\ RunSettled /\ Mirrored
BatchKept ==
  /\ dir.run.status = "none" => NoRunYet
  /\ dir.run.status = "completed" => past.tried # {}
  /\ ~past.rebatched => /\ dir.run.done \cup dir.run.lost \subseteq 1..dir.tasks
                        /\ dir.run.status = "completed" => 1..dir.tasks \subseteq past.good
  /\ past.again = {} /\ ~dir.run.bare
HasTexts(k) == k.spec = dir.spec /\ k.plan = dir.plan /\ k.tasks = dir.tasks

(* Where a call stands, and what it knows of the files.                    *)
InCall(k) ==
  /\ k.at = "making" => NoRunYet
  /\ k.at \in {"describing", "first"} => NoRunYet /\ dir.made /\ HasTexts(k)
  /\ k.at = "first" => dir.meta
  /\ k.at \in {"artifact", "approving", "starting"} => Between /\ Founded /\ k.run = dir.run /\ HasTexts(k)
  /\ k.at = "starting" => k.tasks # 0
  /\ k.at \in {"save", "redrafting"} => k.run = dir.run
  /\ k.at \in {"save", "sync", "pulling", "pulled", "redrafting", "mirroring"} => Founded /\ RunSettled
  /\ k.at = "mirroring" => HasTexts(k)
  /\ k.at = "reading" => Between
  /\ k.at = "listing" => /\ Founded /\ Mirrored /\ k.run = dir.run /\ dir.run.status # "running"
                         /\ past.tried \subseteq dir.run.done \cup dir.run.lost
  /\ k.at = "loop" => /\ Founded /\ Mirrored /\ dir.granted = dir.run.approvals
                      /\ k.run.approvals = dir.run.approvals /\ ~k.run.bare
                      /\ k.tasks = dir.tasks /\ k.tasks # 0
                      /\ past.tried \subseteq k.run.done \cup k.run.lost
                      /\ ~past.rebatched => k.run.done \cup k.run.lost \subseteq 1..k.tasks

CallsAlone ==
  past.troubles = 0 =>
    /\ BatchKept
    /\ Resting = Slots => Between
    /\ \A c, d \in Slots : call[c] # NoWork /\ call[d] # NoWork => c = d
    /\ \A c \in Slots : InCall(call[c])

CallsInv == CallsOK /\ CallsAlone

LEMMA CallsInvGates == ASSUME CallsInv PROVE WorkflowIsGated
<1> USE WorkflowAssumption
<1>1. WorkflowTypeOK
  BY DEF CallsInv, CallsOK, FilesTyped, Dirs, Mirrors, RunFiles, Counts, WorkflowTypeOK
<1>2. TasksAreGated
  BY DEF CallsInv, CallsOK, PastOK, Deserved, TasksAreGated
<1>3. RunsAreWhole
  <2> SUFFICES ASSUME past.troubles = 0 PROVE
        /\ past.again = {} /\ ~dir.run.bare
        /\ Resting = Slots =>
             /\ dir.granted = dir.run.approvals /\ dir.run.status # "running"
             /\ dir.run.status = "completed" /\ ~past.rebatched => 1..dir.tasks \subseteq past.good
             /\ mirror.plan = dir.plan /\ mirror.tasks = dir.tasks
             /\ mirror.spec = dir.spec \/ past.edited
    BY DEF RunsAreWhole
  <2>1. BatchKept /\ (Resting = Slots => Between)
    BY DEF CallsInv, CallsAlone
  <2>2. QED
    BY <2>1 DEF BatchKept, Between, RunSettled, Mirrored
<1>4. QED
  BY <1>1, <1>2, <1>3 DEF WorkflowIsGated

LEMMA IdleWork == NoWork \in Works /\ NoWork.at = "idle" /\ NoWork.run = NoRunFile
<1>1. NoRunFile \in RunFiles
  BY DEF NoRunFile, RunFiles
<1>2. NoText \in SpecTexts
  BY WorkflowAssumption DEF NoText, SpecTexts
<1>3. QED
  BY <1>1, <1>2, WorkflowAssumption DEF NoWork, Works, Places, Ops, Counts

(* A step of the call c, which leaves the other calls where they are.      *)
LEMMA CallMoves ==
  ASSUME CallsInv, NEW c \in Slots, NEW k \in Works,
         call' = [call EXCEPT ![c] = k], call[c].at # "idle",
         WorkOK(k)', Deserved(dir.run)', PastOK',
         dir' \in Dirs, mirror' \in Mirrors, past' \in Pasts,
         past.good \subseteq past'.good, past.tried \subseteq past'.tried, past.asked => past'.asked,
         past'.troubles = past.troubles,
         past.troubles = 0 => BatchKept' /\ InCall(k)' /\ (k = NoWork => Between')
  PROVE  CallsInv'
<1>1. FilesTyped'
  BY DEF CallsInv, CallsOK, FilesTyped
<1>2. call'[c] = k /\ \A d \in Slots : d # c => call'[d] = call[d]
  BY DEF CallsInv, CallsOK, FilesTyped
<1>3. \A d \in Slots : WorkOK(call[d])
  BY DEF CallsInv, CallsOK
<1>4. \A d \in Slots : d # c => WorkOK(call[d])'
  BY <1>2, <1>3 DEF WorkOK, Deserved
<1>5. CallsOK'
  BY <1>1, <1>2, <1>4 DEF CallsOK
<1>6. CallsAlone'
  <2> SUFFICES ASSUME past.troubles = 0
               PROVE  /\ BatchKept' /\ (Resting' = Slots => Between')
                      /\ \A d, e \in Slots : call'[d] # NoWork /\ call'[e] # NoWork => d = e
                      /\ \A d \in Slots : InCall(call[d])'
    BY DEF CallsAlone
  <2>1. \A d \in Slots : d # c => call[d] = NoWork
    <3>1. call[c] # NoWork
      BY IdleWork
    <3>2. QED
      BY <3>1 DEF CallsInv, CallsAlone
  <2>2. \A d \in Slots : d # c => call'[d] = NoWork
    BY <1>2, <2>1
  <2>3. \A d, e \in Slots : call'[d] # NoWork /\ call'[e] # NoWork => d = e
    BY <2>2
  <2>4. Resting' = Slots => k = NoWork
    BY <1>2 DEF Resting
  <2>5. InCall(NoWork)'
    BY IdleWork DEF InCall
  <2>6. \A d \in Slots : InCall(call[d])'
    BY <1>2, <2>2, <2>5
  <2>7. QED
    BY <2>3, <2>4, <2>6
<1>7. QED
  BY <1>5, <1>6 DEF CallsInv

LEMMA CallGoes ==
  ASSUME CallsInv, NEW c \in Slots, NEW k \in Works,
         call' = [call EXCEPT ![c] = k], call[c].at # "idle",
         WorkOK(k), Deserved(dir'.run),
         dir' \in Dirs, mirror' \in Mirrors, past' \in Pasts,
         past'.good = past.good, past'.tried = past.tried, past'.asked = past.asked,
         past'.troubles = past.troubles,
         past.troubles = 0 => BatchKept' /\ InCall(k)' /\ (k = NoWork => Between')
  PROVE  CallsInv'
<1>1. WorkOK(k)' /\ Deserved(dir.run)'
  BY DEF WorkOK, Deserved
<1>2. PastOK'
  BY DEF CallsInv, CallsOK, PastOK
<1>3. QED
  BY <1>1, <1>2, CallMoves

LEMMA CallFacts ==
  ASSUME CallsInv, NEW c \in Slots
  PROVE  /\ call[c] \in Works /\ dir \in Dirs /\ mirror \in Mirrors /\ past \in Pasts
         /\ WorkOK(call[c]) /\ Deserved(dir.run) /\ PastOK
         /\ past.troubles = 0 => BatchKept /\ InCall(call[c])
  BY DEF CallsInv, CallsOK, FilesTyped, CallsAlone

LEMMA MakeStep == ASSUME CallsInv, NEW c \in Slots, MakeProject(c) PROVE CallsInv'
<1> PICK text : text = IF call[c].op = "create" THEN Template ELSE call[c].spec
  OBVIOUS
<1> PICK k : k = [call[c] EXCEPT !.at = "describing", !.plan = 0, !.tasks = 0, !.spec = text]
  OBVIOUS
<1>1. /\ call[c] \in Works /\ dir \in Dirs /\ mirror \in Mirrors /\ past \in Pasts
      /\ WorkOK(call[c]) /\ Deserved(dir.run)
      /\ past.troubles = 0 => BatchKept /\ InCall(call[c])
  BY CallFacts
<1>2. text \in SpecTexts /\ 0 \in Counts
  BY <1>1, WorkflowAssumption DEF Template, SpecTexts, Works, Counts
<1>3. k \in Works /\ k.at = "describing" /\ k.plan = 0 /\ k.tasks = 0 /\ k.run = call[c].run
  BY <1>1, <1>2 DEF Works, Places
<1>4. call' = [call EXCEPT ![c] = k] /\ call[c].at = "making"
  <2>1. call \in [Slots -> Works]
    BY DEF CallsInv, CallsOK, FilesTyped
  <2>2. call'[c] = k /\ \A d \in Slots : d # c => call'[d] = call[d]
    BY <1>1, <2>1 DEF MakeProject, Works
  <2>3. call' = [d \in Slots |-> call'[d]]
    BY <2>1 DEF MakeProject
  <2>4. call' = [call EXCEPT ![c] = k]
    BY <2>1, <2>2, <2>3
  <2>5. QED
    BY <2>4 DEF MakeProject
<1>5. dir' = [dir EXCEPT !.made = TRUE, !.spec = k.spec, !.plan = 0, !.tasks = 0] /\ mirror' = mirror /\ past' = past
  BY <1>4 DEF MakeProject, CallsInv, CallsOK, FilesTyped
<1>6. /\ dir' \in Dirs /\ dir'.run = dir.run /\ dir'.granted = dir.granted /\ dir'.made
      /\ dir'.plan = 0 /\ dir'.tasks = 0 /\ dir'.spec = k.spec
  BY <1>1, <1>3, <1>5, WorkflowAssumption DEF Dirs, Works, Counts
<1>7. WorkOK(k)
  BY <1>1, <1>3 DEF WorkOK
<1>8. past.troubles = 0 => BatchKept' /\ InCall(k)'
  <2> SUFFICES ASSUME past.troubles = 0 PROVE BatchKept' /\ InCall(k)'
    OBVIOUS
  <2>1. NoRunYet /\ BatchKept
    BY <1>1, <1>4 DEF InCall
  <2>2. NoRunYet'
    BY <1>5, <1>6, <2>1 DEF NoRunYet
  <2>3. BatchKept'
    BY <1>5, <1>6, <2>1, <2>2 DEF BatchKept, NoRunYet, NoRunFile
  <2>4. InCall(k)'
    BY <1>3, <1>6, <2>2 DEF InCall, HasTexts
  <2>5. QED
    BY <2>3, <2>4
<1>9. QED
  BY <1>1, <1>3, <1>4, <1>5, <1>6, <1>7, <1>8, IdleWork, CallGoes

LEMMA DescribeStep == ASSUME CallsInv, NEW c \in Slots, DescribeProject(c) PROVE CallsInv'
<1> PICK k : k = [call[c] EXCEPT !.at = "first"]
  OBVIOUS
<1>1. /\ call[c] \in Works /\ dir \in Dirs /\ mirror \in Mirrors /\ past \in Pasts
      /\ WorkOK(call[c]) /\ Deserved(dir.run)
      /\ past.troubles = 0 => BatchKept /\ InCall(call[c])
  BY CallFacts
<1>2. k \in Works /\ k.at = "first" /\ k.spec = call[c].spec /\ k.plan = call[c].plan /\ k.tasks = call[c].tasks /\ k.run = call[c].run
  BY <1>1 DEF Works, Places
<1>3. call' = [call EXCEPT ![c] = k] /\ call[c].at = "describing" /\ mirror' = mirror /\ past' = past
      /\ dir' = [dir EXCEPT !.meta = TRUE, !.granted = {}]
  BY DEF DescribeProject, Goto, CallsInv, CallsOK, FilesTyped, Works
<1>4. /\ dir' \in Dirs /\ dir'.meta /\ dir'.granted = {} /\ dir'.made = dir.made /\ dir'.run = dir.run
      /\ dir'.spec = dir.spec /\ dir'.plan = dir.plan /\ dir'.tasks = dir.tasks
  BY <1>1, <1>3 DEF Dirs
<1>5. WorkOK(k)
  BY <1>1, <1>2 DEF WorkOK
<1>6. past.troubles = 0 => BatchKept' /\ InCall(k)'
  <2> SUFFICES ASSUME past.troubles = 0 PROVE BatchKept' /\ InCall(k)'
    OBVIOUS
  <2>1. NoRunYet /\ dir.made /\ HasTexts(call[c]) /\ BatchKept
    BY <1>1, <1>3 DEF InCall
  <2>2. NoRunYet' /\ dir'.made /\ HasTexts(k)'
    BY <1>2, <1>3, <1>4, <2>1 DEF NoRunYet, HasTexts
  <2>3. BatchKept'
    BY <1>3, <1>4, <2>1, <2>2 DEF BatchKept
  <2>4. InCall(k)'
    BY <1>2, <1>4, <2>2 DEF InCall
  <2>5. QED
    BY <2>3, <2>4
<1>7. QED
  BY <1>1, <1>2, <1>3, <1>4, <1>5, <1>6, IdleWork, CallGoes

(* A call that only goes on to another place.                              *)
LEMMA GotoWork ==
  ASSUME CallsInv, NEW c \in Slots, NEW place \in Places, place # "idle", Goto(c, place)
  PROVE  \E k \in Works : /\ call' = [call EXCEPT ![c] = k] /\ k.at = place /\ k.op = call[c].op
                          /\ k.spec = call[c].spec /\ k.plan = call[c].plan /\ k.tasks = call[c].tasks
                          /\ k.run = call[c].run /\ k # NoWork
<1> PICK k : k = [call[c] EXCEPT !.at = place]
  OBVIOUS
<1>1. call \in [Slots -> Works] /\ call[c] \in Works
  BY DEF CallsInv, CallsOK, FilesTyped
<1>2. call' = [call EXCEPT ![c] = k]
  BY <1>1 DEF Goto
<1>3. k \in Works /\ k.at = place /\ k.op = call[c].op /\ k.spec = call[c].spec /\ k.plan = call[c].plan
      /\ k.tasks = call[c].tasks /\ k.run = call[c].run
  BY <1>1 DEF Works
<1>4. k # NoWork
  BY <1>3, IdleWork
<1>5. QED
  BY <1>2, <1>3, <1>4

LEMMA OverWork == ASSUME NEW c \in Slots, Over(c)
                  PROVE  call' = [call EXCEPT ![c] = NoWork] /\ NoWork \in Works
  BY IdleWork DEF Over

LEMMA NoWorkOK == NoWork.at = "idle" /\ WorkOK(NoWork) /\ InCall(NoWork)' /\ InCall(NoWork)
<1>1. Deserved(NoRunFile)
  BY DEF Deserved, NoRunFile
<1>2. QED
  BY <1>1, IdleWork DEF WorkOK, InCall

LEMMA FirstRunStep == ASSUME CallsInv, NEW c \in Slots, SaveFirstRun(c) PROVE CallsInv'
<1> PICK place : place = IF call[c].op = "create" THEN "mirroring" ELSE "pulled"
  OBVIOUS
<1>0. place \in Places /\ place # "idle" /\ place \in {"mirroring", "pulled"} /\ Goto(c, place)
  BY DEF SaveFirstRun, Places
<1> PICK k \in Works : /\ call' = [call EXCEPT ![c] = k] /\ k.at = place /\ k.op = call[c].op
                       /\ k.spec = call[c].spec /\ k.plan = call[c].plan /\ k.tasks = call[c].tasks
                       /\ k.run = call[c].run /\ k # NoWork
  BY <1>0, GotoWork
<1>1. /\ call[c] \in Works /\ dir \in Dirs /\ mirror \in Mirrors /\ past \in Pasts
      /\ WorkOK(call[c]) /\ Deserved(dir.run)
      /\ past.troubles = 0 => BatchKept /\ InCall(call[c])
  BY CallFacts
<1>2. /\ createRun \in RunFiles /\ createRun.status = "draft" /\ createRun.approvals = {}
      /\ createRun.done = {} /\ createRun.lost = {} /\ ~createRun.bare
  BY DEF createRun, NoRunFile, RunFiles, RUN_STATUSES
<1>3. call[c].at = "first" /\ mirror' = mirror /\ past' = past /\ dir' = [dir EXCEPT !.run = createRun]
  BY DEF SaveFirstRun
<1>4. /\ dir' \in Dirs /\ dir'.meta = dir.meta /\ dir'.granted = dir.granted /\ dir'.made = dir.made
      /\ dir'.run = createRun
      /\ dir'.spec = dir.spec /\ dir'.plan = dir.plan /\ dir'.tasks = dir.tasks
  BY <1>1, <1>2, <1>3 DEF Dirs
<1>5. WorkOK(k) /\ Deserved(dir'.run)
  BY <1>0, <1>1, <1>2, <1>4 DEF WorkOK, Deserved
<1>6. past.troubles = 0 => BatchKept' /\ InCall(k)'
  <2> SUFFICES ASSUME past.troubles = 0 PROVE BatchKept' /\ InCall(k)'
    OBVIOUS
  <2>1. NoRunYet /\ dir.made /\ dir.meta /\ HasTexts(call[c]) /\ BatchKept
    BY <1>1, <1>3 DEF InCall
  <2>2. Founded' /\ RunSettled' /\ HasTexts(k)'
    BY <1>2, <1>3, <1>4, <2>1 DEF NoRunYet, HasTexts, Founded, RunSettled
  <2>3. BatchKept'
    BY <1>2, <1>3, <1>4, <2>1 DEF BatchKept
  <2>4. InCall(k)'
    BY <1>0, <2>2 DEF InCall
  <2>5. QED
    BY <2>3, <2>4
<1>7. QED
  BY <1>1, <1>3, <1>4, <1>5, <1>6, CallGoes

LEMMA ArtifactStep == ASSUME CallsInv, NEW c \in Slots, SaveArtifact(c) PROVE CallsInv'
<1>0. Goto(c, "save") /\ "save" \in Places
  BY DEF SaveArtifact, Places
<1> PICK k \in Works : /\ call' = [call EXCEPT ![c] = k] /\ k.at = "save" /\ k.op = call[c].op
                       /\ k.spec = call[c].spec /\ k.plan = call[c].plan /\ k.tasks = call[c].tasks
                       /\ k.run = call[c].run /\ k # NoWork
  BY <1>0, GotoWork
<1>1. /\ call[c] \in Works /\ dir \in Dirs /\ mirror \in Mirrors /\ past \in Pasts
      /\ WorkOK(call[c]) /\ Deserved(dir.run) /\ PastOK
      /\ past.troubles = 0 => BatchKept /\ InCall(call[c])
  BY CallFacts
<1>2. /\ call[c].at = "artifact" /\ mirror' = mirror
      /\ past' = [past EXCEPT !.rebatched = @ \/ (call[c].op = "tasks" /\ past.tried # {})]
      /\ dir' = CASE call[c].op = "refine" -> [dir EXCEPT !.spec = Refined(call[c].spec)]
                  [] call[c].op = "plan" -> [dir EXCEPT !.plan = PhasesOf(call[c].spec)]
                  [] call[c].op = "tasks" -> [dir EXCEPT !.tasks = call[c].plan]
  BY DEF SaveArtifact
<1>3. call[c].op \in {"refine", "plan", "tasks"} /\ (call[c].op = "refine" => call[c].spec.notes < MaxNotes)
  BY <1>1, <1>2 DEF WorkOK
<1>4. /\ past' \in Pasts /\ past'.good = past.good /\ past'.tried = past.tried /\ past'.asked = past.asked
      /\ past'.troubles = past.troubles /\ past'.again = past.again
      /\ ~past'.rebatched => ~past.rebatched /\ (call[c].op = "tasks" => past.tried = {})
  BY <1>1, <1>2 DEF Pasts
<1>5. /\ dir' \in Dirs /\ dir'.meta = dir.meta /\ dir'.granted = dir.granted /\ dir'.made = dir.made
      /\ dir'.run = dir.run /\ (call[c].op # "tasks" => dir'.tasks = dir.tasks)
  <2>1. CASE call[c].op = "refine"
    <3>1. Refined(call[c].spec) \in SpecTexts
      BY <1>1, <1>3, <2>1, WorkflowAssumption DEF Refined, SpecTexts, Works
    <3>2. dir' = [dir EXCEPT !.spec = Refined(call[c].spec)]
      BY <1>2, <2>1
    <3>3. QED
      BY <1>1, <3>1, <3>2 DEF Dirs
  <2>2. CASE call[c].op = "plan"
    <3>1. PhasesOf(call[c].spec) \in Counts
      BY <1>1, WorkflowAssumption DEF PhasesOf, SpecTexts, Works, Counts
    <3>2. dir' = [dir EXCEPT !.plan = PhasesOf(call[c].spec)]
      BY <1>2, <2>2
    <3>3. QED
      BY <1>1, <3>1, <3>2 DEF Dirs
  <2>3. CASE call[c].op = "tasks"
    <3>1. call[c].plan \in Counts
      BY <1>1 DEF Works
    <3>2. dir' = [dir EXCEPT !.tasks = call[c].plan]
      BY <1>2, <2>3
    <3>3. QED
      BY <1>1, <2>3, <3>1, <3>2 DEF Dirs
  <2>4. QED
    BY <1>3, <2>1, <2>2, <2>3
<1>6. WorkOK(k) /\ Deserved(dir'.run)
  BY <1>1, <1>5 DEF WorkOK
<1>7. past.troubles = 0 => BatchKept' /\ InCall(k)'
  <2> SUFFICES ASSUME past.troubles = 0 PROVE BatchKept' /\ InCall(k)'
    OBVIOUS
  <2>1. BatchKept /\ Between /\ Founded /\ call[c].run = dir.run
    BY <1>1, <1>2 DEF InCall
  <2>2. Founded' /\ RunSettled'
    BY <1>4, <1>5, <2>1 DEF Founded, RunSettled, Between
  <2>3. BatchKept'
    <3>1. past.tried = {} => dir.run.done = {} /\ dir.run.lost = {} /\ dir.run.status # "completed"
      BY <1>1, <2>1 DEF Deserved, PastOK, BatchKept
    <3>2. CASE call[c].op = "tasks"
      BY <1>4, <1>5, <2>1, <2>2, <3>1, <3>2 DEF BatchKept, Founded
    <3>3. CASE call[c].op # "tasks"
      BY <1>4, <1>5, <2>1, <2>2, <3>3 DEF BatchKept, Founded
    <3>4. QED
      BY <3>2, <3>3
  <2>4. InCall(k)'
    BY <1>5, <2>1, <2>2 DEF InCall
  <2>5. QED
    BY <2>3, <2>4
<1>8. QED
  BY <1>1, <1>2, <1>4, <1>5, <1>6, <1>7, CallGoes

LEMMA SaveRunStep == ASSUME CallsInv, NEW c \in Slots, SaveRun(c) PROVE CallsInv'
<1>0. Goto(c, "sync") /\ "sync" \in Places
  BY DEF SaveRun, Places
<1> PICK k \in Works : /\ call' = [call EXCEPT ![c] = k] /\ k.at = "sync" /\ k.op = call[c].op
                       /\ k.spec = call[c].spec /\ k.plan = call[c].plan /\ k.tasks = call[c].tasks
                       /\ k.run = call[c].run /\ k # NoWork
  BY <1>0, GotoWork
<1>1. /\ call[c] \in Works /\ dir \in Dirs /\ mirror \in Mirrors /\ past \in Pasts
      /\ WorkOK(call[c]) /\ Deserved(dir.run) /\ PastOK
      /\ past.troubles = 0 => BatchKept /\ InCall(call[c])
  BY CallFacts
<1> PICK new : new = [call[c].run EXCEPT !.status = IF call[c].op = "refine" THEN "refined" ELSE "planned"]
  OBVIOUS
<1>2. /\ new \in RunFiles /\ new.approvals = call[c].run.approvals /\ new.bare = call[c].run.bare
      /\ new.done = call[c].run.done /\ new.lost = call[c].run.lost /\ new.status \notin {"none", "running", "completed"}
  BY <1>1 DEF Works, RunFiles, RUN_STATUSES
<1>3. call[c].at = "save" /\ mirror' = mirror /\ past' = past /\ dir' = [dir EXCEPT !.run = new]
  BY DEF SaveRun
<1>4. /\ dir' \in Dirs /\ dir'.meta = dir.meta /\ dir'.granted = dir.granted /\ dir'.made = dir.made
      /\ dir'.spec = dir.spec /\ dir'.plan = dir.plan /\ dir'.tasks = dir.tasks
      /\ dir'.run = new
  BY <1>1, <1>2, <1>3 DEF Dirs
<1>5. WorkOK(k) /\ Deserved(dir'.run)
  BY <1>1, <1>2, <1>4 DEF WorkOK, Deserved
<1>6. past.troubles = 0 => BatchKept' /\ InCall(k)'
  <2> SUFFICES ASSUME past.troubles = 0 PROVE BatchKept' /\ InCall(k)'
    OBVIOUS
  <2>1. BatchKept /\ Founded /\ RunSettled /\ call[c].run = dir.run
    BY <1>1, <1>3 DEF InCall
  <2>2. Founded' /\ RunSettled'
    <3>1. Founded'
      BY <1>2, <1>4, <2>1 DEF Founded
    <3>2. past'.tried = past.tried /\ dir'.run = new /\ dir'.granted = dir.granted
      BY <1>3, <1>4
    <3>3. RunSettled'
      BY <1>2, <2>1, <3>2 DEF RunSettled
    <3>4. QED
      BY <3>1, <3>3
  <2>3. BatchKept'
    BY <1>2, <1>3, <1>4, <2>1 DEF BatchKept
  <2>4. InCall(k)'
    BY <2>2 DEF InCall
  <2>5. QED
    BY <2>3, <2>4
<1>7. QED
  BY <1>1, <1>3, <1>4, <1>5, <1>6, CallGoes

LEMMA ReadTextsStep == ASSUME CallsInv, NEW c \in Slots, ReadForMirror(c) PROVE CallsInv'
<1> PICK k : k = [call[c] EXCEPT !.at = "mirroring", !.spec = dir.spec, !.plan = dir.plan, !.tasks = dir.tasks]
  OBVIOUS
<1>1. /\ call[c] \in Works /\ dir \in Dirs /\ mirror \in Mirrors /\ past \in Pasts
      /\ WorkOK(call[c]) /\ Deserved(dir.run) /\ PastOK
      /\ past.troubles = 0 => BatchKept /\ InCall(call[c])
  BY CallFacts
<1>2. k \in Works /\ k.at = "mirroring" /\ k.run = call[c].run /\ HasTexts(k) /\ k # NoWork
  BY <1>1, IdleWork DEF Works, Dirs, Places, HasTexts
<1>3. call' = [call EXCEPT ![c] = k] /\ call[c].at = "sync" /\ dir' = dir /\ mirror' = mirror /\ past' = past
  <2>1. call \in [Slots -> Works]
    BY DEF CallsInv, CallsOK, FilesTyped
  <2>2. call'[c] = k /\ \A d \in Slots : d # c => call'[d] = call[d]
    BY <1>1, <2>1 DEF ReadForMirror, Works
  <2>3. call' = [d \in Slots |-> call'[d]]
    BY <2>1 DEF ReadForMirror
  <2>4. QED
    BY <2>1, <2>2, <2>3 DEF ReadForMirror
<1>4. WorkOK(k)
  BY <1>1, <1>2 DEF WorkOK
<1>5. past.troubles = 0 => BatchKept' /\ InCall(k)'
  <2> SUFFICES ASSUME past.troubles = 0 PROVE BatchKept' /\ InCall(k)'
    OBVIOUS
  <2>1. BatchKept /\ Founded /\ RunSettled
    BY <1>1, <1>3 DEF InCall
  <2>2. BatchKept' /\ Founded' /\ RunSettled' /\ HasTexts(k)'
    BY <1>2, <1>3, <2>1 DEF BatchKept, NoRunYet, Founded, RunSettled, HasTexts
  <2>3. QED
    BY <1>2, <2>2 DEF InCall
<1>6. QED
  BY <1>1, <1>2, <1>3, <1>4, <1>5, CallGoes

LEMMA WriteMirrorStep == ASSUME CallsInv, NEW c \in Slots, WriteMirror(c) PROVE CallsInv'
<1>1. /\ call[c] \in Works /\ dir \in Dirs /\ mirror \in Mirrors /\ past \in Pasts
      /\ WorkOK(call[c]) /\ Deserved(dir.run) /\ PastOK
      /\ past.troubles = 0 => BatchKept /\ InCall(call[c])
  BY CallFacts
<1>2. /\ call' = [call EXCEPT ![c] = NoWork] /\ NoWork \in Works /\ call[c].at = "mirroring" /\ dir' = dir
      /\ mirror' = [spec |-> call[c].spec, plan |-> call[c].plan, tasks |-> call[c].tasks]
      /\ past' = [past EXCEPT !.edited = FALSE]
  BY OverWork DEF WriteMirror
<1>3. /\ past' \in Pasts /\ past'.good = past.good /\ past'.tried = past.tried /\ past'.asked = past.asked
      /\ past'.troubles = past.troubles /\ past'.again = past.again /\ past'.rebatched = past.rebatched
  BY <1>1, <1>2 DEF Pasts
<1>4. mirror' \in Mirrors
  BY <1>1, <1>2 DEF Mirrors, Works
<1>5. past.troubles = 0 => BatchKept' /\ Between'
  <2> SUFFICES ASSUME past.troubles = 0 PROVE BatchKept' /\ Between'
    OBVIOUS
  <2>1. BatchKept /\ Founded /\ RunSettled /\ HasTexts(call[c])
    BY <1>1, <1>2 DEF InCall
  <2>2. BatchKept' /\ Founded' /\ RunSettled'
    BY <1>2, <1>3, <2>1 DEF BatchKept, NoRunYet, Founded, RunSettled
  <2>3. Mirrored'
    BY <1>2, <2>1 DEF Mirrored, HasTexts
  <2>4. QED
    BY <2>2, <2>3 DEF Between, Founded
<1>6. QED
  BY <1>1, <1>2, <1>3, <1>4, <1>5, NoWorkOK, CallGoes

LEMMA ApproveStep == ASSUME CallsInv, NEW c \in Slots, SaveApproval(c) PROVE CallsInv'
<1> PICK new : new = ApprovedRun(c)
  OBVIOUS
<1> PICK k : k = [call[c] EXCEPT !.run = new, !.at = "listing"]
  OBVIOUS
<1>1. /\ call[c] \in Works /\ dir \in Dirs /\ mirror \in Mirrors /\ past \in Pasts
      /\ WorkOK(call[c]) /\ Deserved(dir.run) /\ PastOK
      /\ past.troubles = 0 => BatchKept /\ InCall(call[c])
  BY CallFacts
<1>2. call[c].at = "approving" /\ call[c].op \in APPROVAL_STAGES
  BY <1>1 DEF SaveApproval, WorkOK
<1>3. /\ new \in RunFiles /\ new.approvals = call[c].run.approvals \cup {call[c].op} /\ new.bare = call[c].run.bare
      /\ new.done = call[c].run.done /\ new.lost = call[c].run.lost
      /\ new.status = call[c].run.status \/ new.status = "approved_for_execution"
  BY <1>1, <1>2 DEF ApprovedRun, Works, RunFiles, RUN_STATUSES
<1>4. k \in Works /\ k.at = "listing" /\ k.run = new /\ k # NoWork
  BY <1>1, <1>3, IdleWork DEF Works, Places
<1>5. /\ mirror' = mirror /\ dir' = [dir EXCEPT !.run = new]
      /\ past' = [past EXCEPT !.asked = @ \/ call[c].op = "task_batch"]
  BY DEF SaveApproval
<1>6. call' = [call EXCEPT ![c] = k]
  <2>1. call \in [Slots -> Works]
    BY DEF CallsInv, CallsOK, FilesTyped
  <2>2. call'[c] = k /\ \A d \in Slots : d # c => call'[d] = call[d]
    BY <1>1, <2>1 DEF SaveApproval, Works
  <2>3. call' = [d \in Slots |-> call'[d]]
    BY <2>1 DEF SaveApproval
  <2>4. QED
    BY <2>1, <2>2, <2>3
<1>7. /\ dir' \in Dirs /\ dir'.meta = dir.meta /\ dir'.granted = dir.granted /\ dir'.made = dir.made
      /\ dir'.spec = dir.spec /\ dir'.plan = dir.plan /\ dir'.tasks = dir.tasks
      /\ dir'.run = new
  BY <1>1, <1>3, <1>5 DEF Dirs
<1>8. /\ past' \in Pasts /\ past'.good = past.good /\ past'.tried = past.tried
      /\ past'.troubles = past.troubles /\ past'.again = past.again /\ past'.rebatched = past.rebatched
      /\ past'.edited = past.edited /\ past'.asked = (past.asked \/ call[c].op = "task_batch")
  BY <1>1, <1>5 DEF Pasts
<1>9. Deserved(new)'
  <2>1. Deserved(call[c].run)
    BY <1>1 DEF WorkOK
  <2>2. QED
    BY <1>3, <1>8, <2>1 DEF Deserved
<1>10. WorkOK(k)' /\ Deserved(dir.run)' /\ PastOK'
  BY <1>1, <1>4, <1>7, <1>8, <1>9 DEF WorkOK, PastOK
<1>11. past.troubles = 0 => BatchKept' /\ InCall(k)'
  <2> SUFFICES ASSUME past.troubles = 0 PROVE BatchKept' /\ InCall(k)'
    OBVIOUS
  <2>1. BatchKept /\ Between /\ Founded /\ call[c].run = dir.run
    BY <1>1, <1>2 DEF InCall
  <2>2. /\ Founded' /\ Mirrored' /\ dir'.run.status # "running"
        /\ past'.tried \subseteq dir'.run.done \cup dir'.run.lost
    BY <1>3, <1>5, <1>7, <1>8, <2>1 DEF Founded, RunSettled, Mirrored, Between
  <2>3. BatchKept'
    BY <1>3, <1>7, <1>8, <2>1, <2>2 DEF BatchKept, Founded
  <2>4. InCall(k)'
    BY <1>4, <1>7, <2>2 DEF InCall
  <2>5. QED
    BY <2>3, <2>4
<1>12. past.asked => past'.asked
  BY <1>8
<1>13. QED
  BY <1>1, <1>2, <1>4, <1>5, <1>6, <1>7, <1>8, <1>10, <1>11, <1>12, CallMoves

LEMMA ListStep == ASSUME CallsInv, NEW c \in Slots, ListApprovals(c) PROVE CallsInv'
<1>1. /\ call[c] \in Works /\ dir \in Dirs /\ mirror \in Mirrors /\ past \in Pasts
      /\ WorkOK(call[c]) /\ Deserved(dir.run) /\ PastOK
      /\ past.troubles = 0 => BatchKept /\ InCall(call[c])
  BY CallFacts
<1>2. /\ call' = [call EXCEPT ![c] = NoWork] /\ NoWork \in Works /\ call[c].at = "listing"
      /\ dir' = [dir EXCEPT !.granted = call[c].run.approvals] /\ mirror' = mirror /\ past' = past
  BY OverWork DEF ListApprovals
<1>3. /\ dir' \in Dirs /\ dir'.meta = dir.meta /\ dir'.run = dir.run /\ dir'.made = dir.made
      /\ dir'.spec = dir.spec /\ dir'.plan = dir.plan /\ dir'.tasks = dir.tasks
      /\ dir'.granted = call[c].run.approvals
  BY <1>1, <1>2 DEF Dirs, Works, RunFiles
<1>4. past.troubles = 0 => BatchKept' /\ Between'
  <2> SUFFICES ASSUME past.troubles = 0 PROVE BatchKept' /\ Between'
    OBVIOUS
  <2>1. /\ BatchKept /\ Founded /\ Mirrored /\ call[c].run = dir.run /\ dir.run.status # "running"
        /\ past.tried \subseteq dir.run.done \cup dir.run.lost
    BY <1>1, <1>2 DEF InCall
  <2>2. Founded' /\ RunSettled' /\ Mirrored'
    BY <1>2, <1>3, <2>1 DEF Founded, RunSettled, Mirrored
  <2>3. BatchKept'
    BY <1>2, <1>3, <2>1 DEF BatchKept, Founded
  <2>4. QED
    BY <2>2, <2>3 DEF Between, Founded
<1>5. QED
  BY <1>1, <1>2, <1>3, <1>4, NoWorkOK, CallGoes

LEMMA RunningStep == ASSUME CallsInv, NEW c \in Slots, SaveRunning(c) PROVE CallsInv'
<1>0. Goto(c, "loop") /\ "loop" \in Places
  BY DEF SaveRunning, Places
<1> PICK k \in Works : /\ call' = [call EXCEPT ![c] = k] /\ k.at = "loop" /\ k.op = call[c].op
                       /\ k.spec = call[c].spec /\ k.plan = call[c].plan /\ k.tasks = call[c].tasks
                       /\ k.run = call[c].run /\ k # NoWork
  BY <1>0, GotoWork
<1>1. /\ call[c] \in Works /\ dir \in Dirs /\ mirror \in Mirrors /\ past \in Pasts
      /\ WorkOK(call[c]) /\ Deserved(dir.run) /\ PastOK
      /\ past.troubles = 0 => BatchKept /\ InCall(call[c])
  BY CallFacts
<1> PICK new : new = [call[c].run EXCEPT !.status = "running"]
  OBVIOUS
<1>2. /\ new \in RunFiles /\ new.approvals = call[c].run.approvals /\ new.bare = call[c].run.bare
      /\ new.done = call[c].run.done /\ new.lost = call[c].run.lost /\ new.status = "running"
  BY <1>1 DEF Works, RunFiles, RUN_STATUSES
<1>3. call[c].at = "starting" /\ mirror' = mirror /\ past' = past /\ dir' = [dir EXCEPT !.run = new]
  BY DEF SaveRunning
<1>4. /\ dir' \in Dirs /\ dir'.meta = dir.meta /\ dir'.granted = dir.granted /\ dir'.made = dir.made
      /\ dir'.spec = dir.spec /\ dir'.plan = dir.plan /\ dir'.tasks = dir.tasks
      /\ dir'.run = new
  BY <1>1, <1>2, <1>3 DEF Dirs
<1>5. WorkOK(k) /\ Deserved(dir'.run)
  BY <1>1, <1>2, <1>3, <1>4 DEF WorkOK, Deserved
<1>6. past.troubles = 0 => BatchKept' /\ InCall(k)'
  <2> SUFFICES ASSUME past.troubles = 0 PROVE BatchKept' /\ InCall(k)'
    OBVIOUS
  <2>1. BatchKept /\ Between /\ Founded /\ call[c].run = dir.run /\ HasTexts(call[c]) /\ call[c].tasks # 0
    BY <1>1, <1>3 DEF InCall
  <2>2. Founded' /\ Mirrored'
    BY <1>2, <1>3, <1>4, <2>1 DEF Founded, Mirrored, Between
  <2>3. BatchKept'
    BY <1>2, <1>3, <1>4, <2>1 DEF BatchKept
  <2>4. InCall(k)'
    <3>1. /\ dir'.granted = dir'.run.approvals /\ k.run.approvals = dir'.run.approvals
          /\ past'.tried \subseteq k.run.done \cup k.run.lost
      <4>1. dir.granted = dir.run.approvals /\ past.tried \subseteq dir.run.done \cup dir.run.lost
        BY <2>1 DEF Between, RunSettled
      <4>2. k.run = call[c].run /\ dir'.run = new /\ dir'.granted = dir.granted /\ past' = past
        BY <1>3, <1>4
      <4>3. QED
        BY <1>2, <2>1, <4>1, <4>2
    <3>2. /\ ~k.run.bare /\ k.tasks = dir'.tasks /\ k.tasks # 0
          /\ ~past'.rebatched => k.run.done \cup k.run.lost \subseteq 1..k.tasks
      BY <1>3, <1>4, <2>1 DEF HasTexts, BatchKept
    <3>3. QED
      BY <2>2, <3>1, <3>2 DEF InCall
  <2>5. QED
    BY <2>3, <2>4
<1>7. QED
  BY <1>1, <1>3, <1>4, <1>5, <1>6, CallGoes

(* A round of a run executes the tasks that are ready, none of them again. *)
LEMMA ExecuteStep == ASSUME CallsInv, NEW c \in Slots, ExecuteReady(c) PROVE CallsInv'
<1> PICK good \in SUBSET Ready(call[c]) :
      /\ call' = [call EXCEPT ![c].run.done = @ \cup good, ![c].run.lost = @ \cup (Ready(call[c]) \ good)]
      /\ past' = [past EXCEPT !.tried = @ \cup Ready(call[c]), !.again = @ \cup (Ready(call[c]) \cap past.tried),
                              !.good = @ \cup good]
  BY DEF ExecuteReady
<1> PICK R : R = Ready(call[c])
  OBVIOUS
<1> PICK f : f = [call[c].run EXCEPT !.done = @ \cup good, !.lost = @ \cup (R \ good)]
  OBVIOUS
<1> PICK k : k = [call[c] EXCEPT !.run = f]
  OBVIOUS
<1>1. /\ call[c] \in Works /\ dir \in Dirs /\ mirror \in Mirrors /\ past \in Pasts
      /\ WorkOK(call[c]) /\ Deserved(dir.run) /\ PastOK
      /\ past.troubles = 0 => BatchKept /\ InCall(call[c])
  BY CallFacts
<1>2. call[c].at = "loop" /\ dir' = dir /\ mirror' = mirror
  BY DEF ExecuteReady
<1>3. /\ R \subseteq 1..call[c].tasks /\ R \subseteq Nat /\ good \subseteq R
      /\ R \cap call[c].run.done = {} /\ R \cap call[c].run.lost = {}
      /\ \A n \in R : Dependencies(n) \subseteq call[c].run.done
  <2>1. call[c].tasks \in Nat
    BY <1>1, WorkflowAssumption DEF Works, Counts
  <2>2. \A n \in R : /\ n \in (1..call[c].tasks) \ (call[c].run.done \cup call[c].run.lost)
                     /\ Dependencies(n) \subseteq call[c].run.done
    BY Zenon DEF Ready
  <2>3. 1..call[c].tasks \subseteq Nat
    BY <2>1
  <2>4. R \cap call[c].run.done = {} /\ R \cap call[c].run.lost = {}
    BY <2>2
  <2>5. QED
    BY <2>2, <2>3, <2>4
<1>4. /\ f \in RunFiles /\ f.done = call[c].run.done \cup good /\ f.lost = call[c].run.lost \cup (R \ good)
      /\ f.status = call[c].run.status /\ f.approvals = call[c].run.approvals /\ f.bare = call[c].run.bare
  BY <1>1, <1>3 DEF Works, RunFiles
<1>5. k \in Works /\ k.at = "loop" /\ k.run = f /\ k.tasks = call[c].tasks /\ k # NoWork
  BY <1>1, <1>2, <1>4, IdleWork DEF Works
<1>6. call' = [call EXCEPT ![c] = k]
  <2>1. call \in [Slots -> Works]
    BY DEF CallsInv, CallsOK, FilesTyped
  <2>2. call'[c] = k /\ \A d \in Slots : d # c => call'[d] = call[d]
    BY <1>1, <2>1 DEF Works, RunFiles
  <2>3. call' = [d \in Slots |-> call'[d]]
    BY <2>1
  <2>4. QED
    BY <2>1, <2>2, <2>3
<1>7. /\ past' \in Pasts /\ past'.tried = past.tried \cup R /\ past'.again = past.again \cup (R \cap past.tried)
      /\ past'.good = past.good \cup good /\ past'.asked = past.asked
      /\ past'.troubles = past.troubles /\ past'.rebatched = past.rebatched /\ past'.edited = past.edited
  BY <1>1, <1>3 DEF Pasts
<1>8. Deserved(call[c].run) /\ "task_batch" \in call[c].run.approvals
  BY <1>1, <1>2 DEF WorkOK
<1>9. Deserved(f)'
  BY <1>3, <1>4, <1>7, <1>8 DEF Deserved
<1>10. WorkOK(k)' /\ Deserved(dir.run)'
  <2>1. WorkOK(k)'
    BY <1>4, <1>5, <1>8, <1>9 DEF WorkOK
  <2>2. Deserved(dir.run)'
    BY <1>1, <1>2, <1>7 DEF Deserved
  <2>3. QED
    BY <2>1, <2>2
<1>11. PastOK'
  <2>1. \A n \in past'.tried : Dependencies(n) \subseteq past'.good
    BY <1>1, <1>3, <1>7, <1>8 DEF PastOK, Deserved
  <2>2. past'.good \subseteq past'.tried /\ past'.asked
    BY <1>1, <1>3, <1>7, <1>8 DEF PastOK, Deserved
  <2>3. QED
    BY <2>1, <2>2 DEF PastOK
<1>12. past.troubles = 0 => BatchKept' /\ InCall(k)'
  <2> SUFFICES ASSUME past.troubles = 0 PROVE BatchKept' /\ InCall(k)'
    OBVIOUS
  <2>1. /\ BatchKept /\ Founded /\ Mirrored /\ dir.granted = dir.run.approvals
        /\ call[c].run.approvals = dir.run.approvals /\ ~call[c].run.bare
        /\ call[c].tasks = dir.tasks /\ call[c].tasks # 0
        /\ past.tried \subseteq call[c].run.done \cup call[c].run.lost
        /\ ~past.rebatched => call[c].run.done \cup call[c].run.lost \subseteq 1..call[c].tasks
    BY <1>1, <1>2 DEF InCall
  <2>2. R \cap past.tried = {}
    BY <1>3, <2>1
  <2>3. Founded' /\ Mirrored'
    BY <1>2, <1>7, <2>1 DEF Founded, Mirrored
  <2>4. BatchKept'
    BY <1>2, <1>7, <2>1, <2>2 DEF BatchKept, Founded
  <2>5. past'.tried \subseteq f.done \cup f.lost
    BY <1>3, <1>4, <1>7, <2>1
  <2>6. ~past'.rebatched => f.done \cup f.lost \subseteq 1..k.tasks
    BY <1>3, <1>4, <1>5, <1>7, <2>1
  <2>7. InCall(k)'
    BY <1>2, <1>4, <1>5, <2>1, <2>3, <2>5, <2>6 DEF InCall
  <2>8. QED
    BY <2>4, <2>7
<1>13. past.good \subseteq past'.good /\ past.tried \subseteq past'.tried /\ (past.asked => past'.asked)
  BY <1>7
<1>14. QED
  BY <1>1, <1>2, <1>5, <1>6, <1>7, <1>10, <1>11, <1>12, <1>13, CallMoves

(* A run that says completed did each task of its batch.                   *)
LEMMA CompletedIsWhole ==
  ASSUME NEW k \in Works, ~Unfinished(k), k.run.lost = {}
  PROVE  /\ k.tasks # 0 => k.run.done # {}
         /\ k.run.done \subseteq 1..k.tasks => k.run.done = 1..k.tasks
<1>1. k.tasks \in Nat
  BY WorkflowAssumption DEF Works, Counts
<1>2. Cardinality(k.run.lost) = 0
  BY FS_EmptySet
<1>3. k.tasks # 0 => k.run.done # {}
  <2> SUFFICES ASSUME k.run.done = {}, k.tasks # 0 PROVE FALSE
    OBVIOUS
  <2>1. Cardinality(k.run.done) = 0
    BY FS_EmptySet
  <2>2. QED
    BY <1>1, <1>2, <2>1 DEF Unfinished
<1>4. ASSUME k.run.done \subseteq 1..k.tasks PROVE k.run.done = 1..k.tasks
  <2>1. IsFiniteSet(1..k.tasks) /\ Cardinality(1..k.tasks) = k.tasks
    <3>1. \A n \in Nat : IsFiniteSet(1..n) /\ Cardinality(1..n) = IF 1 > n THEN 0 ELSE n - 1 + 1
      BY FS_Interval, SMTT(30)
    <3>2. \A n \in Nat : Cardinality(1..n) = n
      BY <3>1
    <3>3. QED
      BY <1>1, <3>1, <3>2
  <2>2. Cardinality(k.run.done) \in Nat /\ Cardinality(k.run.done) <= k.tasks
        /\ (Cardinality(k.run.done) = k.tasks => k.run.done = 1..k.tasks)
    BY <1>4, <2>1, FS_Subset, FS_CardinalityType
  <2>3. ~(Cardinality(k.run.done) < k.tasks)
    BY <1>2, <2>2 DEF Unfinished
  <2>4. QED
    BY <1>1, <2>2, <2>3
<1>5. QED
  BY <1>3, <1>4

LEMMA FinishRunStep == ASSUME CallsInv, NEW c \in Slots, FinishRun(c) PROVE CallsInv'
<1> PICK new : new = [call[c].run EXCEPT !.status = Outcome(call[c])]
  OBVIOUS
<1>1. /\ call[c] \in Works /\ dir \in Dirs /\ mirror \in Mirrors /\ past \in Pasts
      /\ WorkOK(call[c]) /\ Deserved(dir.run) /\ PastOK
      /\ past.troubles = 0 => BatchKept /\ InCall(call[c])
  BY CallFacts
<1>2. /\ new \in RunFiles /\ new.approvals = call[c].run.approvals /\ new.bare = call[c].run.bare
      /\ new.done = call[c].run.done /\ new.lost = call[c].run.lost
      /\ new.status \in {"blocked", "failed", "completed"}
      /\ new.status = "completed" => ~Unfinished(call[c]) /\ call[c].run.lost = {}
  BY <1>1 DEF Works, RunFiles, RUN_STATUSES, Outcome
<1>3. /\ call' = [call EXCEPT ![c] = NoWork] /\ NoWork \in Works /\ call[c].at = "loop"
      /\ dir' = [dir EXCEPT !.run = new] /\ mirror' = mirror /\ past' = past
  BY OverWork DEF FinishRun
<1>4. /\ dir' \in Dirs /\ dir'.meta = dir.meta /\ dir'.granted = dir.granted /\ dir'.made = dir.made
      /\ dir'.spec = dir.spec /\ dir'.plan = dir.plan /\ dir'.tasks = dir.tasks
      /\ dir'.run = new
  BY <1>1, <1>2, <1>3 DEF Dirs
<1>5. Deserved(dir'.run)
  BY <1>1, <1>2, <1>4 DEF WorkOK, Deserved
<1>6. past.troubles = 0 => BatchKept' /\ Between'
  <2> SUFFICES ASSUME past.troubles = 0 PROVE BatchKept' /\ Between'
    OBVIOUS
  <2>1. /\ BatchKept /\ Founded /\ Mirrored /\ dir.granted = dir.run.approvals
        /\ call[c].run.approvals = dir.run.approvals /\ ~call[c].run.bare
        /\ call[c].tasks = dir.tasks /\ call[c].tasks # 0
        /\ past.tried \subseteq call[c].run.done \cup call[c].run.lost
        /\ ~past.rebatched => call[c].run.done \cup call[c].run.lost \subseteq 1..call[c].tasks
    BY <1>1, <1>3 DEF InCall
  <2>2. Founded' /\ RunSettled' /\ Mirrored'
    <3>1. past'.tried = past.tried /\ dir'.run = new /\ dir'.granted = dir.granted
      BY <1>3, <1>4
    <3>2. RunSettled'
      BY <1>2, <2>1, <3>1 DEF RunSettled
    <3>3. QED
      BY <1>2, <1>3, <1>4, <2>1, <3>2 DEF Founded, Mirrored
  <2>3. new.status = "completed" =>
          past.tried # {} /\ (~past.rebatched => 1..dir.tasks \subseteq past.good)
    <3> SUFFICES ASSUME new.status = "completed"
                 PROVE  past.tried # {} /\ (~past.rebatched => 1..dir.tasks \subseteq past.good)
      OBVIOUS
    <3>1. ~Unfinished(call[c]) /\ call[c].run.lost = {}
      BY <1>2
    <3>2. /\ call[c].run.done # {}
          /\ call[c].run.done \subseteq 1..call[c].tasks => call[c].run.done = 1..call[c].tasks
      BY <1>1, <2>1, <3>1, CompletedIsWhole
    <3>3. call[c].run.done \subseteq past.good /\ past.good \subseteq past.tried
      BY <1>1 DEF WorkOK, Deserved, PastOK
    <3>4. QED
      BY <2>1, <3>1, <3>2, <3>3
  <2>4. BatchKept'
    <3>1. past' = past /\ dir'.run = new /\ dir'.tasks = dir.tasks /\ new.status # "none" /\ ~new.bare /\ past.again = {}
      BY <1>2, <1>3, <1>4, <2>1 DEF BatchKept
    <3>2. ~past.rebatched => new.done \cup new.lost \subseteq 1..dir.tasks
      BY <1>2, <2>1
    <3>3. QED
      BY <2>3, <3>1, <3>2 DEF BatchKept
  <2>5. QED
    BY <2>2, <2>4 DEF Between, Founded
<1>7. QED
  BY <1>1, <1>3, <1>4, <1>5, <1>6, NoWorkOK, CallGoes

LEMMA ReadMirrorStep == ASSUME CallsInv, NEW c \in Slots, ReadMirror(c) PROVE CallsInv'
<1>1. /\ call[c] \in Works /\ dir \in Dirs /\ mirror \in Mirrors /\ past \in Pasts
      /\ WorkOK(call[c]) /\ Deserved(dir.run) /\ PastOK
      /\ past.troubles = 0 => BatchKept /\ InCall(call[c])
  BY CallFacts
<1>2. call[c].at = "reading" /\ dir' = dir /\ mirror' = mirror /\ past' = past
  BY DEF ReadMirror
<1>3. past.troubles = 0 => BatchKept' /\ Between' /\ BatchKept /\ Between
  <2> SUFFICES ASSUME past.troubles = 0 PROVE BatchKept' /\ Between' /\ BatchKept /\ Between
    OBVIOUS
  <2>1. BatchKept /\ Between
    BY <1>1, <1>2 DEF InCall
  <2>2. QED
    BY <1>2, <2>1 DEF BatchKept, NoRunYet, Between, Founded, RunSettled, Mirrored
<1>4. CASE dir.made /\ ~dir.meta
  <2>1. call' = [call EXCEPT ![c] = NoWork] /\ NoWork \in Works
    BY <1>4, OverWork DEF ReadMirror
  <2>2. QED
    BY <1>1, <1>2, <1>3, <2>1, NoWorkOK, CallGoes
<1>5. CASE ~(dir.made /\ ~dir.meta)
  <2> PICK place : place = IF dir.made THEN "pulling" ELSE "making"
    OBVIOUS
  <2> PICK k : k = [call[c] EXCEPT !.spec = mirror.spec, !.at = place]
    OBVIOUS
  <2>1. k \in Works /\ k.at = place /\ k.run = call[c].run /\ place \in {"pulling", "making"} /\ k # NoWork
    BY <1>1, IdleWork DEF Works, Mirrors, Places
  <2>2. call' = [call EXCEPT ![c] = k]
    <3>1. call \in [Slots -> Works]
      BY DEF CallsInv, CallsOK, FilesTyped
    <3>2. call'[c] = k /\ \A d \in Slots : d # c => call'[d] = call[d]
      BY <1>1, <1>5, <3>1 DEF ReadMirror, Works
    <3>3. call' = [d \in Slots |-> call'[d]]
      BY <1>5, <3>1 DEF ReadMirror
    <3>4. QED
      BY <3>1, <3>2, <3>3
  <2>3. WorkOK(k)
    BY <1>1, <2>1 DEF WorkOK
  <2>4. past.troubles = 0 => InCall(k)'
    <3> SUFFICES ASSUME past.troubles = 0 PROVE InCall(k)'
      OBVIOUS
    <3>1. CASE dir.made
      BY <1>2, <1>3, <2>1, <3>1 DEF InCall, Between
    <3>2. CASE ~dir.made
      BY <1>2, <1>3, <2>1, <3>2 DEF InCall, Between
    <3>3. QED
      BY <3>1, <3>2
  <2>5. QED
    BY <1>1, <1>2, <1>3, <2>1, <2>2, <2>3, <2>4, CallGoes
<1>6. QED
  BY <1>4, <1>5

LEMMA SavePulledStep == ASSUME CallsInv, NEW c \in Slots, SavePulled(c) PROVE CallsInv'
<1>0. Goto(c, "pulled") /\ "pulled" \in Places
  BY DEF SavePulled, Places
<1> PICK k \in Works : /\ call' = [call EXCEPT ![c] = k] /\ k.at = "pulled" /\ k.op = call[c].op
                       /\ k.spec = call[c].spec /\ k.plan = call[c].plan /\ k.tasks = call[c].tasks
                       /\ k.run = call[c].run /\ k # NoWork
  BY <1>0, GotoWork
<1>1. /\ call[c] \in Works /\ dir \in Dirs /\ mirror \in Mirrors /\ past \in Pasts
      /\ WorkOK(call[c]) /\ Deserved(dir.run) /\ PastOK
      /\ past.troubles = 0 => BatchKept /\ InCall(call[c])
  BY CallFacts
<1>2. call[c].at = "pulling" /\ mirror' = mirror /\ past' = past /\ dir' = [dir EXCEPT !.spec = call[c].spec]
  BY DEF SavePulled
<1>3. /\ dir' \in Dirs /\ dir'.meta = dir.meta /\ dir'.granted = dir.granted /\ dir'.made = dir.made
      /\ dir'.plan = dir.plan /\ dir'.tasks = dir.tasks /\ dir'.run = dir.run
  BY <1>1, <1>2 DEF Dirs, Works
<1>4. WorkOK(k)
  BY <1>1 DEF WorkOK
<1>5. past.troubles = 0 => BatchKept' /\ InCall(k)'
  <2> SUFFICES ASSUME past.troubles = 0 PROVE BatchKept' /\ InCall(k)'
    OBVIOUS
  <2>1. BatchKept /\ Founded /\ RunSettled
    BY <1>1, <1>2 DEF InCall
  <2>2. BatchKept' /\ Founded' /\ RunSettled'
    BY <1>2, <1>3, <2>1 DEF BatchKept, NoRunYet, Founded, RunSettled
  <2>3. QED
    BY <2>2 DEF InCall
<1>6. QED
  BY <1>1, <1>2, <1>3, <1>4, <1>5, CallGoes

LEMMA ReadRunStep == ASSUME CallsInv, NEW c \in Slots, ReadToRedraft(c) PROVE CallsInv'
<1> PICK f : f = IF dir.run.status = "none" THEN [NoRunFile EXCEPT !.bare = TRUE] ELSE dir.run
  OBVIOUS
<1> PICK k : k = [call[c] EXCEPT !.at = "redrafting", !.run = f]
  OBVIOUS
<1>1. /\ call[c] \in Works /\ dir \in Dirs /\ mirror \in Mirrors /\ past \in Pasts
      /\ WorkOK(call[c]) /\ Deserved(dir.run) /\ PastOK
      /\ past.troubles = 0 => BatchKept /\ InCall(call[c])
  BY CallFacts
<1>2. f \in RunFiles /\ Deserved(f)
  <2>1. CASE dir.run.status = "none"
    <3>1. f = [NoRunFile EXCEPT !.bare = TRUE]
      BY <2>1
    <3>2. f \in RunFiles /\ f.done = {} /\ f.lost = {} /\ f.approvals = {}
      BY <3>1 DEF NoRunFile, RunFiles
    <3>3. QED
      BY <3>2 DEF Deserved
  <2>2. CASE dir.run.status # "none"
    BY <1>1, <2>2 DEF Dirs
  <2>3. QED
    BY <2>1, <2>2
<1>3. k \in Works /\ k.at = "redrafting" /\ k.run = f /\ k # NoWork
  BY <1>1, <1>2, IdleWork DEF Works, Places
<1>4. call[c].at = "pulled" /\ dir' = dir /\ mirror' = mirror /\ past' = past
  BY DEF ReadToRedraft
<1>5. call' = [call EXCEPT ![c] = k]
  <2>1. call \in [Slots -> Works]
    BY DEF CallsInv, CallsOK, FilesTyped
  <2>2. call'[c] = k /\ \A d \in Slots : d # c => call'[d] = call[d]
    BY <1>1, <2>1 DEF ReadToRedraft, Works
  <2>3. call' = [d \in Slots |-> call'[d]]
    BY <2>1 DEF ReadToRedraft
  <2>4. QED
    BY <2>1, <2>2, <2>3
<1>6. WorkOK(k)
  BY <1>1, <1>2, <1>3 DEF WorkOK
<1>7. past.troubles = 0 => BatchKept' /\ InCall(k)'
  <2> SUFFICES ASSUME past.troubles = 0 PROVE BatchKept' /\ InCall(k)'
    OBVIOUS
  <2>1. BatchKept /\ Founded /\ RunSettled
    BY <1>1, <1>4 DEF InCall
  <2>2. BatchKept' /\ Founded' /\ RunSettled' /\ f = dir'.run
    BY <1>4, <2>1 DEF BatchKept, NoRunYet, Founded, RunSettled
  <2>3. QED
    BY <1>3, <2>2 DEF InCall
<1>8. QED
  BY <1>1, <1>3, <1>4, <1>5, <1>6, <1>7, CallGoes

LEMMA RedraftStep == ASSUME CallsInv, NEW c \in Slots, Redraft(c) PROVE CallsInv'
<1>0. Goto(c, "sync") /\ "sync" \in Places
  BY DEF Redraft, Places
<1> PICK k \in Works : /\ call' = [call EXCEPT ![c] = k] /\ k.at = "sync" /\ k.op = call[c].op
                       /\ k.spec = call[c].spec /\ k.plan = call[c].plan /\ k.tasks = call[c].tasks
                       /\ k.run = call[c].run /\ k # NoWork
  BY <1>0, GotoWork
<1>1. /\ call[c] \in Works /\ dir \in Dirs /\ mirror \in Mirrors /\ past \in Pasts
      /\ WorkOK(call[c]) /\ Deserved(dir.run) /\ PastOK
      /\ past.troubles = 0 => BatchKept /\ InCall(call[c])
  BY CallFacts
<1> PICK new : new = [call[c].run EXCEPT !.status = "draft"]
  OBVIOUS
<1>2. /\ new \in RunFiles /\ new.approvals = call[c].run.approvals /\ new.bare = call[c].run.bare
      /\ new.done = call[c].run.done /\ new.lost = call[c].run.lost /\ new.status = "draft"
  BY <1>1 DEF Works, RunFiles, RUN_STATUSES
<1>3. call[c].at = "redrafting" /\ mirror' = mirror /\ past' = past /\ dir' = [dir EXCEPT !.run = new]
  BY DEF Redraft
<1>4. /\ dir' \in Dirs /\ dir'.meta = dir.meta /\ dir'.granted = dir.granted /\ dir'.made = dir.made
      /\ dir'.spec = dir.spec /\ dir'.plan = dir.plan /\ dir'.tasks = dir.tasks
      /\ dir'.run = new
  BY <1>1, <1>2, <1>3 DEF Dirs
<1>5. WorkOK(k) /\ Deserved(dir'.run)
  BY <1>1, <1>2, <1>4 DEF WorkOK, Deserved
<1>6. past.troubles = 0 => BatchKept' /\ InCall(k)'
  <2> SUFFICES ASSUME past.troubles = 0 PROVE BatchKept' /\ InCall(k)'
    OBVIOUS
  <2>1. BatchKept /\ Founded /\ RunSettled /\ call[c].run = dir.run
    BY <1>1, <1>3 DEF InCall
  <2>2. Founded' /\ RunSettled'
    <3>1. past'.tried = past.tried /\ dir'.run = new /\ dir'.granted = dir.granted
      BY <1>3, <1>4
    <3>2. RunSettled'
      BY <1>2, <2>1, <3>1 DEF RunSettled
    <3>3. QED
      BY <1>2, <1>4, <2>1, <3>2 DEF Founded
  <2>3. BatchKept'
    BY <1>2, <1>3, <1>4, <2>1 DEF BatchKept
  <2>4. InCall(k)'
    BY <2>2 DEF InCall
  <2>5. QED
    BY <2>3, <2>4
<1>7. QED
  BY <1>1, <1>3, <1>4, <1>5, <1>6, CallGoes

(* A call begins with what it reads of the files.                          *)
LEMMA BeginsStep ==
  ASSUME CallsInv, NEW c \in Slots, NEW op \in Ops, NEW place \in Places, NEW k,
         k = [at |-> place, op |-> op, spec |-> dir.spec, plan |-> dir.plan, tasks |-> dir.tasks,
              run |-> dir.run],
         Begin(c, op, place), WorkOK(k),
         Resting = Slots /\ BatchKept /\ Between => InCall(k)
  PROVE  CallsInv'
<1> PICK late : late = IF Resting = Slots THEN 0 ELSE 1
  OBVIOUS
<1>1. /\ call[c] \in Works /\ dir \in Dirs /\ mirror \in Mirrors /\ past \in Pasts
      /\ WorkOK(call[c]) /\ Deserved(dir.run) /\ PastOK
      /\ past.troubles = 0 => BatchKept /\ InCall(call[c])
  BY CallFacts
<1>2. k \in Works /\ k.at = place /\ k.run = dir.run
  BY <1>1 DEF Works, Dirs
<1>3. /\ call[c] = NoWork /\ call' = [call EXCEPT ![c] = k] /\ dir' = dir /\ mirror' = mirror
      /\ past' = [past EXCEPT !.calls = @ + 1, !.troubles = @ + late]
  BY DEF Begin
<1>4. late \in Nat /\ (late = 0 => Resting = Slots)
  OBVIOUS
<1>5. /\ past' \in Pasts /\ past'.troubles = past.troubles + late
      /\ past'.good = past.good /\ past'.tried = past.tried /\ past'.asked = past.asked
      /\ past'.again = past.again /\ past'.rebatched = past.rebatched /\ past'.edited = past.edited
  <2>1. past.calls + 1 \in Nat /\ past.troubles + late \in Nat
    BY <1>1, <1>4 DEF Pasts
  <2>2. \A m, n \in Nat : [past EXCEPT !.calls = m, !.troubles = n] \in Pasts
    BY <1>1 DEF Pasts
  <2>3. past' = [past EXCEPT !.calls = past.calls + 1, !.troubles = past.troubles + late]
    BY <1>3
  <2>4. past' \in Pasts
    BY <2>1, <2>2, <2>3
  <2>5. QED
    BY <1>1, <2>3, <2>4 DEF Pasts
<1>6. call'[c] = k /\ \A d \in Slots : d # c => call'[d] = call[d]
  BY <1>3 DEF CallsInv, CallsOK, FilesTyped
<1>7. CallsOK'
  <2>1. FilesTyped'
    BY <1>1, <1>2, <1>3, <1>5 DEF CallsInv, CallsOK, FilesTyped
  <2>2. \A d \in Slots : WorkOK(call[d])
    BY DEF CallsInv, CallsOK
  <2>3. \A d \in Slots : WorkOK(call[d])'
    <3> SUFFICES ASSUME NEW d \in Slots PROVE WorkOK(call[d])'
      OBVIOUS
    <3>1. CASE d = c
      BY <1>5, <1>6, <3>1 DEF WorkOK, Deserved
    <3>2. CASE d # c
      BY <1>5, <1>6, <2>2, <3>2 DEF WorkOK, Deserved
    <3>3. QED
      BY <3>1, <3>2
  <2>4. Deserved(dir.run)' /\ PastOK'
    BY <1>1, <1>3, <1>5 DEF Deserved, PastOK
  <2>5. QED
    BY <2>1, <2>3, <2>4 DEF CallsOK
<1>8. CallsAlone'
  <2> SUFFICES ASSUME past'.troubles = 0
               PROVE  /\ BatchKept' /\ (Resting' = Slots => Between')
                      /\ \A d, e \in Slots : call'[d] # NoWork /\ call'[e] # NoWork => d = e
                      /\ \A d \in Slots : InCall(call[d])'
    BY DEF CallsAlone
  <2>1. past.troubles = 0 /\ Resting = Slots
    <3>1. past.troubles \in Nat
      BY <1>1 DEF Pasts
    <3>2. QED
      BY <1>4, <1>5, <3>1
  <2>2. BatchKept /\ Between
    BY <2>1 DEF CallsInv, CallsAlone
  <2>3. BatchKept' /\ Between'
    BY <1>3, <1>5, <2>2 DEF BatchKept, Between, NoRunYet, Founded, RunSettled, Mirrored
  <2>4. \A d \in Slots : d # c => call'[d] = NoWork
    BY <1>6, <2>1 DEF Resting
  <2>5. InCall(k)
    BY <2>1, <2>2
  <2>6. InCall(k)'
    BY <1>3, <1>5, <2>5 DEF InCall, NoRunYet, Founded, RunSettled, Mirrored, Between, HasTexts
  <2>7. InCall(NoWork)'
    BY NoWorkOK
  <2>8. \A d \in Slots : InCall(call[d])'
    BY <1>6, <2>4, <2>6, <2>7
  <2>9. QED
    BY <2>3, <2>4, <2>8
<1>9. QED
  BY <1>7, <1>8 DEF CallsInv

LEMMA BeginsCall == ASSUME CallsInv, NEW c \in Slots, CallBegins(c) PROVE CallsInv'
<1>1. Deserved(dir.run) /\ dir \in Dirs
  BY CallFacts
<1> DEFINE K(op, place) == [at |-> place, op |-> op, spec |-> dir.spec, plan |-> dir.plan,
                            tasks |-> dir.tasks, run |-> dir.run]
<1>2. \A op, place : /\ K(op, place).at = place /\ K(op, place).op = op /\ K(op, place).spec = dir.spec
                     /\ K(op, place).plan = dir.plan /\ K(op, place).tasks = dir.tasks
                     /\ K(op, place).run = dir.run
  OBVIOUS
<1>3. Between /\ HasContext => Founded
  BY DEF Between, HasContext, NoRunYet, NoRunFile, Founded
<1> HIDE DEF K
<1>4. CASE CreateSpec(c)
  <2>1. Begin(c, "create", "making") /\ ~dir.made
    BY <1>4 DEF CreateSpec
  <2>2. WorkOK(K("create", "making"))
    BY <1>1, <1>2 DEF WorkOK
  <2>3. Between => InCall(K("create", "making"))
    BY <1>2, <2>1 DEF InCall, Between
  <2>4. QED
    BY <2>1, <2>2, <2>3, BeginsStep DEF K, Ops, Places
<1>5. CASE RefineSpec(c)
  <2>1. Begin(c, "refine", "artifact") /\ HasContext /\ dir.spec.notes < MaxNotes
    BY <1>5 DEF RefineSpec
  <2>2. WorkOK(K("refine", "artifact"))
    BY <1>1, <1>2, <2>1 DEF WorkOK
  <2>3. Between => InCall(K("refine", "artifact"))
    BY <1>2, <1>3, <2>1 DEF InCall, HasTexts
  <2>4. QED
    BY <2>1, <2>2, <2>3, BeginsStep DEF K, Ops, Places
<1>6. CASE GeneratePlan(c)
  <2>1. Begin(c, "plan", "artifact") /\ HasContext
    BY <1>6 DEF GeneratePlan
  <2>2. WorkOK(K("plan", "artifact"))
    BY <1>1, <1>2 DEF WorkOK
  <2>3. Between => InCall(K("plan", "artifact"))
    BY <1>2, <1>3, <2>1 DEF InCall, HasTexts
  <2>4. QED
    BY <2>1, <2>2, <2>3, BeginsStep DEF K, Ops, Places
<1>7. CASE GenerateTasks(c)
  <2>1. Begin(c, "tasks", "artifact") /\ HasContext
    BY <1>7 DEF GenerateTasks
  <2>2. WorkOK(K("tasks", "artifact"))
    BY <1>1, <1>2 DEF WorkOK
  <2>3. Between => InCall(K("tasks", "artifact"))
    BY <1>2, <1>3, <2>1 DEF InCall, HasTexts
  <2>4. QED
    BY <2>1, <2>2, <2>3, BeginsStep DEF K, Ops, Places
<1>8. ASSUME NEW stage \in APPROVAL_STAGES, Approve(c, stage) PROVE CallsInv'
  <2>1. Begin(c, stage, "approving") /\ dir.run.status # "none"
    BY <1>8 DEF Approve
  <2>2. WorkOK(K(stage, "approving"))
    BY <1>1, <1>2 DEF WorkOK
  <2>3. Between => InCall(K(stage, "approving"))
    <3>1. Between => Founded
      BY <2>1 DEF Between, NoRunYet, NoRunFile, Founded
    <3>2. QED
      BY <1>2, <3>1 DEF InCall, HasTexts
  <2>4. QED
    BY <2>1, <2>2, <2>3, BeginsStep DEF K, Ops, Places
<1>9. CASE StartRun(c)
  <2>1. Begin(c, "run", "starting") /\ HasContext /\ "task_batch" \in dir.run.approvals /\ dir.tasks # 0
    BY <1>9 DEF StartRun
  <2>2. WorkOK(K("run", "starting"))
    BY <1>1, <1>2, <2>1 DEF WorkOK
  <2>3. Between => InCall(K("run", "starting"))
    BY <1>2, <1>3, <2>1 DEF InCall, HasTexts
  <2>4. QED
    BY <2>1, <2>2, <2>3, BeginsStep DEF K, Ops, Places
<1>10. CASE PullSpec(c)
  <2>1. Begin(c, "pull", "reading")
    BY <1>10 DEF PullSpec
  <2>2. WorkOK(K("pull", "reading"))
    BY <1>1, <1>2 DEF WorkOK
  <2>3. Between => InCall(K("pull", "reading"))
    BY <1>2 DEF InCall
  <2>4. QED
    BY <2>1, <2>2, <2>3, BeginsStep DEF K, Ops, Places
<1>11. QED
  BY <1>4, <1>5, <1>6, <1>7, <1>8, <1>9, <1>10 DEF CallBegins

LEMMA GoesOnStep == ASSUME CallsInv, NEW c \in Slots, CallGoesOn(c) PROVE CallsInv'
  BY MakeStep, DescribeStep, FirstRunStep, ArtifactStep, SaveRunStep, ReadTextsStep, WriteMirrorStep,
     ApproveStep, ListStep, RunningStep, ExecuteStep, FinishRunStep, ReadMirrorStep, SavePulledStep,
     ReadRunStep, RedraftStep DEF CallGoesOn

(* Somebody edits the mirror, of which no call but a pull knows.           *)
LEMMA EditsMirror == ASSUME CallsInv, NEW n \in 1..MaxTasks, EditMirror(n) PROVE CallsInv'
<1> PICK text : text = [criteria |-> n, notes |-> 0]
  OBVIOUS
<1>1. /\ dir \in Dirs /\ mirror \in Mirrors /\ past \in Pasts /\ call \in [Slots -> Works]
      /\ Deserved(dir.run) /\ PastOK /\ \A c \in Slots : WorkOK(call[c])
  BY DEF CallsInv, CallsOK, FilesTyped
<1>2. /\ mirror' = [mirror EXCEPT !.spec = text] /\ past' = [past EXCEPT !.edited = TRUE]
      /\ call' = call /\ dir' = dir
  BY DEF EditMirror
<1>3. text \in SpecTexts
  BY WorkflowAssumption DEF SpecTexts
<1>4. mirror' \in Mirrors /\ mirror'.plan = mirror.plan /\ mirror'.tasks = mirror.tasks
  BY <1>1, <1>2, <1>3 DEF Mirrors
<1>5. /\ past' \in Pasts /\ past'.troubles = past.troubles /\ past'.edited
      /\ past'.good = past.good /\ past'.tried = past.tried /\ past'.asked = past.asked
      /\ past'.again = past.again /\ past'.rebatched = past.rebatched
  BY <1>1, <1>2 DEF Pasts
<1>6. CallsOK'
  BY <1>1, <1>2, <1>4, <1>5 DEF CallsOK, FilesTyped, PastOK, WorkOK, Deserved
<1>7. CallsAlone'
  <2> SUFFICES ASSUME past.troubles = 0 PROVE CallsAlone'
    BY <1>5 DEF CallsAlone
  <2>1. /\ BatchKept /\ (Resting = Slots => Between)
        /\ \A d, e \in Slots : call[d] # NoWork /\ call[e] # NoWork => d = e
        /\ \A d \in Slots : InCall(call[d])
    BY DEF CallsInv, CallsAlone
  <2>2. Mirrored => Mirrored'
    BY <1>2, <1>4, <1>5 DEF Mirrored
  <2>3. Between => Between'
    BY <1>2, <1>5, <2>2 DEF Between, Founded, NoRunYet, RunSettled
  <2>4. BatchKept' /\ (Resting = Slots)' = (Resting = Slots)
    BY <1>2, <1>5, <2>1 DEF BatchKept, NoRunYet, Resting
  <2>5. ASSUME NEW d \in Slots PROVE InCall(call[d])'
    <3>1. InCall(call[d]) /\ call'[d] = call[d]
      BY <1>2, <2>1
    <3>2. QED
      BY <1>2, <1>5, <2>2, <2>3, <3>1 DEF InCall, NoRunYet, Founded, RunSettled, HasTexts
  <2>6. QED
    BY <1>2, <2>1, <2>3, <2>4, <2>5 DEF CallsAlone
<1>8. QED
  BY <1>6, <1>7 DEF CallsInv

(* A death of the process ends every call and is a trouble.                *)
LEMMA CrashStep == ASSUME CallsInv, CrashOrchestrator PROVE CallsInv'
<1>1. /\ dir \in Dirs /\ mirror \in Mirrors /\ past \in Pasts /\ Deserved(dir.run) /\ PastOK
  BY DEF CallsInv, CallsOK, FilesTyped
<1>2. /\ call' = [c \in Slots |-> NoWork] /\ dir' = dir /\ mirror' = mirror
      /\ past' = [past EXCEPT !.troubles = @ + 1]
  BY DEF CrashOrchestrator
<1>3. /\ past' \in Pasts /\ past'.troubles # 0
      /\ past'.good = past.good /\ past'.tried = past.tried /\ past'.asked = past.asked
  BY <1>1, <1>2 DEF Pasts
<1>4. call' \in [Slots -> Works]
  BY <1>2, IdleWork
<1>5. \A c \in Slots : WorkOK(call[c])'
  <2>1. WorkOK(NoWork)'
    BY NoWorkOK, <1>3 DEF WorkOK, Deserved
  <2>2. QED
    BY <1>2, <2>1
<1>6. CallsOK'
  BY <1>1, <1>2, <1>3, <1>4, <1>5 DEF CallsOK, FilesTyped, PastOK, Deserved
<1>7. QED
  BY <1>3, <1>6 DEF CallsInv, CallsAlone

LEMMA CallsInitOK == WorkflowInit => CallsInv
<1> SUFFICES ASSUME WorkflowInit PROVE CallsInv
  OBVIOUS
<1>1. /\ past.calls = 0 /\ past.troubles = 0 /\ past.edited = FALSE /\ past.rebatched = FALSE /\ past.asked = FALSE
      /\ past.tried = {} /\ past.again = {} /\ past.good = {} /\ past \in Pasts
  BY DEF WorkflowInit, Pasts
<1>2. /\ NoRunFile \in RunFiles /\ NoRunFile.status = "none" /\ NoRunFile.approvals = {} /\ ~NoRunFile.bare
      /\ NoRunFile.done = {} /\ NoRunFile.lost = {}
  BY DEF NoRunFile, RunFiles
<1> PICK planned : planned = [createRun EXCEPT !.status = "planned"]
  OBVIOUS
<1>3. /\ planned \in RunFiles /\ planned.status = "planned" /\ planned.approvals = {} /\ ~planned.bare
      /\ planned.done = {} /\ planned.lost = {}
  <2>1. /\ createRun \in RunFiles /\ createRun.approvals = {} /\ ~createRun.bare
        /\ createRun.done = {} /\ createRun.lost = {}
    BY DEF createRun, NoRunFile, RunFiles, RUN_STATUSES
  <2>2. QED
    BY <2>1 DEF RunFiles, RUN_STATUSES
<1>4. NoText \in SpecTexts /\ Template \in SpecTexts /\ 0 \in Counts /\ MaxTasks \in Counts
  BY WorkflowAssumption DEF NoText, Template, SpecTexts, Counts
<1>5. \/ dir = [made |-> FALSE, meta |-> FALSE, spec |-> NoText, plan |-> 0, tasks |-> 0,
                run |-> NoRunFile, granted |-> {}]
      \/ dir = [made |-> TRUE, meta |-> TRUE, spec |-> Template, plan |-> MaxTasks,
                tasks |-> MaxTasks, run |-> planned, granted |-> {}]
  BY DEF WorkflowInit
<1>6. /\ dir \in Dirs /\ dir.granted = {}
      /\ \/ ~dir.made /\ dir.run = NoRunFile
         \/ dir.made /\ dir.meta /\ dir.run = planned
  <2> DEFINE none == [made |-> FALSE, meta |-> FALSE, spec |-> NoText, plan |-> 0, tasks |-> 0,
                      run |-> NoRunFile, granted |-> {}]
             some(f) == [made |-> TRUE, meta |-> TRUE, spec |-> Template, plan |-> MaxTasks,
                         tasks |-> MaxTasks, run |-> f, granted |-> {}]
  <2>1. none \in Dirs /\ none.granted = {} /\ ~none.made /\ none.run = NoRunFile
    BY <1>2, <1>4 DEF Dirs
  <2>2. ASSUME NEW f \in RunFiles
        PROVE  some(f) \in Dirs /\ some(f).granted = {} /\ some(f).made /\ some(f).meta /\ some(f).run = f
    BY <1>4 DEF Dirs
  <2>3. dir = none \/ dir = some(planned)
    BY <1>5
  <2> HIDE DEF none, some
  <2>4. QED
    BY <1>3, <2>1, <2>2, <2>3
<1>7. mirror = [spec |-> dir.spec, plan |-> dir.plan, tasks |-> dir.tasks] /\ call = [c \in Slots |-> NoWork]
  BY DEF WorkflowInit
<1>8. mirror \in Mirrors /\ call \in [Slots -> Works] /\ Mirrored
  BY <1>6, <1>7, IdleWork DEF Mirrors, Dirs, Mirrored
<1>9. /\ dir.run.approvals = {} /\ dir.run.done = {} /\ dir.run.lost = {} /\ ~dir.run.bare
      /\ dir.run.status \notin {"running", "completed"}
  BY <1>2, <1>3, <1>6
<1>10. CallsOK
  BY <1>1, <1>6, <1>7, <1>8, <1>9, NoWorkOK DEF CallsOK, FilesTyped, PastOK, Deserved
<1>11. Between /\ BatchKept
  <2>1. dir.made => Founded
    BY <1>3, <1>6 DEF Founded
  <2>2. ~dir.made => NoRunYet
    BY <1>1, <1>6 DEF NoRunYet
  <2>3. dir.run.status = "none" => ~dir.made
    BY <1>3, <1>6
  <2>4. QED
    BY <1>1, <1>6, <1>8, <1>9, <2>1, <2>2, <2>3 DEF Between, BatchKept, RunSettled
<1>12. QED
  BY <1>7, <1>10, <1>11, NoWorkOK DEF CallsInv, CallsAlone

(* Over overlapping calls and wherever the process dies, no task runs      *)
(* before a batch was approved or before what it depends on succeeded; and *)
(* calls that come one after another leave run.json, the approvals and the *)
(* mirror as the project is, and execute no task twice.                    *)
THEOREM RunsGated == WorkflowSpec => []WorkflowIsGated
<1>1. WorkflowInit => CallsInv
  BY CallsInitOK
<1>2. CallsInv /\ [WorkflowNext]_workflowVars => CallsInv'
  <2> SUFFICES ASSUME CallsInv, [WorkflowNext]_workflowVars PROVE CallsInv'
    OBVIOUS
  <2>1. CASE UNCHANGED workflowVars
    BY <2>1 DEF workflowVars, CallsInv, CallsOK, FilesTyped, WorkOK, Deserved, PastOK, CallsAlone,
                BatchKept, Resting, Between, NoRunYet, Founded, RunSettled, Mirrored, InCall, HasTexts
  <2>2. CASE WorkflowNext
    BY <2>2, BeginsCall, GoesOnStep, EditsMirror, CrashStep DEF WorkflowNext
  <2>3. QED
    BY <2>1, <2>2
<1>3. CallsInv => WorkflowIsGated
  BY CallsInvGates
<1>4. QED
  BY <1>1, <1>2, <1>3, PTL DEF WorkflowSpec

-----------------------------------------------------------------------------
(* RunPage: when all is answered the page shows what is stored             *)

TaskViews == [RunTasks -> TaskStates]
PageReads == [at : {"sent", "served"}, answer : TaskViews, late : BOOLEAN]
Progresses == [begun : SUBSET RunTasks, on : SUBSET RunTasks, unsaved : SUBSET RunTasks]
PageTyped == /\ saved \in TaskViews /\ launched \in Progresses /\ reads \in Seq(PageReads)
             /\ serverRun \in {"none", "running", "over"} /\ astray \in BOOLEAN

(* Nothing of a run goes on once the server has ended it, but for a save.  *)
ServerRests ==
  /\ serverRun # "running" => launched.on = {}
  /\ serverRun = "none" => launched.unsaved = {}
(* Either the page shows what is stored and every read under way is too    *)
(* old to be shown, or the youngest read will bring it.                    *)
AllLate(rs) == \A i \in 1..Len(rs) : rs[i].late
LastBrings(rs, tasks) ==
  /\ Len(rs) > 0 /\ ~rs[Len(rs)].late
  /\ rs[Len(rs)].at = "served" => rs[Len(rs)].answer = tasks
Caught ==
  ~astray /\ ~streaming =>
    serverRun # "running" /\ ((AllLate(reads) /\ shownTasks = saved) \/ LastBrings(reads, saved))
PageInv == PageTyped /\ ServerRests /\ Caught

(* A sequence without one of its elements.                                 *)
LEMMA Removed ==
  ASSUME NEW S, NEW s \in Seq(S), NEW i \in 1..Len(s)
  PROVE  /\ RemoveAt(s, i) \in Seq(S) /\ Len(RemoveAt(s, i)) = Len(s) - 1
         /\ \A j \in 1..(Len(s) - 1) : RemoveAt(s, i)[j] = IF j < i THEN s[j] ELSE s[j + 1]
<1>1. Len(s) \in Nat
  OBVIOUS
<1> DEFINE front == SubSeq(s, 1, i - 1)
           back == SubSeq(s, i + 1, Len(s))
<1>2. front \in Seq(S) /\ Len(front) = i - 1 /\ \A j \in 1..(i - 1) : front[j] = s[j]
  OBVIOUS
<1>3. back \in Seq(S) /\ Len(back) = Len(s) - i /\ \A j \in 1..(Len(s) - i) : back[j] = s[i + j]
  OBVIOUS
<1>4. RemoveAt(s, i) = front \o back
  BY DEF RemoveAt
<1> HIDE DEF front, back
<1>5. RemoveAt(s, i) \in Seq(S) /\ Len(RemoveAt(s, i)) = Len(s) - 1
  <2>1. \A u, v \in Seq(S) : u \o v \in Seq(S) /\ Len(u \o v) = Len(u) + Len(v)
    OBVIOUS
  <2>2. front \o back \in Seq(S) /\ Len(front \o back) = (i - 1) + (Len(s) - i)
    BY <1>2, <1>3, <2>1
  <2>3. QED
    BY <1>1, <1>4, <2>2
<1>6. ASSUME NEW j \in 1..(Len(s) - 1)
      PROVE  RemoveAt(s, i)[j] = IF j < i THEN s[j] ELSE s[j + 1]
  <2>1. CASE j < i
    BY <1>1, <1>2, <1>3, <1>4, <2>1
  <2>2. CASE ~(j < i)
    <3>1. (front \o back)[j] = back[j - (i - 1)]
      BY <1>1, <1>2, <1>3, <2>2
    <3>2. j - (i - 1) \in 1..(Len(s) - i) /\ i + (j - (i - 1)) = j + 1
      BY <1>1, <2>2
    <3>3. QED
      BY <1>3, <1>4, <2>2, <3>1, <3>2
  <2>3. QED
    BY <2>1, <2>2
<1>7. QED
  BY <1>5, <1>6

LEMMA PageInvSettles == PageInv => PageSettles
<1> SUFFICES ASSUME PageInv, ~astray, ~streaming, reads = <<>> PROVE shownTasks = saved
  BY DEF PageSettles
<1>1. Len(reads) = 0
  OBVIOUS
<1>2. QED
  BY <1>1 DEF PageInv, Caught, LastBrings

LEMMA FreshRead == NewRead \in PageReads /\ NewRead.at = "sent" /\ ~NewRead.late
  BY DEF NewRead, PageReads, TaskViews, TaskStates, Unread

(* The page asks for the status: that read will bring what is stored.      *)
LEMMA Refreshed ==
  ASSUME PageTyped, Refresh
  PROVE  reads' \in Seq(PageReads) /\ \A tasks : LastBrings(reads', tasks)
<1>1. reads \in Seq(PageReads) /\ reads' = Append(reads, NewRead)
  BY DEF PageTyped, Refresh
<1>2. reads' \in Seq(PageReads) /\ Len(reads') = Len(reads) + 1 /\ reads'[Len(reads) + 1] = NewRead
  BY <1>1, FreshRead
<1>3. QED
  BY <1>1, <1>2, FreshRead DEF LastBrings

(* The server's steps.                                                     *)
LEMMA ServerSteps ==
  ASSUME PageInv,
         \/ RunBegins \/ RunEnds
         \/ \E t \in RunTasks : TaskBegins(t) \/ StartIsSaved(t) \/ \E b \in SUBSET RunTasks : TaskEnds(t, b)
  PROVE  PageInv'
<1>1. PageTyped /\ ServerRests /\ Caught
  BY DEF PageInv
<1>2. CASE RunBegins
  <2>1. Nobodys \in TaskViews /\ NoTasks \in Progresses
    BY DEF Nobodys, TaskViews, TaskStates, NoTasks, Progresses
  <2>2. QED
    BY <1>1, <1>2, <2>1 DEF RunBegins, pageVars, PageInv, PageTyped, ServerRests, Caught
<1>3. CASE RunEnds
  BY <1>1, <1>3 DEF RunEnds, pageVars, PageInv, PageTyped, ServerRests, Caught
<1>4. ASSUME NEW t \in RunTasks, TaskBegins(t) PROVE PageInv'
  <2>1. launched' \in Progresses
    BY <1>1, <1>4 DEF TaskBegins, PageTyped, Progresses
  <2>2. QED
    BY <1>1, <1>4, <2>1 DEF TaskBegins, pageVars, PageInv, PageTyped, ServerRests, Caught
<1>5. ASSUME NEW t \in RunTasks, StartIsSaved(t) PROVE PageInv'
  <2>1. launched' \in Progresses /\ launched'.on = launched.on /\ t \in launched.unsaved
    BY <1>1, <1>5 DEF StartIsSaved, PageTyped, Progresses
  <2>2. saved' \in TaskViews
    BY <1>5 DEF StartIsSaved, TaskViews, TaskStates
  <2>3. serverRun # "none"
    BY <1>1, <2>1 DEF ServerRests
  <2>4. /\ serverRun' = serverRun /\ streaming' = streaming /\ reads' = reads
        /\ astray' = (astray \/ serverRun = "over")
    BY <1>5 DEF StartIsSaved
  <2>5. PageTyped' /\ ServerRests'
    BY <1>1, <2>1, <2>2, <2>3, <2>4 DEF PageTyped, ServerRests
  <2>6. Caught'
    BY <1>1, <2>3, <2>4 DEF PageTyped, Caught
  <2>7. QED
    BY <2>5, <2>6 DEF PageInv
<1>6. ASSUME NEW t \in RunTasks, NEW b \in SUBSET RunTasks, TaskEnds(t, b) PROVE PageInv'
  <2>1. launched' \in Progresses /\ launched'.on \subseteq launched.on /\ launched'.unsaved = launched.unsaved
    BY <1>1, <1>6 DEF TaskEnds, PageTyped, Progresses
  <2>2. saved' \in TaskViews
    <3>1. PICK s \in {"completed", "failed"} :
            saved' = [x \in RunTasks |-> IF x = t THEN s ELSE IF x \in b THEN "blocked" ELSE saved[x]]
      BY <1>6 DEF TaskEnds
    <3>2. QED
      BY <1>1, <3>1 DEF PageTyped, TaskViews, TaskStates
  <2>3. serverRun = "running"
    BY <1>1, <1>6 DEF TaskEnds, ServerRests
  <2>4. QED
    BY <1>1, <1>6, <2>1, <2>2, <2>3 DEF TaskEnds, pageVars, PageInv, PageTyped, ServerRests, Caught
<1>7. QED
  BY <1>2, <1>3, <1>4, <1>5, <1>6

LEMMA ServeReadStep == ASSUME PageInv, NEW i \in DOMAIN reads, ServeRead(i) PROVE PageInv'
<1> PICK r : r = [reads[i] EXCEPT !.at = "served", !.answer = saved]
  OBVIOUS
<1>1. PageTyped /\ ServerRests /\ Caught
  BY DEF PageInv
<1>2. reads \in Seq(PageReads) /\ i \in 1..Len(reads) /\ reads[i] \in PageReads /\ saved \in TaskViews
  BY <1>1 DEF PageTyped
<1>3. r \in PageReads /\ r.at = "served" /\ r.answer = saved /\ r.late = reads[i].late
  BY <1>2 DEF PageReads
<1>4. reads' = [reads EXCEPT ![i] = r]
  <2>1. \A j \in 1..Len(reads) : reads'[j] = IF j = i THEN r ELSE reads[j]
    BY <1>2 DEF ServeRead, PageReads
  <2>2. reads = [j \in 1..Len(reads) |-> reads[j]]
    BY <1>2
  <2>3. reads' = [j \in 1..Len(reads) |-> reads'[j]]
    BY <2>2 DEF ServeRead
  <2>4. QED
    BY <1>2, <2>1, <2>2, <2>3
<1>5. reads' \in Seq(PageReads) /\ Len(reads') = Len(reads)
      /\ \A j \in 1..Len(reads) : reads'[j] = IF j = i THEN r ELSE reads[j]
  BY <1>2, <1>3, <1>4
<1>6. UNCHANGED <<runServerVars, stream, shownTasks, starting, streaming, runs, astray>>
  BY DEF ServeRead
<1>7. PageTyped' /\ ServerRests'
  BY <1>1, <1>5, <1>6 DEF PageTyped, ServerRests, runServerVars
<1>8. AllLate(reads) => AllLate(reads')
  BY <1>3, <1>5 DEF AllLate
<1>9. LastBrings(reads, saved) => LastBrings(reads', saved)
  <2>1. Len(reads) \in Nat
    BY <1>2
  <2>2. QED
    <3>1. CASE i = Len(reads)
      <4>1. Len(reads) > 0 => reads'[Len(reads')] = r
        BY <1>2, <1>5, <2>1, <3>1
      <4>2. QED
        BY <1>3, <1>5, <3>1, <4>1 DEF LastBrings
    <3>2. CASE i # Len(reads)
      <4>1. Len(reads) > 0 => reads'[Len(reads')] = reads[Len(reads)]
        BY <1>5, <2>1, <3>2
      <4>2. QED
        BY <1>5, <4>1 DEF LastBrings
    <3>3. QED
      BY <3>1, <3>2
<1>10. Caught'
  BY <1>1, <1>6, <1>8, <1>9 DEF Caught, runServerVars
<1>11. QED
  BY <1>7, <1>10 DEF PageInv

LEMMA ShowReadStep == ASSUME PageInv, NEW i \in DOMAIN reads, ShowRead(i) PROVE PageInv'
<1>0. PICK marked : marked = [j \in DOMAIN reads |-> [reads[j] EXCEPT !.late = @ \/ j < i]]
  OBVIOUS
<1>1. PageTyped /\ ServerRests /\ Caught
  BY DEF PageInv
<1>2. reads \in Seq(PageReads) /\ i \in 1..Len(reads) /\ Len(reads) \in Nat /\ DOMAIN reads = 1..Len(reads)
  BY <1>1 DEF PageTyped
<1>3. \A j \in 1..Len(reads) : reads[j] \in PageReads
  BY <1>2
<1>4. \A j \in 1..Len(reads) : /\ marked[j] \in PageReads /\ marked[j].at = reads[j].at
                               /\ marked[j].answer = reads[j].answer
                               /\ marked[j].late = (reads[j].late \/ j < i)
  BY <1>0, <1>2, <1>3 DEF PageReads
<1>5. marked \in Seq(PageReads) /\ Len(marked) = Len(reads)
  <2>1. marked \in [1..Len(reads) -> PageReads]
    BY <1>0, <1>2, <1>4
  <2>2. QED
    BY <1>0, <1>2, <2>1
<1>6. /\ reads' = RemoveAt(marked, i) /\ shownTasks' = reads[i].answer /\ astray' = (astray \/ reads[i].late)
      /\ reads[i].at = "served" /\ UNCHANGED <<runServerVars, stream, starting, streaming, runs>>
  BY <1>0 DEF ShowRead
<1>7. reads' \in Seq(PageReads) /\ Len(reads') = Len(reads) - 1
      /\ \A j \in 1..(Len(reads) - 1) : reads'[j] = IF j < i THEN marked[j] ELSE marked[j + 1]
  <2>1. i \in 1..Len(marked)
    BY <1>2, <1>5
  <2>2. /\ RemoveAt(marked, i) \in Seq(PageReads) /\ Len(RemoveAt(marked, i)) = Len(marked) - 1
        /\ \A j \in 1..(Len(marked) - 1) : RemoveAt(marked, i)[j] = IF j < i THEN marked[j] ELSE marked[j + 1]
    BY <1>5, <2>1, Removed
  <2>3. QED
    BY <1>5, <1>6, <2>2
<1>8. PageTyped' /\ ServerRests'
  <2>1. reads[i].late \in BOOLEAN
    BY <1>2, <1>3 DEF PageReads
  <2>2. QED
    BY <1>1, <1>6, <1>7, <2>1 DEF PageTyped, ServerRests, runServerVars
<1>9. Caught'
  <2> SUFFICES ASSUME ~astray', ~streaming'
               PROVE  (AllLate(reads') /\ shownTasks' = saved) \/ LastBrings(reads', saved)
    BY <1>1, <1>6 DEF Caught, runServerVars
  <2>1. ~astray /\ ~reads[i].late /\ ~streaming
    BY <1>6
  <2>2. LastBrings(reads, saved)
    BY <1>1, <1>2, <2>1 DEF Caught, AllLate
  <2>3. CASE i = Len(reads)
    <3>1. shownTasks' = saved
      BY <1>6, <2>2, <2>3 DEF LastBrings
    <3>2. AllLate(reads')
      <4>1. \A j \in 1..(Len(reads) - 1) : reads'[j] = marked[j] /\ j \in 1..Len(reads) /\ j < i
        <5>1. \A n \in Nat : \A j \in 1..(n - 1) : j \in 1..n /\ j < n
          OBVIOUS
        <5>2. \A j \in 1..(Len(reads) - 1) : j \in 1..Len(reads) /\ j < i
          BY <1>2, <2>3, <5>1
        <5>3. QED
          BY <1>7, <5>2
      <4>2. \A j \in 1..(Len(reads) - 1) : marked[j].late
        <5> SUFFICES ASSUME NEW j \in 1..(Len(reads) - 1) PROVE marked[j].late
          OBVIOUS
        <5>1. j \in 1..Len(reads) /\ j < i
          BY <4>1
        <5>2. marked[j].late = (reads[j].late \/ j < i)
          BY <1>4, <5>1
        <5>3. QED
          BY <5>1, <5>2
      <4>3. \A j \in 1..Len(reads') : j \in 1..(Len(reads) - 1)
        BY <1>7
      <4>4. QED
        BY <4>1, <4>2, <4>3 DEF AllLate
    <3>3. QED
      BY <3>1, <3>2
  <2>4. CASE i # Len(reads)
    <3>1. Len(reads') > 0 /\ reads'[Len(reads')] = marked[Len(reads)]
      <4>1. Len(reads) - 1 \in 1..(Len(reads) - 1) /\ ~(Len(reads) - 1 < i) /\ (Len(reads) - 1) + 1 = Len(reads)
        BY <1>2, <2>4
      <4>2. reads'[Len(reads) - 1] = marked[(Len(reads) - 1) + 1]
        BY <1>7, <4>1
      <4>3. QED
        BY <1>2, <1>7, <4>1, <4>2
    <3>2. /\ marked[Len(reads)].late = reads[Len(reads)].late /\ marked[Len(reads)].at = reads[Len(reads)].at
          /\ marked[Len(reads)].answer = reads[Len(reads)].answer
      <4>1. reads[Len(reads)].late \in BOOLEAN /\ Len(reads) \in 1..Len(reads)
        BY <1>2, <1>3 DEF PageReads
      <4>2. ~(Len(reads) < i)
        BY <1>2
      <4>3. QED
        BY <1>4, <4>1, <4>2
    <3>3. QED
      BY <2>2, <3>1, <3>2 DEF LastBrings
  <2>5. QED
    BY <2>3, <2>4
<1>10. QED
  BY <1>8, <1>9 DEF PageInv

(* The other steps of the page.                                            *)
LEMMA PageSteps ==
  ASSUME PageInv,
         \/ PageStartsRun \/ HearRun \/ HearTask
         \/ \E i \in DOMAIN reads : ReadFails(i)
         \/ \E lost \in BOOLEAN : CloseStream(lost)
  PROVE  PageInv'
<1>1. PageTyped /\ ServerRests /\ Caught
  BY DEF PageInv
<1>2. CASE PageStartsRun
  BY <1>1, <1>2 DEF PageStartsRun, runServerVars, PageInv, PageTyped, ServerRests, Caught
<1>3. CASE HearRun
  <2>1. reads' \in Seq(PageReads)
    BY <1>1, <1>3, Refreshed DEF HearRun
  <2>2. QED
    BY <1>1, <1>3, <2>1 DEF HearRun, Streamed, runServerVars, PageInv, PageTyped, ServerRests, Caught
<1>4. CASE HearTask
  BY <1>1, <1>4 DEF HearTask, Streamed, runServerVars, PageInv, PageTyped, ServerRests, Caught
<1>5. ASSUME NEW i \in DOMAIN reads, ReadFails(i) PROVE PageInv'
  <2>1. reads' \in Seq(PageReads)
    <3>1. reads \in Seq(PageReads) /\ i \in 1..Len(reads)
      BY <1>1 DEF PageTyped
    <3>2. QED
      BY <1>5, <3>1, Removed DEF ReadFails
  <2>2. QED
    BY <1>1, <1>5, <2>1 DEF ReadFails, runServerVars, PageInv, PageTyped, ServerRests, Caught
<1>6. ASSUME NEW lost \in BOOLEAN, CloseStream(lost) PROVE PageInv'
  <2>1. reads' \in Seq(PageReads) /\ LastBrings(reads', saved)
    BY <1>1, <1>6, Refreshed DEF CloseStream
  <2>2. UNCHANGED <<runServerVars, shownTasks, runs>> /\ (~astray' => ~lost)
    BY <1>6 DEF CloseStream
  <2>3. astray' \in BOOLEAN /\ (~astray' => serverRun = "over")
    BY <1>1, <1>6 DEF CloseStream, PageTyped
  <2>4. QED
    BY <1>1, <2>1, <2>2, <2>3 DEF runServerVars, PageInv, PageTyped, ServerRests, Caught
<1>7. QED
  BY <1>2, <1>3, <1>4, <1>5, <1>6

LEMMA PageInitOK == RunPageInit => PageInv
<1> SUFFICES ASSUME RunPageInit PROVE PageInv
  OBVIOUS
<1>1. reads = <<NewRead>> /\ saved = Unread /\ launched = NoTasks /\ serverRun = "none" /\ astray = FALSE
  BY DEF RunPageInit
<1>2. saved \in TaskViews /\ launched \in Progresses /\ launched.on = {} /\ launched.unsaved = {}
  BY <1>1 DEF Unread, TaskViews, TaskStates, NoTasks, Progresses
<1>3. reads \in Seq(PageReads) /\ Len(reads) = 1 /\ reads[1] = NewRead
  BY <1>1, FreshRead
<1>4. LastBrings(reads, saved)
  BY <1>3, FreshRead DEF LastBrings
<1>5. QED
  BY <1>1, <1>2, <1>3, <1>4 DEF PageInv, PageTyped, ServerRests, Caught

(* Whatever the order in which events, reads and their answers reach the   *)
(* page, once all is answered it shows what is in run/current.json.        *)
THEOREM PageCatchesUp == RunPageSpec => []PageSettles
<1>1. RunPageInit => PageInv
  BY PageInitOK
<1>2. PageInv /\ [RunPageNext]_runPageVars => PageInv'
  <2> SUFFICES ASSUME PageInv, [RunPageNext]_runPageVars PROVE PageInv'
    OBVIOUS
  <2>1. CASE UNCHANGED runPageVars
    BY <2>1 DEF runPageVars, runServerVars, pageVars, PageInv, PageTyped, ServerRests, Caught
  <2>2. CASE RunPageNext
    <3>1. ASSUME NEW i \in DOMAIN reads, ServeRead(i) \/ ShowRead(i) \/ ReadFails(i) PROVE PageInv'
      BY <3>1, ServeReadStep, ShowReadStep, PageSteps
    <3>2. QED
      BY <2>2, <3>1, ServerSteps, PageSteps DEF RunPageNext
  <2>3. QED
    BY <2>1, <2>2
<1>3. PageInv => PageSettles
  BY PageInvSettles
<1>4. QED
  BY <1>1, <1>2, <1>3, PTL DEF RunPageSpec

-----------------------------------------------------------------------------
(* ProjectExtensions: what is recorded, what is registered, what is there   *)

Busy == {"resolving", "cloned", "elsewhere", "adding"}    \* an installation has slugs to do
ToDo(i) == {Wanted[i][n] : n \in job[i].todo}

JobRecords ==
  [at : {"idle", "resolving", "cloned", "elsewhere", "adding", "cli", "folder", "registry", "deregister",
         "writing", "truncated", "over"},
   todo : SUBSET Nat, snap : [Exts -> Records], from : Sources, seen : SUBSET Exts]

(* Where a request may be, and what it needs there.                        *)
JobsFit ==
  /\ \A i \in ExtInstalls :
       /\ job[i].at \in Busy \cup {"idle", "writing", "truncated", "over"}
       /\ job[i].todo \subseteq DOMAIN Wanted[i] /\ (job[i].at \in Busy => job[i].todo # {})
       /\ JobAt(i, "adding") => job[i].from \in {"org", "local", "community"}
  /\ \A r \in ExtRemovals :
       job[r].at \in {"idle", "cli", "folder", "registry", "deregister", "writing", "truncated", "over"}

(* A slug whose record is "installed" is registered and has a folder.      *)
Agrees(e, status) == (status = "installed" <=> e \in Entries) /\ (e \in Entries => folder[e] # "none")

(* Of the requests that are active, at most one is about the slug; it knows *)
(* what holds of it, or will; and without one the manifest does.           *)
SlugInv(e) ==
  /\ \A j, k \in Jobs : Active(j) /\ Active(k) /\ e \in About(j) /\ e \in About(k) => j = k
  /\ \A i \in ExtInstalls : Active(i) /\ e \in About(i) =>
       Agrees(e, job[i].snap[e]) /\ (e \in ToDo(i) => job[i].snap[e] # "installed")
  /\ \A r \in ExtRemovals : Active(r) /\ e = RemovalOf[r] =>
       job[r].snap[e] = "none" /\ (job[r].at \in {"writing", "truncated"} => e \notin Entries)
  /\ (\A j \in Jobs : Active(j) => e \notin About(j)) => Agrees(e, records[e])

(* The organisation's row was missing when the slug was looked for elsewhere. *)
RowlessIsTrue ==
  \A i \in ExtInstalls :
    /\ JobAt(i, "resolving") /\ ~HasRow(Current(i)) => i \in rowless
    /\ JobAt(i, "elsewhere") => i \in rowless
    /\ JobAt(i, "adding") /\ job[i].from # "org" => i \in rowless

ExtInv ==
  /\ ProjectExtTypeOK /\ job \in [Jobs -> JobRecords] /\ JobsFit /\ RowlessIsTrue
  /\ \A e \in Exts \ disturbed : SlugInv(e)

LEMMA MinLemma == ASSUME NEW S \in SUBSET Nat, S # {} PROVE Min(S) \in S
<1>1. S \subseteq Nat /\ S # {}
  OBVIOUS
<1>2. PICK m \in S : \A n \in S : <<n, m>> \notin OpToRel(<, Nat)
  BY <1>1, NatLessThanWellFounded, WFMin, Zenon
<1>3. \A n \in S : m =< n
  <2> TAKE n \in S
  <2>1. m \in Nat /\ n \in Nat /\ ~(n < m)
    BY <1>1, <1>2 DEF OpToRel
  <2>2. QED
    BY <2>1
<1>4. QED
  BY <1>3 DEF Min

LEMMA WantedLemma ==
  ASSUME NEW i \in ExtInstalls, NEW n \in DOMAIN Wanted[i]
  PROVE  n \in Nat /\ Wanted[i][n] \in Exts /\ Wanted[i][n] \in About(i)
<1>1. Wanted[i] \in Seq(Exts) /\ i \notin ExtRemovals
  BY ProjectExtAssumption
<1>2. QED
  BY <1>1 DEF About

(* The slug an installation is busy with is one of those it has to do, and  *)
(* comes once.                                                             *)
LEMMA CurrentLemma ==
  ASSUME ProjectExtTypeOK, JobsFit, NEW i \in ExtInstalls, job[i].todo # {}
  PROVE  /\ Min(job[i].todo) \in job[i].todo /\ Current(i) = Wanted[i][Min(job[i].todo)]
         /\ Current(i) \in ToDo(i) /\ Current(i) \in Exts /\ Current(i) \in About(i)
         /\ \A n \in job[i].todo \ {Min(job[i].todo)} : Wanted[i][n] # Current(i)
<1>1. Min(job[i].todo) \in job[i].todo /\ job[i].todo \subseteq DOMAIN Wanted[i] /\ i \notin ExtRemovals
  BY MinLemma, ProjectExtAssumption DEF ProjectExtTypeOK, Jobs, JobsFit
<1>2. Current(i) = Wanted[i][Min(job[i].todo)]
  BY <1>1 DEF Current
<1>3. QED
  BY <1>1, <1>2, WantedLemma, ProjectExtAssumption DEF ToDo

LEMMA RemovalLemma ==
  ASSUME NEW r \in ExtRemovals
  PROVE  r \in Jobs /\ r \notin ExtInstalls /\ About(r) = {RemovalOf[r]} /\ RemovalOf[r] \in Exts /\ Current(r) = RemovalOf[r]
  BY ProjectExtAssumption DEF About, Current, Jobs

(* A slug that a step leaves alone stays as it was.                        *)
LEMMA SlugKept ==
  ASSUME NEW e \in Exts, SlugInv(e), records'[e] = records[e],
         e \in Entries' <=> e \in Entries, folder[e] # "none" => folder'[e] # "none",
         \A k \in Jobs : e \in About(k) =>
           /\ Active(k)' <=> Active(k)
           /\ job'[k].snap[e] = job[k].snap[e]
           /\ k \in ExtInstalls => (e \in ToDo(k)' => e \in ToDo(k))
           /\ k \in ExtRemovals => (job'[k].at \in {"writing", "truncated"} =>
                                      job[k].at \in {"writing", "truncated"} \/ e \notin Entries)
  PROVE  SlugInv(e)'
<1>1. \A k \in Jobs : About(k)' = About(k)
  BY DEF About
<1>2. \A r \in ExtRemovals : r \in Jobs /\ About(r) = {RemovalOf[r]}
  BY RemovalLemma
<1>3. \A i \in ExtInstalls : i \in Jobs
  BY DEF Jobs
<1>4. (\A j, k \in Jobs : Active(j) /\ Active(k) /\ e \in About(j) /\ e \in About(k) => j = k)'
  BY <1>1 DEF SlugInv
<1>5. \A i \in ExtInstalls : Active(i)' /\ e \in About(i) =>
        Agrees(e, job[i].snap[e])' /\ (e \in ToDo(i)' => job'[i].snap[e] # "installed")
  BY <1>3 DEF SlugInv, Agrees
<1>6. \A r \in ExtRemovals : Active(r)' /\ e = RemovalOf[r] =>
        job'[r].snap[e] = "none" /\ (job'[r].at \in {"writing", "truncated"} => e \notin Entries')
  BY <1>2 DEF SlugInv
<1>7. ((\A j \in Jobs : Active(j) => e \notin About(j)) => Agrees(e, records[e]))'
  BY <1>1 DEF SlugInv, Agrees
<1>8. QED
  BY <1>1, <1>4, <1>5, <1>6, <1>7 DEF SlugInv

(* One request goes on, with the same slugs to do and the same manifest.   *)
Goes(j, place) ==
  /\ job' \in [Jobs -> JobRecords] /\ job'[j].at = place
  /\ job'[j].todo = job[j].todo /\ job'[j].snap = job[j].snap /\ \A k \in Jobs \ {j} : job'[k] = job[k]

LEMMA GoesLemma ==
  ASSUME job \in [Jobs -> JobRecords], NEW j \in Jobs,
         NEW place \in {"cloned", "elsewhere", "adding", "folder", "registry", "deregister", "writing", "truncated", "over"},
         JobTo(j, place)
  PROVE  Goes(j, place) /\ job'[j].from = job[j].from
<1>1. job' = [job EXCEPT ![j] = [job[j] EXCEPT !.at = place]]
  BY DEF JobTo
<1>2. [job[j] EXCEPT !.at = place] \in JobRecords /\ job[j] \in JobRecords
  BY DEF JobRecords
<1>3. job' \in [Jobs -> JobRecords] /\ job'[j] = [job[j] EXCEPT !.at = place] /\ \A k \in Jobs \ {j} : job'[k] = job[k]
  BY <1>1, <1>2
<1>4. QED
  BY <1>2, <1>3 DEF Goes, JobRecords

LEMMA AboutLemma == ASSUME NEW j \in Jobs PROVE About(j) \subseteq Exts
<1>1. CASE j \in ExtRemovals
  BY <1>1, RemovalLemma
<1>2. CASE j \notin ExtRemovals
  BY <1>2, ProjectExtAssumption DEF About, Jobs
<1>3. QED
  BY <1>1, <1>2

LEMMA TypeLemma ==
  ASSUME (job \in [Jobs -> JobRecords])', (orgExt \in [Exts -> {"none", "claimed", "there", "dropped"}])',
         (folder \in [Exts -> Sources])', (entries \in {NoRegistry} \cup SUBSET Exts)',
         (records \in [Exts -> Records])', unreadable' \in BOOLEAN, rowless' \subseteq ExtInstalls, disturbed' \subseteq Exts
  PROVE  ProjectExtTypeOK'
<1>1. \A j \in Jobs : job'[j] \in JobRecords
  OBVIOUS
<1>2. QED
  BY <1>1 DEF ProjectExtTypeOK, JobRecords

LEMMA OrgExtStepLemma == ASSUME ExtInv, NEW e \in SharedExts, OrgExtStep(e) PROVE ExtInv'
<1> USE DEF ExtInv
<1>1. /\ orgExt' \in [Exts -> {"none", "claimed", "there", "dropped"}] /\ \A x \in Exts : x # e => orgExt'[x] = orgExt[x]
      /\ e \in Exts /\ UNCHANGED <<diskVars, job, disturbed>>
  BY ProjectExtAssumption DEF OrgExtStep, ProjectExtTypeOK
<1>2. /\ rowless' \subseteq ExtInstalls /\ rowless \subseteq rowless'
      /\ ~HasRow(e)' => \A i \in ExtInstalls : job[i].at \in Busy /\ Current(i) = e => i \in rowless'
  BY DEF OrgExtStep, ProjectExtTypeOK, Busy
<1>3. ProjectExtTypeOK' /\ JobsFit' /\ (job \in [Jobs -> JobRecords])'
  BY <1>1, <1>2 DEF ProjectExtTypeOK, diskVars, JobsFit, JobAt
<1>4. RowlessIsTrue'
  <2>1. ASSUME NEW i \in ExtInstalls, JobAt(i, "resolving"), ~HasRow(Current(i))' PROVE i \in rowless'
    <3>1. Current(i) \in Exts /\ Current(i)' = Current(i) /\ job[i].at \in Busy
      BY <1>1, <2>1, CurrentLemma DEF JobsFit, JobAt, Busy, Current
    <3>2. CASE Current(i) = e
      BY <1>2, <2>1, <3>1, <3>2
    <3>3. CASE Current(i) # e
      BY <1>1, <1>2, <2>1, <3>1, <3>3 DEF RowlessIsTrue, HasRow
    <3>4. QED
      BY <3>2, <3>3
  <2>2. QED
    BY <1>1, <1>2, <2>1 DEF RowlessIsTrue, JobAt
<1>5. \A x \in Exts \ disturbed' : SlugInv(x)'
  BY <1>1 DEF SlugInv, diskVars, Agrees, Entries, About, ToDo, Active
<1>6. QED
  BY <1>3, <1>4, <1>5

LEMMA BeginInstallStep == ASSUME ExtInv, NEW i \in ExtInstalls, BeginInstall(i) PROVE ExtInv'
<1> USE DEF ExtInv
<1> DEFINE todo == {n \in DOMAIN Wanted[i] : records[Wanted[i][n]] # "installed"}
<1>1. i \in Jobs /\ i \notin ExtRemovals /\ JobAt(i, "idle") /\ ~Active(i) /\ UNCHANGED <<orgExt, diskVars>>
  BY ProjectExtAssumption DEF BeginInstall, Jobs, JobAt, Active
<1>2. CASE unreadable \/ todo = {}
  <2>1. Goes(i, "over") /\ UNCHANGED <<rowless, disturbed>>
    BY <1>1, <1>2, GoesLemma DEF BeginInstall
  <2>2. /\ job' \in [Jobs -> JobRecords] /\ job'[i].at = "over" /\ job'[i].todo = job[i].todo /\ job'[i].snap = job[i].snap
        /\ \A k \in Jobs \ {i} : job'[k] = job[k]
    BY <2>1 DEF Goes
  <2>3. ProjectExtTypeOK'
    BY <1>1, <2>1, <2>2, TypeLemma DEF ProjectExtTypeOK, diskVars
  <2>4. JobsFit'
    BY <1>1, <2>2 DEF JobsFit, JobAt, Jobs, Busy
  <2>5. RowlessIsTrue'
    BY <1>1, <2>1, <2>2 DEF RowlessIsTrue, JobAt, HasRow, Current, Jobs
  <2>6. \A e \in Exts \ disturbed' : SlugInv(e)'
    BY <1>1, <2>1, <2>2, SlugKept DEF diskVars, Active, JobAt, ToDo, Entries
  <2>7. QED
    BY <2>2, <2>3, <2>4, <2>5, <2>6
<1>3. CASE ~(unreadable \/ todo = {})
  <2> DEFINE new == [job[i] EXCEPT !.at = "resolving", !.todo = todo, !.snap = records]
  <2>1. /\ job' = [job EXCEPT ![i] = new] /\ disturbed' = disturbed \cup Rivals(i)
        /\ rowless' = (IF HasRow(Wanted[i][Min(todo)]) THEN rowless ELSE rowless \cup {i})
    BY <1>3 DEF BeginInstall
  <2>2. todo \in SUBSET Nat /\ todo \subseteq DOMAIN Wanted[i] /\ todo # {}
    BY <1>3, WantedLemma
  <2>3. new \in JobRecords /\ new.at = "resolving" /\ new.todo = todo /\ new.snap = records
    <3>1. job[i] \in JobRecords /\ records \in [Exts -> Records]
      BY <1>1 DEF JobRecords, ProjectExtTypeOK
    <3> HIDE DEF todo
    <3>2. QED
      BY <2>2, <3>1 DEF JobRecords
  <2>4. \A n \in todo : records[Wanted[i][n]] # "installed"
    OBVIOUS
  <2> HIDE DEF new, todo
  <2>5. job' \in [Jobs -> JobRecords] /\ job'[i] = new /\ \A k \in Jobs \ {i} : job'[k] = job[k]
    BY <1>1, <2>1, <2>3
  <2>6. Rivals(i) \subseteq Exts /\ rowless' \subseteq ExtInstalls /\ rowless \subseteq rowless'
    BY <1>1, <2>1, AboutLemma DEF Rivals, ProjectExtTypeOK
  <2>7. ProjectExtTypeOK'
    BY <1>1, <2>1, <2>5, <2>6, TypeLemma DEF ProjectExtTypeOK, diskVars
  <2>8. JobsFit'
    BY <1>1, <2>2, <2>3, <2>5 DEF JobsFit, JobAt, Jobs, Busy
  <2>9. RowlessIsTrue'
    <3>1. ~HasRow(Current(i))' => i \in rowless'
      BY <1>1, <2>1, <2>3, <2>5 DEF HasRow, Current
    <3>2. ASSUME NEW k \in ExtInstalls, k # i
          PROVE  /\ JobAt(k, "resolving")' /\ ~HasRow(Current(k))' => k \in rowless'
                 /\ JobAt(k, "elsewhere")' => k \in rowless'
                 /\ JobAt(k, "adding")' /\ job'[k].from # "org" => k \in rowless'
      BY <1>1, <2>5, <2>6, <3>2 DEF RowlessIsTrue, JobAt, HasRow, Current, Jobs
    <3>3. QED
      BY <2>3, <2>5, <3>1, <3>2 DEF RowlessIsTrue, JobAt
  <2>10. ASSUME NEW e \in Exts \ disturbed' PROVE SlugInv(e)'
    <3>1. SlugInv(e) /\ e \notin Rivals(i) /\ e \in Exts
      BY <2>1
    <3>2. CASE e \in About(i)
      <4>1. \A k \in Jobs : Active(k) => e \notin About(k)
        BY <1>1, <3>1, <3>2 DEF Rivals
      <4>2. Agrees(e, records[e])
        BY <3>1, <4>1 DEF SlugInv
      <4>3. Agrees(e, records[e])' /\ Agrees(e, job[i].snap[e])'
        BY <1>1, <2>3, <2>5, <4>2 DEF Agrees, diskVars, Entries
      <4>4. e \in ToDo(i)' => job'[i].snap[e] # "installed"
        BY <2>3, <2>4, <2>5 DEF ToDo
      <4>5. \A k \in Jobs : Active(k)' /\ e \in About(k) => k = i
        BY <2>5, <4>1 DEF Active
      <4>6. /\ \A k \in ExtInstalls : k \in Jobs
            /\ \A r \in ExtRemovals : r \in Jobs /\ r # i /\ About(r) = {RemovalOf[r]}
        BY <1>1, RemovalLemma DEF Jobs
      <4>7. \A k \in Jobs : About(k)' = About(k)
        BY DEF About
      <4>8. QED
        BY <3>2, <4>3, <4>4, <4>5, <4>6, <4>7 DEF SlugInv
    <3>3. CASE e \notin About(i)
      BY <1>1, <2>5, <3>1, <3>3, SlugKept DEF diskVars, Active, ToDo, Entries
    <3>4. QED
      BY <3>2, <3>3
  <2>11. QED
    BY <2>5, <2>7, <2>8, <2>9, <2>10
<1>4. QED
  BY <1>2, <1>3

(* An installation finds out where the slug comes from.                    *)
LEMMA ResolveStep ==
  ASSUME ExtInv, NEW i \in ExtInstalls,
         LookUpOrg(i) \/ ResolveElsewhere(i) \/ (CheckClone(i) /\ HasClone(Current(i)))
  PROVE  ExtInv'
<1> USE DEF ExtInv
<1>1. i \in Jobs /\ i \notin ExtRemovals /\ job[i] \in JobRecords
  BY ProjectExtAssumption DEF Jobs
<1>2. UNCHANGED <<orgExt, diskVars, rowless, disturbed>> /\ job[i].at \in Busy
  BY DEF LookUpOrg, ResolveElsewhere, CheckClone, JobAt, Busy
<1>3. PICK new \in JobRecords :
        /\ job' = [job EXCEPT ![i] = new] /\ new.todo = job[i].todo /\ new.snap = job[i].snap
        /\ \/ JobAt(i, "resolving") /\ new.at = (IF HasRow(Current(i)) THEN "cloned" ELSE "elsewhere")
           \/ JobAt(i, "elsewhere") /\ new.at = "adding" /\ new.from \in {"org", "local", "community"}
           \/ new.at = "adding" /\ new.from = "org"
  <2>1. CASE LookUpOrg(i)
    <3> DEFINE place == IF HasRow(Current(i)) THEN "cloned" ELSE "elsewhere"
    <3> DEFINE new == [job[i] EXCEPT !.at = place]
    <3>1. job' = [job EXCEPT ![i] = new] /\ JobAt(i, "resolving")
      BY <2>1 DEF LookUpOrg, JobTo
    <3>2. place \in {"cloned", "elsewhere"}
      OBVIOUS
    <3>3. place = (IF HasRow(Current(i)) THEN "cloned" ELSE "elsewhere")
      OBVIOUS
    <3> HIDE DEF place
    <3>4. new \in JobRecords /\ new.todo = job[i].todo /\ new.snap = job[i].snap /\ new.at = place
      BY <1>1, <3>2 DEF JobRecords
    <3>5. QED
      BY <3>1, <3>3, <3>4
  <2>2. CASE ResolveElsewhere(i)
    <3> DEFINE source == IF Current(i) \in LocalExts THEN "local" ELSE "community"
    <3> DEFINE new == [job[i] EXCEPT !.at = "adding", !.from = source]
    <3>1. job' = [job EXCEPT ![i] = new] /\ JobAt(i, "elsewhere")
      BY <1>1, <2>2 DEF ResolveElsewhere
    <3>2. source \in {"local", "community"}
      OBVIOUS
    <3> HIDE DEF source
    <3>3. new \in JobRecords /\ new.todo = job[i].todo /\ new.snap = job[i].snap /\ new.at = "adding" /\ new.from = source
      BY <1>1, <3>2 DEF JobRecords, Sources
    <3>4. QED
      BY <3>1, <3>2, <3>3
  <2>3. CASE CheckClone(i) /\ HasClone(Current(i))
    <3> DEFINE new == [job[i] EXCEPT !.at = "adding", !.from = "org"]
    <3>1. job' = [job EXCEPT ![i] = new]
      BY <1>1, <2>3 DEF CheckClone
    <3>2. new \in JobRecords /\ new.todo = job[i].todo /\ new.snap = job[i].snap /\ new.at = "adding" /\ new.from = "org"
      BY <1>1 DEF JobRecords, Sources
    <3>3. QED
      BY <3>1, <3>2
  <2>4. QED
    BY <2>1, <2>2, <2>3
<1>4. job' \in [Jobs -> JobRecords] /\ job'[i] = new /\ \A k \in Jobs \ {i} : job'[k] = job[k]
  BY <1>1, <1>3
<1>5. new.at \in Busy /\ job[i].todo # {}
  BY <1>2, <1>3 DEF Busy, JobsFit
<1>6. ProjectExtTypeOK'
  BY <1>2, <1>4, TypeLemma DEF ProjectExtTypeOK, diskVars
<1>7. JobsFit'
  BY <1>1, <1>3, <1>4, <1>5 DEF JobsFit, JobAt, Jobs, Busy
<1>8. RowlessIsTrue'
  <2>1. ASSUME NEW k \in ExtInstalls, k # i
        PROVE  /\ JobAt(k, "resolving")' /\ ~HasRow(Current(k))' => k \in rowless'
               /\ JobAt(k, "elsewhere")' => k \in rowless'
               /\ JobAt(k, "adding")' /\ job'[k].from # "org" => k \in rowless'
    BY <1>1, <1>2, <1>4, <2>1 DEF RowlessIsTrue, JobAt, HasRow, Current, Jobs
  <2>2. new.at # "resolving" /\ (new.at = "elsewhere" => i \in rowless)
        /\ (new.at = "adding" /\ new.from # "org" => i \in rowless)
    BY <1>3 DEF RowlessIsTrue
  <2>3. QED
    BY <1>2, <1>4, <2>1, <2>2 DEF RowlessIsTrue, JobAt
<1>9. ASSUME NEW e \in Exts \ disturbed' PROVE SlugInv(e)'
  <2>1. Active(i) /\ Active(i)'
    BY <1>2, <1>4, <1>5 DEF Active, Busy
  <2>2. QED
    BY <1>1, <1>2, <1>3, <1>4, <2>1, SlugKept DEF diskVars, Active, ToDo, Entries
<1>10. QED
  BY <1>4, <1>6, <1>7, <1>8, <1>9

(* The request ends before it has done anything.                           *)
LEMMA NothingToDo ==
  ASSUME ExtInv, NEW j \in Jobs, JobAt(j, "idle"), JobTo(j, "over"),
         UNCHANGED <<orgExt, diskVars, rowless, disturbed>>
  PROVE  ExtInv'
<1> USE DEF ExtInv
<1>1. Goes(j, "over") /\ ~Active(j)
  BY GoesLemma DEF Active, JobAt
<1>2. /\ job' \in [Jobs -> JobRecords] /\ job'[j].at = "over" /\ job'[j].todo = job[j].todo /\ job'[j].snap = job[j].snap
      /\ \A k \in Jobs \ {j} : job'[k] = job[k]
  BY <1>1 DEF Goes
<1>3. ProjectExtTypeOK'
  BY <1>2, TypeLemma DEF ProjectExtTypeOK, diskVars
<1>4. JobsFit'
  BY <1>2 DEF JobsFit, JobAt, Jobs, Busy
<1>5. RowlessIsTrue'
  BY <1>2 DEF RowlessIsTrue, JobAt, HasRow, Current, Jobs
<1>6. \A e \in Exts \ disturbed' : SlugInv(e)'
  BY <1>1, <1>2, SlugKept DEF diskVars, Active, JobAt, ToDo, Entries
<1>7. QED
  BY <1>2, <1>3, <1>4, <1>5, <1>6

(* The record of a slug that an installation is through with.              *)
LEMMA NoteStep ==
  ASSUME ExtInv, NEW i \in ExtInstalls, job[i].at \in Busy, NEW status \in {"failed", "installed"}, Note(i, status),
         NEW c \in Exts, c = Current(i),
         UNCHANGED <<orgExt, records, unreadable, disturbed>>,
         folder' \in [Exts -> Sources], entries' \in {NoRegistry} \cup SUBSET Exts,
         \A e \in Exts : e # c => (e \in Entries' <=> e \in Entries) /\ folder'[e] = folder[e],
         c \notin disturbed => Agrees(c, status)'
  PROVE  ExtInv'
<1> USE DEF ExtInv
<1> DEFINE rest == job[i].todo \ {Min(job[i].todo)}
           place == IF rest = {} THEN "writing" ELSE "resolving"
           new == [job[i] EXCEPT !.at = place, !.todo = rest, !.snap[c] = status]
<1>1. i \in Jobs /\ i \notin ExtRemovals /\ job[i] \in JobRecords /\ Active(i)
  BY ProjectExtAssumption DEF Jobs, Active, Busy
<1>2. /\ Min(job[i].todo) \in job[i].todo /\ c \in ToDo(i) /\ c \in Exts /\ c \in About(i)
      /\ \A n \in rest : Wanted[i][n] # c
  BY CurrentLemma DEF JobsFit
<1>3. /\ job' = [job EXCEPT ![i] = new]
      /\ rowless' = IF rest # {} /\ ~HasRow(Wanted[i][Min(rest)]) THEN rowless \cup {i} ELSE rowless \ {i}
  BY <1>1 DEF Note
<1>4. rest \in SUBSET Nat /\ rest \subseteq job[i].todo /\ rest \subseteq DOMAIN Wanted[i] /\ place \in {"writing", "resolving"}
  BY <1>1 DEF JobRecords, JobsFit
<1>5. place = "resolving" <=> rest # {}
  OBVIOUS
<1> HIDE DEF rest, place
<1>6. [job[i].snap EXCEPT ![c] = status] \in [Exts -> Records]
  BY <1>1 DEF JobRecords, Records
<1>7. /\ new \in JobRecords /\ new.at = place /\ new.todo = rest
      /\ new.snap[c] = status /\ \A e \in Exts : e # c => new.snap[e] = job[i].snap[e]
  BY <1>1, <1>2, <1>4, <1>6 DEF JobRecords
<1> HIDE DEF new
<1>8. job' \in [Jobs -> JobRecords] /\ job'[i] = new /\ \A k \in Jobs \ {i} : job'[k] = job[k]
  BY <1>1, <1>3, <1>7
<1>9. ProjectExtTypeOK'
  BY <1>3, <1>8, TypeLemma DEF ProjectExtTypeOK
<1>10. JobsFit'
  BY <1>1, <1>4, <1>5, <1>7, <1>8 DEF JobsFit, JobAt, Jobs, Busy
<1>11. RowlessIsTrue'
  <2>1. ASSUME NEW k \in ExtInstalls, k # i
        PROVE  /\ JobAt(k, "resolving")' /\ ~HasRow(Current(k))' => k \in rowless'
               /\ JobAt(k, "elsewhere")' => k \in rowless'
               /\ JobAt(k, "adding")' /\ job'[k].from # "org" => k \in rowless'
    BY <1>1, <1>3, <1>8, <2>1 DEF RowlessIsTrue, JobAt, HasRow, Current, Jobs
  <2>2. JobAt(i, "resolving")' /\ ~HasRow(Current(i))' => i \in rowless'
    BY <1>1, <1>3, <1>5, <1>7, <1>8 DEF JobAt, HasRow, Current
  <2>3. QED
    BY <1>4, <1>7, <1>8, <2>1, <2>2 DEF RowlessIsTrue, JobAt
<1>12. Active(i)'
  BY <1>4, <1>7, <1>8 DEF Active
<1>13. ASSUME NEW e \in Exts \ disturbed' PROVE SlugInv(e)'
  <2>1. SlugInv(e) /\ e \in Exts
    OBVIOUS
  <2>2. CASE e = c
    <3>1. \A k \in Jobs : Active(k)' /\ e \in About(k) => k = i
      BY <1>1, <1>2, <1>8, <2>1, <2>2 DEF SlugInv, Active
    <3>2. Agrees(e, job[i].snap[e])'
      BY <1>7, <1>8, <2>2 DEF Agrees
    <3>3. e \notin ToDo(i)'
      BY <1>2, <1>7, <1>8, <2>2 DEF ToDo
    <3>4. /\ \A k \in ExtInstalls : k \in Jobs
          /\ \A r \in ExtRemovals : r \in Jobs /\ r # i /\ About(r) = {RemovalOf[r]}
      BY <1>1, RemovalLemma DEF Jobs
    <3>5. \A k \in Jobs : About(k)' = About(k)
      BY DEF About
    <3>6. QED
      BY <1>1, <1>2, <1>12, <2>2, <3>1, <3>2, <3>3, <3>4, <3>5 DEF SlugInv
  <2>3. CASE e # c
    <3>1. e \in ToDo(i)' => e \in ToDo(i)
      BY <1>4, <1>7, <1>8 DEF ToDo
    <3>2. QED
      BY <1>1, <1>7, <1>8, <1>12, <2>1, <2>3, <3>1, SlugKept DEF Active, ToDo
  <2>4. QED
    BY <2>2, <2>3
<1>14. QED
  BY <1>8, <1>9, <1>10, <1>11, <1>13

(* A slug that an installation still has to do is not registered.          *)
LEMMA ToDoLemma ==
  ASSUME ExtInv, NEW i \in ExtInstalls, job[i].at \in Busy, Current(i) \notin disturbed
  PROVE  Current(i) \notin Entries
<1>1. i \in Jobs /\ Active(i)
  BY DEF Jobs, Active, Busy
<1>2. Current(i) \in ToDo(i) /\ Current(i) \in Exts /\ Current(i) \in About(i)
  BY CurrentLemma DEF JobsFit, ExtInv
<1>3. QED
  BY <1>1, <1>2 DEF ExtInv, SlugInv, Agrees

LEMMA CloneMissingStep ==
  ASSUME ExtInv, NEW i \in ExtInstalls, CheckClone(i), ~HasClone(Current(i)) PROVE ExtInv'
<1>1. Note(i, "failed") /\ UNCHANGED <<orgExt, diskVars, disturbed>> /\ job[i].at \in Busy
  BY DEF CheckClone, JobAt, Busy
<1>2. PICK c \in Exts : c = Current(i)
  BY <1>1, CurrentLemma DEF ExtInv, JobsFit
<1>3. c \notin disturbed => Agrees(c, "failed")'
  BY <1>1, <1>2, ToDoLemma DEF Agrees, diskVars, Entries
<1>4. QED
  BY <1>1, <1>2, <1>3, NoteStep DEF ExtInv, ProjectExtTypeOK, diskVars, Entries

LEMMA AddExtensionStep == ASSUME ExtInv, NEW i \in ExtInstalls, AddExtension(i) PROVE ExtInv'
<1>1. JobAt(i, "adding") /\ job[i].at \in Busy /\ UNCHANGED <<orgExt, records, unreadable, disturbed>>
  BY DEF AddExtension, JobAt, Busy
<1>2. PICK c \in Exts : c = Current(i)
  BY <1>1, CurrentLemma DEF ExtInv, JobsFit
<1>3. /\ folder \in [Exts -> Sources] /\ entries \in {NoRegistry} \cup SUBSET Exts /\ Entries \in SUBSET Exts
      /\ job[i].from \in {"org", "local", "community"}
  BY <1>1 DEF ExtInv, ProjectExtTypeOK, JobsFit, Entries
<1>4. \A S \in SUBSET Exts : S # NoRegistry
  BY ProjectExtAssumption
<1>5. CASE folder' = [folder EXCEPT ![c] = job[i].from] /\ entries' = Entries \cup {c} /\ Note(i, "installed")
  <2>1. folder' \in [Exts -> Sources] /\ folder'[c] # "none" /\ \A e \in Exts : e # c => folder'[e] = folder[e]
    BY <1>3, <1>5 DEF Sources
  <2>2. entries' \in SUBSET Exts /\ Entries' = Entries \cup {c}
    BY <1>3, <1>4, <1>5 DEF Entries
  <2>3. Agrees(c, "installed")'
    BY <2>1, <2>2 DEF Agrees
  <2>4. QED
    BY <1>1, <1>2, <1>5, <2>1, <2>2, <2>3, NoteStep
<1>6. CASE /\ folder' \in {folder, [folder EXCEPT ![c] = IF @ = "none" THEN job[i].from ELSE @]}
           /\ UNCHANGED entries /\ Note(i, "failed")
  <2>1. folder' \in [Exts -> Sources] /\ \A e \in Exts : e # c => folder'[e] = folder[e]
    BY <1>3, <1>6 DEF Sources
  <2>2. Entries' = Entries /\ entries' \in {NoRegistry} \cup SUBSET Exts
    BY <1>3, <1>6 DEF Entries
  <2>3. c \notin disturbed => Agrees(c, "failed")'
    BY <1>1, <1>2, <2>2, ToDoLemma DEF Agrees
  <2>4. QED
    BY <1>1, <1>2, <1>6, <2>1, <2>2, <2>3, NoteStep
<1>7. QED
  BY <1>2, <1>5, <1>6 DEF AddExtension

LEMMA BeginRemovalStep == ASSUME ExtInv, NEW r \in ExtRemovals, BeginRemoval(r) PROVE ExtInv'
<1> USE DEF ExtInv
<1> DEFINE c == RemovalOf[r]
<1>1. /\ r \in Jobs /\ r \notin ExtInstalls /\ About(r) = {c} /\ c \in Exts /\ job[r] \in JobRecords
      /\ JobAt(r, "idle") /\ ~Active(r) /\ UNCHANGED <<orgExt, diskVars, rowless>>
  BY RemovalLemma DEF BeginRemoval, JobAt, Active
<1>2. CASE JobTo(r, "over") /\ UNCHANGED disturbed
  BY <1>1, <1>2, NothingToDo
<1>3. CASE ~(JobTo(r, "over") /\ UNCHANGED disturbed)
  <2> DEFINE new == [job[r] EXCEPT !.at = "cli", !.snap = [records EXCEPT ![c] = "none"]]
  <2>1. job' = [job EXCEPT ![r] = new] /\ disturbed' = disturbed \cup Rivals(r)
    BY <1>3 DEF BeginRemoval
  <2>2. [records EXCEPT ![c] = "none"] \in [Exts -> Records]
    BY DEF ProjectExtTypeOK, Records
  <2>3. new \in JobRecords /\ new.at = "cli" /\ new.snap[c] = "none" /\ new.todo = job[r].todo
    BY <1>1, <2>2 DEF JobRecords
  <2> HIDE DEF new
  <2>4. job' \in [Jobs -> JobRecords] /\ job'[r] = new /\ \A k \in Jobs \ {r} : job'[k] = job[k]
    BY <1>1, <2>1, <2>3
  <2>5. Rivals(r) \subseteq Exts
    BY <1>1, AboutLemma DEF Rivals
  <2>6. ProjectExtTypeOK'
    BY <1>1, <2>1, <2>4, <2>5, TypeLemma DEF ProjectExtTypeOK, diskVars
  <2>7. JobsFit'
    BY <1>1, <2>3, <2>4 DEF JobsFit, JobAt, Jobs
  <2>8. RowlessIsTrue'
    BY <1>1, <2>3, <2>4 DEF RowlessIsTrue, JobAt, HasRow, Current, Jobs
  <2>9. ASSUME NEW e \in Exts \ disturbed' PROVE SlugInv(e)'
    <3>1. SlugInv(e) /\ e \notin Rivals(r) /\ e \in Exts
      BY <2>1
    <3>2. CASE e = c
      <4>1. \A k \in Jobs : Active(k) => e \notin About(k)
        BY <1>1, <3>1, <3>2 DEF Rivals
      <4>2. \A k \in Jobs : Active(k)' /\ e \in About(k) => k = r
        BY <2>4, <4>1 DEF Active
      <4>3. /\ \A k \in ExtInstalls : k \in Jobs /\ k # r
            /\ \A k \in ExtRemovals : k \in Jobs /\ About(k) = {RemovalOf[k]}
        BY <1>1, RemovalLemma DEF Jobs
      <4>4. \A k \in Jobs : About(k)' = About(k)
        BY DEF About
      <4>5. Active(r)'
        BY <2>3, <2>4 DEF Active
      <4>6. QED
        BY <1>1, <2>3, <2>4, <3>2, <4>2, <4>3, <4>4, <4>5 DEF SlugInv
    <3>3. CASE e # c
      BY <1>1, <2>4, <3>1, <3>3, SlugKept DEF diskVars, Active, ToDo, Entries
    <3>4. QED
      BY <3>2, <3>3
  <2>10. QED
    BY <2>4, <2>6, <2>7, <2>8, <2>9
<1>4. QED
  BY <1>2, <1>3

(* A removal goes on: the folder, the entry, or neither is gone.           *)
LEMMA RemovalStep ==
  ASSUME ExtInv, NEW r \in ExtRemovals, Active(r), job' \in [Jobs -> JobRecords], \A k \in Jobs \ {r} : job'[k] = job[k],
         job'[r].at \in {"folder", "registry", "deregister", "writing", "over"}, job'[r].snap = job[r].snap,
         UNCHANGED <<orgExt, records, unreadable, rowless>>, disturbed \subseteq disturbed', disturbed' \subseteq Exts,
         folder' \in [Exts -> Sources], entries' \in {NoRegistry} \cup SUBSET Exts,
         \A e \in Exts \ disturbed' : e # RemovalOf[r] => (e \in Entries' <=> e \in Entries) /\ folder'[e] = folder[e],
         RemovalOf[r] \notin disturbed' =>
           job'[r].at # "over" /\ (job'[r].at = "writing" => RemovalOf[r] \notin Entries')
  PROVE  ExtInv'
<1> USE DEF ExtInv
<1> DEFINE c == RemovalOf[r]
<1>1. r \in Jobs /\ r \notin ExtInstalls /\ About(r) = {c} /\ c \in Exts
  BY RemovalLemma
<1>2. ProjectExtTypeOK'
  BY TypeLemma DEF ProjectExtTypeOK
<1>3. JobsFit'
  BY <1>1 DEF JobsFit, JobAt, Jobs
<1>4. RowlessIsTrue'
  BY <1>1 DEF RowlessIsTrue, JobAt, HasRow, Current, Jobs
<1>5. ASSUME NEW e \in Exts \ disturbed' PROVE SlugInv(e)'
  <2>1. SlugInv(e) /\ e \in Exts
    OBVIOUS
  <2>2. CASE e = c
    <3>1. \A k \in Jobs : Active(k)' /\ e \in About(k) => k = r
      BY <1>1, <2>1, <2>2 DEF SlugInv, Active
    <3>2. /\ \A k \in ExtInstalls : k \in Jobs /\ k # r
          /\ \A k \in ExtRemovals : k \in Jobs /\ About(k) = {RemovalOf[k]}
      BY <1>1, RemovalLemma DEF Jobs
    <3>3. \A k \in Jobs : About(k)' = About(k)
      BY DEF About
    <3>4. Active(r)'
      BY <2>2 DEF Active
    <3>5. job'[r].snap[e] = "none" /\ (job'[r].at \in {"writing", "truncated"} => e \notin Entries')
      BY <2>1, <2>2 DEF SlugInv
    <3>6. QED
      BY <1>1, <2>2, <3>1, <3>2, <3>3, <3>4, <3>5 DEF SlugInv
  <2>3. CASE e # c
    BY <1>1, <2>1, <2>3, SlugKept DEF Active, ToDo
  <2>4. QED
    BY <2>2, <2>3
<1>6. QED
  BY <1>2, <1>3, <1>4, <1>5

LEMMA RemovalsGoOn ==
  ASSUME ExtInv, NEW r \in ExtRemovals, CliRemove(r) \/ RemoveFolder(r) \/ ReadRegistry(r) \/ WriteRegistry(r)
  PROVE  ExtInv'
<1> DEFINE c == RemovalOf[r]
<1>1. /\ r \in Jobs /\ c \in Exts /\ Active(r) /\ job[r] \in JobRecords /\ job \in [Jobs -> JobRecords]
      /\ UNCHANGED <<orgExt, records, unreadable, rowless>>
  BY RemovalLemma DEF CliRemove, RemoveFolder, ReadRegistry, WriteRegistry, Active, JobAt, ExtInv, diskVars
<1>2. /\ folder \in [Exts -> Sources] /\ entries \in {NoRegistry} \cup SUBSET Exts /\ Entries \in SUBSET Exts
      /\ disturbed \subseteq Exts /\ \A S \in SUBSET Exts : S # NoRegistry
  BY ProjectExtAssumption DEF ExtInv, ProjectExtTypeOK, Entries
<1>3. [folder EXCEPT ![c] = "none"] \in [Exts -> Sources] /\ \A e \in Exts : e # c => [folder EXCEPT ![c] = "none"][e] = folder[e]
  BY <1>2 DEF Sources
<1>4. CASE CliRemove(r)
  <2>1. Goes(r, "folder") /\ UNCHANGED disturbed
    BY <1>1, <1>4, GoesLemma DEF CliRemove
  <2>2. entries' \in {NoRegistry} \cup SUBSET Exts /\ \A e \in Exts : e # c => (e \in Entries' <=> e \in Entries)
    BY <1>2, <1>4 DEF CliRemove, Entries
  <2>3. folder' \in [Exts -> Sources] /\ \A e \in Exts : e # c => folder'[e] = folder[e]
    BY <1>2, <1>3, <1>4 DEF CliRemove
  <2>4. QED
    BY <1>1, <1>2, <2>1, <2>2, <2>3, RemovalStep DEF Goes
<1>5. CASE RemoveFolder(r)
  <2>1. Goes(r, "registry") /\ UNCHANGED <<entries, disturbed>>
    BY <1>1, <1>5, GoesLemma DEF RemoveFolder
  <2>2. folder' \in [Exts -> Sources] /\ \A e \in Exts : e # c => folder'[e] = folder[e]
    BY <1>2, <1>3, <1>5 DEF RemoveFolder
  <2>3. QED
    BY <1>1, <1>2, <2>1, <2>2, RemovalStep DEF Goes, Entries
<1>6. CASE ReadRegistry(r)
  <2>1. UNCHANGED <<folder, entries>> /\ Entries' = Entries
    BY <1>6 DEF ReadRegistry, diskVars, Entries
  <2>2. CASE job' = [job EXCEPT ![r].at = IF c \in Entries THEN "deregister" ELSE "writing", ![r].seen = Entries] /\ UNCHANGED disturbed
    <3> DEFINE place == IF c \in Entries THEN "deregister" ELSE "writing"
               new == [job[r] EXCEPT !.at = place, !.seen = Entries]
    <3>1. job' = [job EXCEPT ![r] = new]
      BY <1>1, <2>2
    <3>2. place \in {"deregister", "writing"} /\ (place = "writing" => c \notin Entries)
      OBVIOUS
    <3> HIDE DEF place
    <3>3. new \in JobRecords /\ new.at = place /\ new.snap = job[r].snap
      BY <1>1, <1>2, <3>2 DEF JobRecords
    <3> HIDE DEF new
    <3>4. job' \in [Jobs -> JobRecords] /\ job'[r] = new /\ \A k \in Jobs \ {r} : job'[k] = job[k]
      BY <1>1, <3>1, <3>3
    <3>5. QED
      BY <1>1, <1>2, <2>1, <2>2, <3>2, <3>3, <3>4, RemovalStep
  <2>3. CASE JobTo(r, "writing") /\ disturbed' = IF c \in Entries THEN disturbed \cup {c} ELSE disturbed
    <3>1. Goes(r, "writing") /\ disturbed \subseteq disturbed' /\ disturbed' \subseteq Exts
      BY <1>1, <1>2, <2>3, GoesLemma
    <3>2. QED
      BY <1>1, <1>2, <2>1, <2>3, <3>1, RemovalStep DEF Goes
  <2>4. QED
    BY <1>6, <2>2, <2>3 DEF ReadRegistry
<1>7. CASE WriteRegistry(r)
  <2>1. UNCHANGED folder /\ job[r].seen \in SUBSET Exts
    BY <1>1, <1>7 DEF WriteRegistry, JobRecords
  <2>2. CASE /\ entries' = job[r].seen \ {c} /\ JobTo(r, "writing")
             /\ disturbed' = disturbed \cup {e \in Exts : (e \in Entries) # (e \in job[r].seen)}
    <3>1. Goes(r, "writing") /\ disturbed \subseteq disturbed' /\ disturbed' \subseteq Exts
      BY <1>1, <1>2, <2>2, GoesLemma
    <3>2. entries' \in SUBSET Exts /\ Entries' = job[r].seen \ {c}
      BY <1>2, <2>1, <2>2 DEF Entries
    <3>3. \A e \in Exts \ disturbed' : e \in Entries <=> e \in job[r].seen
      BY <2>2
    <3>4. QED
      BY <1>1, <1>2, <2>1, <3>1, <3>2, <3>3, RemovalStep DEF Goes
  <2>3. CASE JobTo(r, "over") /\ disturbed' = disturbed \cup {c} /\ UNCHANGED entries
    <3>1. Goes(r, "over") /\ Entries' = Entries
      BY <1>1, <2>3, GoesLemma DEF Entries
    <3>2. QED
      BY <1>1, <1>2, <2>1, <2>3, <3>1, RemovalStep DEF Goes
  <2>4. QED
    BY <1>7, <2>2, <2>3 DEF WriteRegistry
<1>8. QED
  BY <1>4, <1>5, <1>6, <1>7

LEMMA BeginManifestStep == ASSUME ExtInv, NEW j \in Jobs, BeginManifest(j) PROVE ExtInv'
<1> USE DEF ExtInv
<1>1. /\ JobAt(j, "writing") /\ Active(j) /\ UNCHANGED <<orgExt, folder, entries, records, rowless, disturbed>>
      /\ unreadable' = TRUE /\ Goes(j, "truncated")
  BY GoesLemma DEF BeginManifest, Active, JobAt
<1>2. /\ job' \in [Jobs -> JobRecords] /\ job'[j].at = "truncated" /\ job'[j].todo = job[j].todo /\ job'[j].snap = job[j].snap
      /\ \A k \in Jobs \ {j} : job'[k] = job[k]
  BY <1>1 DEF Goes
<1>3. ProjectExtTypeOK'
  BY <1>1, <1>2, TypeLemma DEF ProjectExtTypeOK
<1>4. JobsFit'
  BY <1>2 DEF JobsFit, JobAt, Jobs, Busy
<1>5. RowlessIsTrue'
  BY <1>1, <1>2 DEF RowlessIsTrue, JobAt, HasRow, Current, Jobs
<1>6. \A e \in Exts \ disturbed' : SlugInv(e)'
  BY <1>1, <1>2, SlugKept DEF Active, JobAt, ToDo, Entries
<1>7. QED
  BY <1>2, <1>3, <1>4, <1>5, <1>6

LEMMA EndManifestStep == ASSUME ExtInv, NEW j \in Jobs, EndManifest(j) PROVE ExtInv'
<1> USE DEF ExtInv
<1>1. /\ JobAt(j, "truncated") /\ Active(j) /\ UNCHANGED <<orgExt, folder, entries, rowless>> /\ records' = job[j].snap
      /\ unreadable' \in BOOLEAN /\ Goes(j, "over") /\ job[j] \in JobRecords
  BY GoesLemma DEF EndManifest, Active, JobAt
<1>2. /\ job' \in [Jobs -> JobRecords] /\ job'[j].at = "over" /\ job'[j].todo = job[j].todo /\ job'[j].snap = job[j].snap
      /\ \A k \in Jobs \ {j} : job'[k] = job[k]
  BY <1>1 DEF Goes
<1>3. /\ disturbed \subseteq disturbed' /\ disturbed' \subseteq Exts
      /\ \A e \in Exts \ disturbed' : e \notin About(j) => records'[e] = records[e]
  BY <1>1 DEF EndManifest, ProjectExtTypeOK
<1>4. ProjectExtTypeOK'
  BY <1>1, <1>2, <1>3, TypeLemma DEF ProjectExtTypeOK, JobRecords
<1>5. JobsFit'
  BY <1>2 DEF JobsFit, JobAt, Jobs, Busy
<1>6. RowlessIsTrue'
  BY <1>1, <1>2 DEF RowlessIsTrue, JobAt, HasRow, Current, Jobs
<1>7. ASSUME NEW e \in Exts \ disturbed' PROVE SlugInv(e)'
  <2>1. SlugInv(e) /\ e \in Exts /\ Entries' = Entries /\ ~Active(j)'
    BY <1>1, <1>2, <1>3 DEF Entries, Active
  <2>2. CASE e \in About(j)
    <3>1. \A k \in Jobs : e \in About(k) => ~Active(k)'
      BY <1>1, <1>2, <2>1, <2>2 DEF SlugInv, Active
    <3>2. Agrees(e, job[j].snap[e])
      <4>1. CASE j \in ExtInstalls
        BY <1>1, <2>1, <2>2, <4>1 DEF SlugInv
      <4>2. CASE j \in ExtRemovals
        BY <1>1, <2>1, <2>2, <4>2, RemovalLemma DEF SlugInv, Agrees, JobAt
      <4>3. QED
        BY <4>1, <4>2 DEF Jobs
    <3>3. Agrees(e, records[e])'
      BY <1>1, <2>1, <3>2 DEF Agrees
    <3>4. /\ \A k \in ExtInstalls : k \in Jobs
          /\ \A k \in ExtRemovals : k \in Jobs /\ About(k) = {RemovalOf[k]}
      BY RemovalLemma DEF Jobs
    <3>5. \A k \in Jobs : About(k)' = About(k)
      BY DEF About
    <3>6. QED
      BY <3>1, <3>3, <3>4, <3>5 DEF SlugInv
  <2>3. CASE e \notin About(j)
    BY <1>1, <1>2, <1>3, <2>1, <2>3, SlugKept DEF Active, ToDo
  <2>4. QED
    BY <2>2, <2>3
<1>8. QED
  BY <1>2, <1>4, <1>5, <1>6, <1>7

LEMMA ExtCrashStep == ASSUME ExtInv, CrashExtRequests PROVE ExtInv'
<1> USE DEF ExtInv
<1>1. /\ job' = [j \in Jobs |-> IF Active(j) THEN [job[j] EXCEPT !.at = "over"] ELSE job[j]]
      /\ UNCHANGED <<orgExt, diskVars, rowless>>
      /\ disturbed' = disturbed \cup (IF unreadable THEN Exts ELSE {}) \cup UNION {About(j) : j \in {k \in Jobs : Active(k)}}
  BY DEF CrashExtRequests
<1>2. \A j \in Jobs : job[j] \in JobRecords /\ [job[j] EXCEPT !.at = "over"] \in JobRecords
  BY DEF JobRecords
<1>3. /\ job' \in [Jobs -> JobRecords] /\ \A j \in Jobs : ~Active(j) => job'[j] = job[j]
      /\ \A j \in Jobs : job'[j].todo = job[j].todo /\ job'[j].snap = job[j].snap
      /\ \A j \in Jobs : Active(j) => job'[j].at = "over"
  BY <1>1, <1>2 DEF JobRecords
<1>4. /\ disturbed \subseteq disturbed' /\ disturbed' \subseteq Exts
      /\ \A e \in Exts \ disturbed' : \A j \in Jobs : Active(j) => e \notin About(j)
  <2> DEFINE touched == UNION {About(j) : j \in {k \in Jobs : Active(k)}}
             more == IF unreadable THEN Exts ELSE {}
  <2>1. touched \subseteq Exts /\ \A j \in Jobs : Active(j) => About(j) \subseteq touched
    BY AboutLemma, Zenon
  <2>2. disturbed' = disturbed \cup more \cup touched
    BY <1>1, Zenon
  <2>3. more \subseteq Exts /\ disturbed \subseteq Exts
    BY DEF ProjectExtTypeOK
  <2>4. touched \subseteq Exts
    BY <2>1, Zenon
  <2> HIDE DEF touched, more
  <2>5. QED
    BY <2>1, <2>2, <2>3, <2>4
<1>5. ProjectExtTypeOK'
  BY <1>1, <1>3, <1>4, TypeLemma DEF ProjectExtTypeOK, diskVars
<1>6. \A j \in Jobs : ~Active(j)'
  BY <1>3 DEF Active
<1>7. JobsFit'
  <2>1. \A j \in Jobs : job'[j].at \in {"idle", "over"} /\ job'[j].todo = job[j].todo
    BY <1>3, <1>6 DEF Active
  <2>2. QED
    BY <2>1 DEF JobsFit, JobAt, Jobs, Busy
<1>8. RowlessIsTrue'
  BY <1>6 DEF RowlessIsTrue, JobAt, Active, Jobs
<1>9. \A e \in Exts \ disturbed' : SlugInv(e)'
  BY <1>1, <1>3, <1>4, <1>6, SlugKept DEF diskVars, ToDo, Entries
<1>10. QED
  BY <1>3, <1>5, <1>7, <1>8, <1>9

LEMMA ExtInit == ASSUME ProjectExtInit PROVE ExtInv
<1>1. /\ job \in [Jobs -> JobRecords] /\ orgExt \in [Exts -> {"none", "claimed", "there", "dropped"}]
      /\ folder \in [Exts -> Sources] /\ entries \in {NoRegistry} \cup SUBSET Exts /\ Entries = {}
      /\ records = [e \in Exts |-> "none"] /\ records \in [Exts -> Records] /\ unreadable \in BOOLEAN
      /\ rowless \subseteq ExtInstalls /\ disturbed \subseteq Exts
      /\ \A j \in Jobs : job[j].at = "idle" /\ job[j].todo = {} /\ ~Active(j)
  BY DEF ProjectExtInit, JobRecords, Sources, Records, Entries, Active
<1>2. ProjectExtTypeOK
  BY <1>1 DEF ProjectExtTypeOK, JobRecords
<1>3. JobsFit /\ RowlessIsTrue
  BY <1>1 DEF JobsFit, RowlessIsTrue, JobAt, Busy, Jobs
<1>4. ASSUME NEW e \in Exts PROVE SlugInv(e)
  <2>1. Agrees(e, records[e])
    BY <1>1 DEF Agrees
  <2>2. QED
    BY <1>1, <2>1 DEF SlugInv, Jobs
<1>5. QED
  BY <1>1, <1>2, <1>3, <1>4 DEF ExtInv

LEMMA ExtStep == ASSUME ExtInv, [ProjectExtNext]_projectExtVars PROVE ExtInv'
<1>1. CASE UNCHANGED projectExtVars
  BY <1>1 DEF ExtInv, projectExtVars, diskVars, ProjectExtTypeOK, JobsFit, RowlessIsTrue, SlugInv, Agrees, Entries, JobAt,
              HasRow, Current, Active, About, ToDo
<1>2. CASE \E e \in SharedExts : OrgExtStep(e)
  BY <1>2, OrgExtStepLemma
<1>3. CASE \E i \in ExtInstalls : BeginInstall(i) \/ LookUpOrg(i) \/ CheckClone(i) \/ ResolveElsewhere(i) \/ AddExtension(i)
  BY <1>3, BeginInstallStep, ResolveStep, CloneMissingStep, AddExtensionStep
<1>4. CASE \E r \in ExtRemovals :
             BeginRemoval(r) \/ CliRemove(r) \/ RemoveFolder(r) \/ ReadRegistry(r) \/ WriteRegistry(r)
  BY <1>4, BeginRemovalStep, RemovalsGoOn
<1>5. CASE \E j \in Jobs : BeginManifest(j) \/ EndManifest(j)
  BY <1>5, BeginManifestStep, EndManifestStep
<1>6. CASE CrashExtRequests
  BY <1>6, ExtCrashStep
<1>7. QED
  BY <1>1, <1>2, <1>3, <1>4, <1>5, <1>6 DEF ProjectExtNext

LEMMA ExtInvAgrees == ASSUME ExtInv PROVE ExtensionsAgree
<1>1. ASSUME \A j \in Jobs : ~Active(j), entries # NoRegistry, NEW e \in Exts \ disturbed
      PROVE  e \in Listed <=> InPicker(e)
  <2>1. Agrees(e, records[e]) /\ Entries = entries
    BY <1>1 DEF ExtInv, SlugInv, Entries
  <2>2. InPicker(e) <=> e \in Entries
    BY <1>1, <2>1 DEF InPicker, Agrees
  <2>3. e \in Recorded <=> e \in Entries
    BY <2>1 DEF Recorded, Agrees
  <2>4. QED
    BY <2>2, <2>3 DEF Listed
<1>2. \A i \in ExtInstalls : JobAt(i, "adding") /\ job[i].from # "org" => i \in rowless
  BY DEF ExtInv, RowlessIsTrue
<1>3. QED
  BY <1>1, <1>2 DEF ExtensionsAgree

(* For any extensions, requests and organisation: what the page lists is   *)
(* what the picker offers, whatever the CLI left undone, except where two   *)
(* requests were about a slug at once or a file could not be written; and  *)
(* another source than the organisation's clone is used only when the slug *)
(* had no row (extension-install.ts, extensions/[extSlug].delete.ts).      *)
THEOREM ListedIsOffered == ProjectExtSpec => [](ProjectExtTypeOK /\ ExtensionsAgree)
<1>1. ProjectExtInit => ExtInv
  BY ExtInit
<1>2. ExtInv /\ [ProjectExtNext]_projectExtVars => ExtInv'
  BY ExtStep
<1>3. ExtInv => ProjectExtTypeOK /\ ExtensionsAgree
  BY ExtInvAgrees DEF ExtInv
<1>4. QED
  BY <1>1, <1>2, <1>3, PTL DEF ProjectExtSpec
===============================================================================
