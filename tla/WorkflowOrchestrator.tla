-------------------------- MODULE WorkflowOrchestrator --------------------------
(***************************************************************************)
(* One project of SpecOrchestrator (src/core/orchestrator.js): the files   *)
(* ArtifactStore keeps of it, the mirror of SpecKitBridge, and the calls   *)
(* that create, refine, plan, split into tasks, approve, run and sync it.  *)
(*                                                                         *)
(* A spec is its number of acceptance criteria and of refinements; a plan  *)
(* is its number of phases (0: the file is empty), a batch of tasks the    *)
(* number of its tasks, where task n depends on task n - 1.  Nothing       *)
(* serializes calls: each await of a file is a step, and the process may   *)
(* die between two.  A context is read in one step.  A call that throws    *)
(* at once is no step.  The event log, which no call reads, is left out.   *)
(***************************************************************************)
EXTENDS Naturals, FiniteSets

CONSTANTS
  Slots,        \* calls in flight
  MaxTasks,     \* criteria of a spec
  MaxNotes,     \* refinements of a spec
  MaxCalls,     \* calls from a state of WorkflowInit on
  MaxTroubles   \* calls that overlap another, and crashes
ASSUME WorkflowAssumption == MaxTasks \in Nat \ {0} /\ MaxNotes \in Nat

APPROVAL_STAGES == {"spec", "plan", "task_batch"}
RUN_STATUSES == {"draft", "refined", "planned", "approved_for_execution", "running",
                 "blocked", "completed", "failed"}
SpecTexts == [criteria : 0..MaxTasks, notes : 0..MaxNotes]
NoText == [criteria |-> 0, notes |-> 0]
\* The text createSpecTemplate writes.
Template == [criteria |-> MaxTasks, notes |-> 0]
NoRunFile == [status |-> "none", approvals |-> {}, bare |-> FALSE, done |-> {}, lost |-> {}]
createRun == [NoRunFile EXCEPT !.status = "draft"]
NoWork == [at |-> "idle", op |-> "none", spec |-> NoText, plan |-> 0, tasks |-> 0, run |-> NoRunFile]

VARIABLES
  call,     \* per slot: what the call does, where it is, what it read
  dir,      \* the project's directory
  mirror,   \* .specify/specs/<slug>
  past      \* history: see WorkflowInit
workflowVars == <<call, dir, mirror, past>>

Resting == {c \in Slots : call[c] = NoWork}
Goto(c, place) == call' = [call EXCEPT ![c].at = place]
Over(c) == call' = [call EXCEPT ![c] = NoWork]
Trouble(more) == past.troubles + more <= MaxTroubles

\* No project yet, or one that has been planned and split into tasks.
WorkflowInit ==
  LET empty == [made |-> FALSE, meta |-> FALSE, spec |-> NoText, plan |-> 0, tasks |-> 0,
                run |-> NoRunFile, granted |-> {}]
  IN
  /\ call = [c \in Slots |-> NoWork]
  /\ dir \in {empty, [made |-> TRUE, meta |-> TRUE, spec |-> Template, plan |-> MaxTasks,
                      tasks |-> MaxTasks, run |-> [createRun EXCEPT !.status = "planned"],
                      granted |-> {}]}
  /\ mirror = [spec |-> dir.spec, plan |-> dir.plan, tasks |-> dir.tasks]
  \* How many calls began; how many of them overlapped another, or crashes;
  \* whether the mirror was edited, a batch generated after tasks had run, a batch
  \* approved; the tasks that were executed, more than once, with success.
  /\ past = [calls |-> 0, troubles |-> 0, edited |-> FALSE, rebatched |-> FALSE, asked |-> FALSE,
             tried |-> {}, again |-> {}, good |-> {}]

Begin(c, op, place) ==
  LET late == IF Resting = Slots THEN 0 ELSE 1 IN
  /\ call[c] = NoWork /\ past.calls < MaxCalls /\ Trouble(late)
  /\ past' = [past EXCEPT !.calls = @ + 1, !.troubles = @ + late]
  /\ call' = [call EXCEPT ![c] = [at |-> place, op |-> op, spec |-> dir.spec, plan |-> dir.plan,
                                  tasks |-> dir.tasks, run |-> dir.run]]
  /\ UNCHANGED <<dir, mirror>>

\* createSpec: a title gives the slug; createProject refuses a directory that exists.
CreateSpec(c) == ~dir.made /\ Begin(c, "create", "making")
\* mkdir and the three texts, then meta.json and the other two.
MakeProject(c) ==
  /\ call[c].at = "making"
  /\ call' = [call EXCEPT ![c].at = "describing", ![c].plan = 0, ![c].tasks = 0,
                          ![c].spec = IF call[c].op = "create" THEN Template ELSE @]
  /\ dir' = [dir EXCEPT !.made = TRUE, !.spec = call'[c].spec, !.plan = 0, !.tasks = 0]
  /\ UNCHANGED <<mirror, past>>
DescribeProject(c) ==
  /\ call[c].at = "describing" /\ Goto(c, "first")
  /\ dir' = [dir EXCEPT !.meta = TRUE, !.granted = {}]
  /\ UNCHANGED <<mirror, past>>
\* The mirror then gets what the call knows, without a look at the files.
SaveFirstRun(c) ==
  /\ call[c].at = "first"
  /\ dir' = [dir EXCEPT !.run = createRun]
  /\ Goto(c, IF call[c].op = "create" THEN "mirroring" ELSE "pulled")
  /\ UNCHANGED <<mirror, past>>

\* loadProjectContext throws without meta.json or run.json.
HasContext == dir.meta /\ dir.run.status # "none"
RefineSpec(c) == HasContext /\ dir.spec.notes < MaxNotes /\ Begin(c, "refine", "artifact")
GeneratePlan(c) == HasContext /\ Begin(c, "plan", "artifact")
GenerateTasks(c) == HasContext /\ dir.plan # 0 /\ Begin(c, "tasks", "artifact")
\* What the local provider makes of a spec: a note more, or a phase for each
\* criterion, one if there is none.
Refined(spec) == [spec EXCEPT !.notes = @ + 1]
PhasesOf(spec) == IF spec.criteria = 0 THEN 1 ELSE spec.criteria
\* The artifact is saved before the run; a batch has a task for each phase.
SaveArtifact(c) ==
  LET k == call[c] IN
  /\ k.at = "artifact" /\ Goto(c, "save")
  /\ dir' = CASE k.op = "refine" -> [dir EXCEPT !.spec = Refined(k.spec)]
              [] k.op = "plan" -> [dir EXCEPT !.plan = PhasesOf(k.spec)]
              [] k.op = "tasks" -> [dir EXCEPT !.tasks = k.plan]
  /\ past' = [past EXCEPT !.rebatched = @ \/ (k.op = "tasks" /\ past.tried # {})]
  /\ UNCHANGED mirror
\* updateRun: the run the call read, with another status.
SaveRun(c) ==
  /\ call[c].at = "save" /\ Goto(c, "sync")
  /\ dir' = [dir EXCEPT !.run = [call[c].run EXCEPT !.status =
                                   IF call[c].op = "refine" THEN "refined" ELSE "planned"]]
  /\ UNCHANGED <<mirror, past>>

\* syncArtifacts reads the three texts, then syncProject writes them.
ReadForMirror(c) ==
  /\ call[c].at = "sync"
  /\ call' = [call EXCEPT ![c].at = "mirroring", ![c].spec = dir.spec,
                          ![c].plan = dir.plan, ![c].tasks = dir.tasks]
  /\ UNCHANGED <<dir, mirror, past>>
WriteMirror(c) ==
  /\ call[c].at = "mirroring" /\ Over(c)
  /\ mirror' = [spec |-> call[c].spec, plan |-> call[c].plan, tasks |-> call[c].tasks]
  /\ past' = [past EXCEPT !.edited = FALSE] /\ UNCHANGED dir

\* approve: a run without a list of approvals is a TypeError.
Approve(c, stage) == dir.run.status # "none" /\ ~dir.run.bare /\ Begin(c, stage, "approving")
ApprovedRun(c) ==
  LET all == call[c].run.approvals \cup {call[c].op} IN
  [call[c].run EXCEPT !.approvals = all,
                      !.status = IF all = APPROVAL_STAGES THEN "approved_for_execution" ELSE @]
SaveApproval(c) ==
  /\ call[c].at = "approving"
  /\ dir' = [dir EXCEPT !.run = ApprovedRun(c)]
  /\ call' = [call EXCEPT ![c].run = ApprovedRun(c), ![c].at = "listing"]
  /\ past' = [past EXCEPT !.asked = @ \/ call[c].op = "task_batch"] /\ UNCHANGED mirror
ListApprovals(c) ==
  /\ call[c].at = "listing" /\ Over(c)
  /\ dir' = [dir EXCEPT !.granted = call[c].run.approvals]
  /\ UNCHANGED <<mirror, past>>

\* A mutant of StartRun: any approval will do.
StartRunOnAny(c) ==
  HasContext /\ dir.run.approvals # {} /\ dir.tasks # 0 /\ Begin(c, "run", "starting")

\* startRun: no run without the approval of a batch, or without tasks.
StartRun(c) ==
  HasContext /\ ~dir.run.bare /\ "task_batch" \in dir.run.approvals /\ dir.tasks # 0
  /\ Begin(c, "run", "starting")
SaveRunning(c) ==
  /\ call[c].at = "starting" /\ Goto(c, "loop")
  /\ dir' = [dir EXCEPT !.run = [call[c].run EXCEPT !.status = "running"]]
  /\ UNCHANGED <<mirror, past>>

Dependencies(n) == {n - 1} \ {0}
Ready(k) == {n \in (1..k.tasks) \ (k.run.done \cup k.run.lost) : Dependencies(n) \subseteq k.run.done}
Unfinished(k) == Cardinality(k.run.done) + Cardinality(k.run.lost) < k.tasks
\* The tasks that are ready, at once; run.json is not told of them.
ExecuteReady(c) ==
  LET k == call[c] IN
  /\ k.at = "loop" /\ Unfinished(k) /\ Ready(k) # {}
  /\ \E good \in SUBSET Ready(k) :
       /\ call' = [call EXCEPT ![c].run.done = @ \cup good, ![c].run.lost = @ \cup (Ready(k) \ good)]
       /\ past' = [past EXCEPT !.tried = @ \cup Ready(k), !.again = @ \cup (Ready(k) \cap past.tried),
                               !.good = @ \cup good]
  /\ UNCHANGED <<dir, mirror>>
Outcome(k) == IF Unfinished(k) THEN "blocked" ELSE IF k.run.lost # {} THEN "failed" ELSE "completed"
\* The loop is over: run.json gets the verdict and all that was done.
FinishRun(c) ==
  LET k == call[c] IN
  /\ k.at = "loop" /\ (Unfinished(k) => Ready(k) = {}) /\ Over(c)
  /\ dir' = [dir EXCEPT !.run = [k.run EXCEPT !.status = Outcome(k)]]
  /\ UNCHANGED <<mirror, past>>

\* syncSpecFromSpecKit: the mirror's spec makes a project or replaces the spec.
PullSpec(c) == mirror.spec # NoText /\ Begin(c, "pull", "reading")
\* A directory without a meta.json can be neither made nor filled.
ReadMirror(c) ==
  /\ call[c].at = "reading"
  /\ IF dir.made /\ ~dir.meta THEN Over(c)
     ELSE call' = [call EXCEPT ![c].spec = mirror.spec, ![c].at = IF dir.made THEN "pulling" ELSE "making"]
  /\ UNCHANGED <<dir, mirror, past>>
SavePulled(c) ==
  /\ call[c].at = "pulling" /\ Goto(c, "pulled")
  /\ dir' = [dir EXCEPT !.spec = call[c].spec] /\ UNCHANGED <<mirror, past>>
\* Without a run.json the run becomes a status and nothing else.
ReadToRedraft(c) ==
  /\ call[c].at = "pulled"
  /\ call' = [call EXCEPT ![c].at = "redrafting", ![c].run =
                IF dir.run.status = "none" THEN [NoRunFile EXCEPT !.bare = TRUE] ELSE dir.run]
  /\ UNCHANGED <<dir, mirror, past>>
Redraft(c) ==
  /\ call[c].at = "redrafting" /\ Goto(c, "sync")
  /\ dir' = [dir EXCEPT !.run = [call[c].run EXCEPT !.status = "draft"]]
  /\ UNCHANGED <<mirror, past>>

\* Somebody edits the spec where spec-kit keeps it.
EditMirror(n) ==
  /\ mirror' = [mirror EXCEPT !.spec = [criteria |-> n, notes |-> 0]]
  /\ mirror' # mirror /\ past' = [past EXCEPT !.edited = TRUE]
  /\ UNCHANGED <<call, dir>>

CrashOrchestrator ==
  /\ Resting # Slots /\ Trouble(1)
  /\ call' = [c \in Slots |-> NoWork]
  /\ past' = [past EXCEPT !.troubles = @ + 1] /\ UNCHANGED <<dir, mirror>>

CallBegins(c) ==
  \/ CreateSpec(c) \/ RefineSpec(c) \/ GeneratePlan(c) \/ GenerateTasks(c)
  \/ \E stage \in APPROVAL_STAGES : Approve(c, stage)
  \/ StartRun(c) \/ PullSpec(c)
CallGoesOn(c) ==
  \/ MakeProject(c) \/ DescribeProject(c) \/ SaveFirstRun(c)
  \/ SaveArtifact(c) \/ SaveRun(c) \/ ReadForMirror(c) \/ WriteMirror(c)
  \/ SaveApproval(c) \/ ListApprovals(c) \/ SaveRunning(c) \/ ExecuteReady(c) \/ FinishRun(c)
  \/ ReadMirror(c) \/ SavePulled(c) \/ ReadToRedraft(c) \/ Redraft(c)
WorkflowNext ==
  \/ \E c \in Slots : CallBegins(c) \/ CallGoesOn(c)
  \/ \E n \in 1..MaxTasks : EditMirror(n)
  \/ CrashOrchestrator
WorkflowSpec == WorkflowInit /\ [][WorkflowNext]_workflowVars

-------------------------------------------------------------------------------
WorkflowTypeOK ==
  /\ dir.run.status \in RUN_STATUSES \cup {"none"} /\ dir.run.approvals \subseteq APPROVAL_STAGES
  /\ dir.spec \in SpecTexts /\ dir.plan \in 0..MaxTasks /\ dir.tasks \in 0..MaxTasks
  /\ mirror \in [spec : SpecTexts, plan : 0..MaxTasks, tasks : 0..MaxTasks]

\* Whatever calls overlap and wherever the process dies: no task is executed
\* before somebody approved a batch, none before those it depends on succeeded,
\* and run.json never counts as done what did not succeed.
TasksAreGated ==
  /\ past.tried # {} => past.asked
  /\ \A n \in past.tried : Dependencies(n) \subseteq past.good
  /\ dir.run.done \subseteq past.good /\ dir.run.done \cap dir.run.lost = {}
\* Calls that come one after another execute no task twice, although a run saves
\* its progress at its end only, lose no approval and leave the mirror as the project
\* is, but for a spec edited there.  A run that says completed did all its tasks,
\* unless the batch was generated after tasks of the same numbers had run.
RunsAreWhole ==
  past.troubles = 0 =>
    /\ past.again = {} /\ ~dir.run.bare
    /\ Resting = Slots =>
         /\ dir.granted = dir.run.approvals /\ dir.run.status # "running"
         /\ dir.run.status = "completed" /\ ~past.rebatched => 1..dir.tasks \subseteq past.good
         /\ mirror.plan = dir.plan /\ mirror.tasks = dir.tasks
         /\ mirror.spec = dir.spec \/ past.edited

\* The files keep their types, the tasks are gated and the runs whole.
WorkflowIsGated == WorkflowTypeOK /\ TasksAreGated /\ RunsAreWhole
===============================================================================
