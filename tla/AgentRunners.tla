------------------------------ MODULE AgentRunners ------------------------------
(***************************************************************************)
(* One-shot runs of an agent as a child process: ClaudeCodeRunner.run and  *)
(* HermesStreamingRunner.run, which speak over plain stdio, AcpRunner.run, *)
(* which opens a session, prompts once and closes, and runCommand of       *)
(* utils/process.js.  TurnBroker has the ACP child that lasts.             *)
(*                                                                         *)
(* A run owns its runner, its child and its promise.  The child and the    *)
(* events node delivers about it are other processes: 'exit' comes after   *)
(* the end of the child, 'close' after its stdout ended too, an error of   *)
(* stdin at any time, and a child that was never born has an 'error', then *)
(* a 'close'.                                                              *)
(***************************************************************************)
EXTENDS Naturals

CONSTANTS AgentRuns   \* runs

VARIABLES
  task,     \* a run: [kind, at, then, verdict]: its runner, where it is, what it will say
            \* after close(), how its promise is settled
  agent,    \* its child: [is, good, result, term]
  stopped,  \* its signal, and whether it is listened to; cancel() was told the child
  odd       \* history: see RunnersInit
runnerVars == <<task, agent, stopped, odd>>

Plain == {"claude", "hermes"}
RunnerOf(r) == task[r].kind
Settled(r) == task[r].verdict # "pending"
Terminate(r) ==
  agent' = [agent EXCEPT ![r].term = @ \/ agent[r].is = "runs"]

RunnersInit ==
  \* pickRunner, or the caller, chooses the runner.
  /\ task \in [AgentRuns -> {[kind |-> k, at |-> "idle", then |-> "none", verdict |-> "pending"] :
                              k \in Plain \cup {"acp", "command"}}]
  \* It exits with 0; it told its result in a whole line; it was sent SIGTERM.
  /\ agent = [r \in AgentRuns |-> [is |-> "none", good |-> FALSE, result |-> FALSE, term |-> FALSE]]
  /\ stopped = [r \in AgentRuns |-> [aborted |-> FALSE, heard |-> FALSE, cancelled |-> FALSE]]
  \* Its stdin failed; close() gave up waiting for it; its output was passed on
  \* after its promise was settled.
  /\ odd = [r \in AgentRuns |-> [broken |-> FALSE, deaf |-> FALSE, late |-> FALSE]]

\* spawn may fail, which is told later; a plain runner kills its child at once when
\* the signal is aborted already, and listens to it otherwise.
SpawnAgent(r, born) ==
  /\ task[r].at = "idle"
  /\ task' = [task EXCEPT ![r].at = IF RunnerOf(r) = "acp" THEN "opening" ELSE "open"]
  /\ agent' = [agent EXCEPT ![r].is = IF born THEN "runs" ELSE "unborn",
                            ![r].term = born /\ stopped[r].aborted /\ RunnerOf(r) \in Plain]
  /\ stopped' = [stopped EXCEPT ![r].heard = RunnerOf(r) \in Plain]
  /\ UNCHANGED odd

\* The caller aborts the signal it gave; the listener sends SIGTERM.
Abort(r) ==
  /\ ~stopped[r].aborted /\ RunnerOf(r) # "command"
  /\ stopped' = [stopped EXCEPT ![r].aborted = TRUE]
  /\ IF stopped[r].heard THEN Terminate(r) ELSE UNCHANGED agent
  /\ UNCHANGED <<task, odd>>
\* cancel(): a plain runner sends SIGTERM; an ACP runner asks the session it has
\* opened, and does nothing while it has none.
Cancel(r) ==
  /\ ~stopped[r].cancelled /\ agent[r].is = "runs"
  /\ \/ RunnerOf(r) \in Plain /\ Terminate(r)
     \/ RunnerOf(r) = "acp" /\ task[r].at = "prompting" /\ ~agent[r].term /\ UNCHANGED agent
  /\ stopped' = [stopped EXCEPT ![r].cancelled = TRUE]
  /\ UNCHANGED <<task, odd>>

\* What stdout holds is served: a line, which may be a result, or an update of a
\* session or a request to write a file.  That may be after 'exit'; a plain child is
\* read until 'close', an ACP child for as long as it lasts, as neither its connection
\* nor the onEvent of the constructor is taken away by close().
AgentSays(r, result) ==
  /\ agent[r].is \in {"runs", "exited"} /\ RunnerOf(r) # "command"
  /\ RunnerOf(r) \in Plain => task[r].at = "open"
  /\ agent' = [agent EXCEPT ![r].result = @ \/ (result /\ RunnerOf(r) = "claude")]
  /\ odd' = [odd EXCEPT ![r].late = @ \/ Settled(r)]
  /\ UNCHANGED <<task, stopped>>
AgentExits(r, good) ==
  /\ agent[r].is = "runs" /\ agent' = [agent EXCEPT ![r].is = "exited", ![r].good = good]
  /\ UNCHANGED <<task, stopped, odd>>

\* An error of stdin: a plain run rejects at once and leaves its child alone.
StdinFails(r) ==
  /\ RunnerOf(r) \in Plain /\ agent[r].is \in {"runs", "exited"}
  /\ ~odd[r].broken /\ odd' = [odd EXCEPT ![r].broken = TRUE]
  /\ task' = [task EXCEPT ![r].verdict = IF Settled(r) THEN @ ELSE "failed"]
  /\ UNCHANGED <<agent, stopped>>
\* 'error' of a child that was not born: runCommand answers ok: false, others reject.
SpawnErrs(r) ==
  /\ agent[r].is = "unborn" /\ agent' = [agent EXCEPT ![r].is = "failed"]
  /\ task' = [task EXCEPT ![r] =
       IF RunnerOf(r) = "acp" THEN [@ EXCEPT !.at = "closing", !.then = "failed"]
       ELSE [@ EXCEPT !.verdict = IF Settled(r) THEN @ ELSE "failed"]]
  /\ UNCHANGED <<stopped, odd>>

\* 'close': aborted first, then the result or the exit code.
VerdictOfClose(r) ==
  IF RunnerOf(r) \in Plain /\ stopped[r].aborted THEN "aborted"
  ELSE IF agent[r].good \/ (RunnerOf(r) = "claude" /\ agent[r].result) THEN "resolved" ELSE "failed"
ChildCloses(r) ==
  /\ task[r].at = "open" /\ agent[r].is \in {"exited", "failed"}
  /\ task' = [task EXCEPT ![r].at = "over",
                          ![r].verdict = IF Settled(r) THEN @ ELSE VerdictOfClose(r)]
  /\ UNCHANGED <<agent, stopped, odd>>

-------------------------------------------------------------------------------
\* AcpRunner.run: start, prompt, and close whatever happens.

\* close(): SIGTERM, then a wait; the promise is settled after it.
BeginClose(r, verdict) ==
  /\ task' = [task EXCEPT ![r].at = "closing", ![r].then = verdict]
  /\ stopped' = [stopped EXCEPT ![r].heard = FALSE]
  /\ Terminate(r)
\* initialize and session/new are answered.  Only now is the signal looked at.
SessionOpens(r) ==
  /\ task[r].at = "opening" /\ agent[r].is = "runs"
  /\ IF stopped[r].aborted THEN BeginClose(r, "aborted")
     ELSE /\ task' = [task EXCEPT ![r].at = "prompting"]
          /\ stopped' = [stopped EXCEPT ![r].heard = TRUE] /\ UNCHANGED agent
  /\ UNCHANGED odd
\* The agent refuses, or the connection is gone.
SessionFails(r) ==
  /\ task[r].at = "opening" /\ agent[r].is \in {"runs", "exited"}
  /\ BeginClose(r, "failed") /\ UNCHANGED odd
\* Whatever the reason it stopped for, "cancelled" included: run() resolves.
PromptAnswers(r) ==
  /\ task[r].at = "prompting" /\ agent[r].is = "runs"
  /\ BeginClose(r, "resolved") /\ UNCHANGED odd
\* The child exited, or the agent answers with an error.
PromptFails(r) ==
  /\ task[r].at = "prompting" /\ agent[r].is \in {"runs", "exited"}
  /\ BeginClose(r, IF stopped[r].aborted THEN "aborted" ELSE "failed") /\ UNCHANGED odd

\* A mutant of CloseEnds: the child is not waited for.
CloseEndsAtOnce(r) ==
  /\ task[r].at = "closing"
  /\ task' = [task EXCEPT ![r].at = "over", ![r].verdict = task[r].then]
  /\ UNCHANGED <<agent, stopped, odd>>
CloseEnds(r) ==
  /\ task[r].at = "closing" /\ agent[r].is = "exited"
  /\ task' = [task EXCEPT ![r].at = "over", ![r].verdict = task[r].then]
  /\ UNCHANGED <<agent, stopped, odd>>
\* 5 s later.  SIGKILL would follow if the child had not been sent a signal yet.
CloseGivesUp(r) ==
  /\ task[r].at = "closing" /\ agent[r].is # "exited"
  /\ task' = [task EXCEPT ![r].at = "over", ![r].verdict = task[r].then]
  /\ odd' = [odd EXCEPT ![r].deaf = TRUE]
  /\ UNCHANGED <<agent, stopped>>

RunOf(r) ==
  \/ \E born \in BOOLEAN : SpawnAgent(r, born)
  \/ Abort(r) \/ Cancel(r) \/ StdinFails(r) \/ SpawnErrs(r) \/ ChildCloses(r)
  \/ \E result \in BOOLEAN : AgentSays(r, result)
  \/ \E good \in BOOLEAN : AgentExits(r, good)
  \/ SessionOpens(r) \/ SessionFails(r) \/ PromptAnswers(r) \/ PromptFails(r)
  \/ CloseEnds(r) \/ CloseGivesUp(r)
RunnersNext == \E r \in AgentRuns : RunOf(r)
RunnersSpec == RunnersInit /\ [][RunnersNext]_runnerVars

\* Node delivers its events and timers fire; an agent that was sent SIGTERM exits,
\* one that was asked to cancel a prompt answers it.
RunnersFairness ==
  \A r \in AgentRuns :
    /\ WF_runnerVars(SpawnErrs(r)) /\ WF_runnerVars(ChildCloses(r))
    /\ WF_runnerVars(agent[r].term /\ \E good \in BOOLEAN : AgentExits(r, good))
    /\ WF_runnerVars((stopped[r].cancelled \/ agent[r].is = "exited") /\ (PromptAnswers(r) \/ PromptFails(r)))
    /\ WF_runnerVars(CloseEnds(r) \/ CloseGivesUp(r))

-------------------------------------------------------------------------------
RunnersTypeOK ==
  /\ task \in [AgentRuns -> [kind : Plain \cup {"acp", "command"},
                             at : {"idle", "open", "opening", "prompting", "closing", "over"},
                             then : {"none", "resolved", "failed", "aborted"},
                             verdict : {"pending", "resolved", "failed", "aborted"}]]
  /\ \A r \in AgentRuns : agent[r].is \in {"none", "unborn", "failed", "runs", "exited"}

\* When a caller is told how its run ended, the child is gone, unless its stdin failed
\* or it did not heed SIGTERM for five seconds; and what a plain child said was passed
\* on before, unless its stdin failed.  (Not so of an ACP child: what its stdout still
\* holds at 'exit' is served after its run was settled.)  Success is a result, an exit
\* code of 0 or an answer, never the end of a child that was aborted before it ended.
ChildrenAreGone ==
  \A r \in AgentRuns :
    /\ Settled(r) /\ agent[r].is = "runs" => odd[r].broken \/ odd[r].deaf
    /\ odd[r].late => RunnerOf(r) = "acp" \/ odd[r].broken
    /\ task[r].verdict = "resolved" =>
         /\ task[r].at = "over" /\ agent[r].is # "failed"
         /\ RunnerOf(r) = "acp" \/ agent[r].good \/ agent[r].result
    /\ task[r].verdict = "aborted" => stopped[r].aborted
\* Whoever stops a run is answered: an abort heard by it, or a cancel it passed on.
StoppedRunsEnd ==
  \A r \in AgentRuns :
    stopped[r].cancelled \/ (stopped[r].aborted /\ stopped[r].heard) ~> Settled(r)
===============================================================================
