--------------------------- MODULE CompanyRuntime ---------------------------
(***************************************************************************)
(* The company runtimes of one project, one after the other:               *)
(* src/core/company-runtime.js with its queue pollers (queue-poller.js),   *)
(* its event log (company-event-log.js) and its supervisor.                *)
(*                                                                         *)
(* An action is the code between two awaits that touch shared state.  A    *)
(* dispatch is named by its runtime and its task; it goes on when the      *)
(* runtime is stopped, beside the dispatches of the next runtime.          *)
(***************************************************************************)
EXTENDS Naturals, Sequences, FiniteSets

CONSTANTS
  NumRoles,    \* the agents, in the order of the company's agents map
  CeoRole,
  Tasks,       \* the YAML files that may ever lie in a queue directory
  Tickets,     \* those that only the supervisor writes
  RoleOf,      \* task -> the role whose queue directory holds it
  MaxRuntimes, \* calls of start() (bounds the model)
  MaxRefires,  \* `change` events of the watchers (bounds the model)
  MaxAlerts,   \* escalations of a dispatch, and tickets to write (bounds the model)
  NoTask

Roles    == 1..NumRoles
Runtimes == 1..MaxRuntimes

ASSUME CompanyAssumption ==
  /\ NumRoles \in Nat \ {0}
  /\ CeoRole \in Roles
  /\ Tickets \subseteq Tasks
  /\ RoleOf \in [Tasks -> Roles]
  /\ \A k \in Tickets : RoleOf[k] = CeoRole
  /\ MaxRuntimes \in Nat
  /\ MaxRefires \in Nat
  /\ MaxAlerts \in Nat
  /\ NoTask \notin Tasks

VARIABLES
  files,       \* the YAML files in the queue directories
  written,     \* every file that was ever put there
  log,         \* task -> kind of event -> how many the JSONL log holds
  cur,         \* the last runtime that was started, 0 before the first
  phase,       \* how far start() or stop() of that runtime is
  watching,    \* the roles whose queue directory it watches
  pollers,     \* how many pollers are in this.pollers
  told,        \* the files its watchers have announced
  reads,       \* task -> calls of #handleFile that are reading the file
  queue,       \* role -> _dispatchQueues
  dispatching, \* role -> _dispatching
  inFlight,    \* _inFlightPaths
  watch,       \* task -> the supervisor's _pending entry
  tickets,     \* escalations whose ticket is not written yet
  act,         \* runtime -> task -> where its dispatch stands
  refires,
  alerts,      \* history: task -> escalations of its last dispatch
  lost,        \* history: task -> logged dispatches a crash cut off
  tried,       \* history: tasks the current runtime has begun to dispatch
  early        \* history: those it took before its supervisor listened

runtime == <<cur, phase, watching, pollers>>
memory  == <<queue, dispatching, inFlight>>
history == <<alerts, lost, tried, early>>
vars == <<files, written, log, runtime, told, reads, memory, watch, tickets,
          act, refires, history>>

Endings == {"completed", "failed", "error"}
Kinds   == {"started"} \cup Endings
Stages  == {"none", "announced", "executing", "removing"} \cup Endings

TypeOK ==
  /\ files \subseteq Tasks
  /\ written \subseteq Tasks
  /\ log \in [Tasks -> [Kinds -> Nat]]
  /\ cur \in 0..MaxRuntimes
  /\ phase \in {"none", "starting", "running", "stopping"}
  /\ watching \subseteq Roles
  /\ pollers \in 0..NumRoles
  /\ told \subseteq Tasks
  /\ reads \in [Tasks -> Nat]
  /\ queue \in [Roles -> Seq(Tasks)]
  /\ dispatching \in [Roles -> Tasks \cup {NoTask}]
  /\ inFlight \subseteq Tasks
  /\ watch \in [Tasks -> {"no", "yes", "alerted"}]
  /\ tickets \in Nat
  /\ act \in [Runtimes -> [Tasks -> Stages]]
  /\ refires \in 0..MaxRefires
  /\ alerts \in [Tasks -> Nat]
  /\ lost \in [Tasks -> Nat]
  /\ tried \subseteq Tasks
  /\ early \subseteq tried

NoQueues  == [role \in Roles |-> << >>]
NoEntries == [role \in Roles |-> NoTask]
NoneYet   == [t \in Tasks |-> 0]
Unwatched == [t \in Tasks |-> "no"]
NoActs    == [r \in Runtimes |-> [t \in Tasks |-> "none"]]

Init ==
  /\ files = {}
  /\ written = {}
  /\ log = [t \in Tasks |-> [k \in Kinds |-> 0]]
  /\ cur = 0
  /\ told = {}
  /\ tickets = 0
  /\ act = NoActs
  /\ refires = 0
  /\ alerts = NoneYet
  /\ lost = [t \in Tasks |-> 0]
  /\ tried = {}
  /\ early = {}
  /\ phase = "none"
  /\ watching = {}
  /\ pollers = 0
  /\ reads = NoneYet
  /\ queue = NoQueues
  /\ dispatching = NoEntries
  /\ inFlight = {}
  /\ watch = Unwatched

----------------------------------------------------------------------------
(* Queue files and the watchers                                            *)

(* The dispatch endpoints, an agent or the user put a file into a queue.   *)
Drop(t) ==
  /\ t \notin written \cup Tickets
  /\ files' = files \cup {t}
  /\ written' = written \cup {t}
  /\ UNCHANGED <<log, runtime, told, reads, memory, watch, tickets, act,
                 refires, history>>

(* A watcher's `add` event: #handleFile starts to read the file.           *)
Announce(t) ==
  /\ t \in files \ told
  /\ RoleOf[t] \in watching
  /\ told' = told \cup {t}
  /\ reads' = [reads EXCEPT ![t] = @ + 1]
  /\ UNCHANGED <<files, written, log, runtime, memory, watch, tickets, act,
                 refires, history>>

(* A `change` event, or a second one for the same write.                   *)
Refire(t) ==
  /\ t \in files \cap told
  /\ RoleOf[t] \in watching
  /\ refires < MaxRefires
  /\ refires' = refires + 1
  /\ reads' = [reads EXCEPT ![t] = @ + 1]
  /\ UNCHANGED <<files, written, log, runtime, told, memory, watch, tickets,
                 act, history>>

(* The file is gone before it is read: the poller emits an error.          *)
ReadFails(t) ==
  /\ reads[t] > 0
  /\ t \notin files
  /\ reads' = [reads EXCEPT ![t] = @ - 1]
  /\ UNCHANGED <<files, written, log, runtime, told, memory, watch, tickets,
                 act, refires, history>>

----------------------------------------------------------------------------
(* Dispatching                                                             *)

(* The supervisor's listeners are on between its start() and stop().       *)
Listening == phase = "running"

(* May _processNextDispatch take a task, given the role's queue and entry? *)
Free(q, busy) == busy = NoTask /\ q # << >> /\ pollers > 0

(* A mutant of ProcessNext: the task is shifted before the check of        *)
(* this.pollers.                                                           *)
ProcessNextShifts(role, q, busy, acts, seen) ==
  IF Free(q, busy)
  THEN LET t == Head(q) IN
       /\ queue' = [queue EXCEPT ![role] = Tail(q)]
       /\ dispatching' = [dispatching EXCEPT ![role] = t]
       /\ act' = [acts EXCEPT ![cur][t] = "announced"]
       /\ watch' = IF Listening THEN [seen EXCEPT ![t] = "yes"] ELSE seen
       /\ alerts' = [alerts EXCEPT ![t] = 0]
       /\ tried' = tried \cup {t}
       /\ early' = IF Listening THEN early ELSE early \cup {t}
  ELSE /\ queue' = [queue EXCEPT ![role] = IF busy = NoTask /\ q # << >>
                                          THEN Tail(q) ELSE q]
       /\ dispatching' = [dispatching EXCEPT ![role] = busy]
       /\ act' = acts
       /\ watch' = seen
       /\ UNCHANGED <<alerts, tried, early>>

(* _processNextDispatch(role) up to the append of "dispatch-started", from *)
(* a state where the role's queue is q, its entry is busy, and the         *)
(* dispatches and the supervisor's entries are acts and seen.              *)
ProcessNext(role, q, busy, acts, seen) ==
  IF Free(q, busy)
  THEN LET t == Head(q) IN
       /\ queue' = [queue EXCEPT ![role] = Tail(q)]
       /\ dispatching' = [dispatching EXCEPT ![role] = t]
       /\ act' = [acts EXCEPT ![cur][t] = "announced"]
       /\ watch' = IF Listening THEN [seen EXCEPT ![t] = "yes"] ELSE seen
       /\ alerts' = [alerts EXCEPT ![t] = 0]
       /\ tried' = tried \cup {t}
       /\ early' = IF Listening THEN early ELSE early \cup {t}
  ELSE /\ queue' = [queue EXCEPT ![role] = q]
       /\ dispatching' = [dispatching EXCEPT ![role] = busy]
       /\ act' = acts
       /\ watch' = seen
       /\ UNCHANGED <<alerts, tried, early>>

(* The file is read and parsed: `task` is emitted, and _enqueueDispatch    *)
(* drops it when its path is queued or being dispatched.                   *)
EnqueueDispatch(t) ==
  /\ reads[t] > 0
  /\ reads' = [reads EXCEPT ![t] = @ - 1]
  /\ IF t \in inFlight
     THEN UNCHANGED <<memory, act, watch, alerts, tried, early>>
     ELSE LET role == RoleOf[t] IN
          /\ inFlight' = inFlight \cup {t}
          /\ ProcessNext(role, Append(queue[role], t), dispatching[role],
                         act, watch)
  /\ UNCHANGED <<files, written, log, runtime, told, tickets, refires, lost>>

(* The runtime's memory is not yet cleared, so a dispatch's end matters.   *)
Alive(r) == r = cur /\ phase # "none"

(* Mutants of Finish: the path stays in _inFlightPaths; the supervisor is  *)
(* not told of an error.                                                   *)
FinishKeepsPath(r, t) ==
  LET ended == [act EXCEPT ![r][t] = "none"] IN
  IF Alive(r)
  THEN /\ UNCHANGED inFlight
       /\ ProcessNext(RoleOf[t], queue[RoleOf[t]], NoTask, ended,
                      [watch EXCEPT ![t] = "no"])
  ELSE /\ act' = ended
       /\ UNCHANGED <<memory, watch, alerts, tried, early>>

FinishUntold(r, t) ==
  LET ended == [act EXCEPT ![r][t] = "none"] IN
  IF Alive(r)
  THEN /\ inFlight' = inFlight \ {t}
       /\ ProcessNext(RoleOf[t], queue[RoleOf[t]], NoTask, ended, watch)
  ELSE /\ act' = ended
       /\ UNCHANGED <<memory, watch, alerts, tried, early>>

(* The finally of _processNextDispatch, which drains the queue further.    *)
Finish(r, t) ==
  LET role  == RoleOf[t]
      ended == [act EXCEPT ![r][t] = "none"] IN
  IF Alive(r)
  THEN /\ inFlight' = inFlight \ {t}
       /\ ProcessNext(role, queue[role], NoTask, ended,
                      [watch EXCEPT ![t] = "no"])
  ELSE /\ act' = ended
       /\ UNCHANGED <<memory, watch, alerts, tried, early>>

(* The runtimes whose dispatch of t is logged as started and not as ended. *)
Open(t) == {r \in Runtimes : act[r][t] \in {"executing"} \cup Endings}

(* The event is in the JSONL log.                                          *)
LogEvent(t, kind) == log' = [log EXCEPT ![t][kind] = @ + 1]

(* "dispatch-started" is appended, and the runner is called.               *)
LogStarted(r, t) ==
  /\ act[r][t] = "announced"
  /\ LogEvent(t, "started")
  /\ act' = [act EXCEPT ![r][t] = "executing"]
  /\ UNCHANGED <<files, written, runtime, told, reads, memory, watch, tickets,
                 refires, history>>

(* A mutant of ExecuteEnds: the runner's status is taken as it is.         *)
ExecuteEndsRaw(r, t, ending) ==
  /\ act[r][t] = "executing"
  /\ act' = [act EXCEPT ![r][t] = IF ending = "failed" THEN "blocked" ELSE ending]
  /\ watch' = IF Alive(r) /\ ending # "error"
              THEN [watch EXCEPT ![t] = "no"] ELSE watch
  /\ UNCHANGED <<files, written, log, runtime, told, reads, memory, tickets,
                 refires, history>>

(* runner.execute settles.  A result is announced to the supervisor at     *)
(* once, an error only after its event is appended.                        *)
ExecuteEnds(r, t, ending) ==
  /\ act[r][t] = "executing"
  /\ act' = [act EXCEPT ![r][t] = ending]
  /\ watch' = IF Alive(r) /\ ending # "error"
              THEN [watch EXCEPT ![t] = "no"] ELSE watch
  /\ UNCHANGED <<files, written, log, runtime, told, reads, memory, tickets,
                 refires, history>>

(* The terminal event is appended; only a completed task's file is removed *)
LogCompleted(r, t) ==
  /\ act[r][t] = "completed"
  /\ LogEvent(t, "completed")
  /\ act' = [act EXCEPT ![r][t] = "removing"]
  /\ UNCHANGED <<files, written, runtime, told, reads, memory, watch, tickets,
                 refires, history>>

(* Mutants of LogFailed: the file is removed, and an error is not logged.  *)
LogFailedRemoves(r, t) ==
  /\ act[r][t] \in {"failed", "error"}
  /\ LogEvent(t, act[r][t])
  /\ files' = files \ {t}
  /\ Finish(r, t)
  /\ UNCHANGED <<written, runtime, told, reads, tickets, refires, lost>>

LogFailedUnlogged(r, t) ==
  /\ act[r][t] \in {"failed", "error"}
  /\ log' = IF act[r][t] = "error" THEN log ELSE [log EXCEPT ![t]["failed"] = @ + 1]
  /\ Finish(r, t)
  /\ UNCHANGED <<files, written, runtime, told, reads, tickets, refires,
                 lost>>

LogFailed(r, t) ==
  /\ act[r][t] \in {"failed", "error"}
  /\ LogEvent(t, act[r][t])
  /\ Finish(r, t)
  /\ UNCHANGED <<files, written, runtime, told, reads, tickets, refires,
                 lost>>

(* The file is unlinked; that it is gone already is not an error.          *)
RemoveFile(r, t) ==
  /\ act[r][t] = "removing"
  /\ files' = files \ {t}
  /\ Finish(r, t)
  /\ UNCHANGED <<written, log, runtime, told, reads, tickets, refires, lost>>

----------------------------------------------------------------------------
(* The supervisor                                                          *)

(* tick() finds a dispatch beyond its SLA and marks it before the first    *)
(* await of _escalate.  There are no more escalations than tickets.        *)
Tick(t) ==
  /\ Listening
  /\ watch[t] = "yes"
  /\ alerts[t] < MaxAlerts
  /\ tickets < MaxAlerts /\ ~(Tickets \subseteq written)
  /\ watch' = [watch EXCEPT ![t] = "alerted"]
  /\ tickets' = tickets + 1
  /\ alerts' = [alerts EXCEPT ![t] = @ + 1]
  /\ UNCHANGED <<files, written, log, runtime, told, reads, memory, act,
                 refires, lost, tried, early>>

(* _escalate writes the ticket into the CEO's queue, whatever has happened *)
(* to the dispatch and the runtime in the meantime.                        *)
WriteTicket(k) ==
  /\ tickets > 0
  /\ k \in Tickets \ written
  /\ tickets' = tickets - 1
  /\ files' = files \cup {k}
  /\ written' = written \cup {k}
  /\ UNCHANGED <<log, runtime, told, reads, memory, watch, act, refires,
                 history>>

----------------------------------------------------------------------------
(* The runtime's life                                                      *)

(* The start handler constructs a runtime and calls start().               *)
Start ==
  /\ phase = "none"
  /\ cur < MaxRuntimes
  /\ cur' = cur + 1
  /\ phase' = "starting"
  /\ told' = {}
  /\ tried' = {}
  /\ early' = {}
  /\ UNCHANGED <<files, written, log, watching, pollers, reads, memory, watch,
                 tickets, act, refires, alerts, lost>>

(* A missing agent, queue directory or catalog entry, or a container that  *)
(* does not start: start() throws before its first poller.                 *)
StartFails ==
  /\ phase = "starting"
  /\ watching = {}
  /\ phase' = "none"
  /\ UNCHANGED <<files, written, log, cur, watching, pollers, told, reads,
                 memory, watch, tickets, act, refires, history>>

(* poller.start() of the next role: the initial scan announces the files.  *)
OpenPoller(role) ==
  LET scanned == {t \in files : RoleOf[t] = role} IN
  /\ phase = "starting"
  /\ role = pollers + 1
  /\ role \notin watching
  /\ watching' = watching \cup {role}
  /\ told' = told \cup scanned
  /\ reads' = [t \in Tasks |-> reads[t] + IF t \in scanned THEN 1 ELSE 0]
  /\ UNCHANGED <<files, written, log, cur, phase, pollers, memory, watch,
                 tickets, act, refires, history>>

(* The watcher is ready: the poller enters this.pollers.  After the last   *)
(* one the supervisor starts to listen.                                    *)
PollerReady(role) ==
  /\ phase = "starting"
  /\ role = pollers + 1
  /\ role \in watching
  /\ pollers' = role
  /\ phase' = IF role = NumRoles THEN "running" ELSE phase
  /\ UNCHANGED <<files, written, log, cur, watching, told, reads, memory,
                 watch, tickets, act, refires, history>>

(* stop() stops the supervisor and then each poller in turn.               *)
Stop ==
  /\ phase = "running"
  /\ phase' = "stopping"
  /\ watch' = Unwatched
  /\ UNCHANGED <<files, written, log, cur, watching, pollers, told, reads,
                 memory, tickets, act, refires, history>>

(* A watcher is closed; after the last one this.pollers is cleared.        *)
StopPoller(role) ==
  /\ phase = "stopping"
  /\ role \in watching
  /\ \A other \in watching : role <= other
  /\ watching' = watching \ {role}
  /\ pollers' = IF watching' = {} THEN 0 ELSE pollers
  /\ UNCHANGED <<files, written, log, cur, phase, told, reads, memory, watch,
                 tickets, act, refires, history>>

(* No runtime is left, or none that anything refers to.                    *)
Clear ==
  /\ phase' = "none"
  /\ watching' = {}
  /\ pollers' = 0
  /\ reads' = NoneYet
  /\ queue' = NoQueues
  /\ dispatching' = NoEntries
  /\ inFlight' = {}
  /\ watch' = Unwatched
  /\ alerts' = NoneYet

(* The persistent containers are stopped, and the memory is cleared.       *)
StopEnds ==
  /\ phase = "stopping"
  /\ watching = {}
  /\ Clear
  /\ UNCHANGED <<files, written, log, cur, told, tickets, act, refires, lost,
                 tried, early>>

(* The server crashes: what was executing gets no terminal event.          *)
Crash ==
  /\ \/ phase # "none"
     \/ tickets > 0
     \/ \E r \in Runtimes, t \in Tasks : act[r][t] # "none"
  /\ Clear
  /\ tickets' = 0
  /\ act' = NoActs
  /\ lost' = [t \in Tasks |-> lost[t] + Cardinality(Open(t))]
  /\ UNCHANGED <<files, written, log, cur, told, refires, tried, early>>

----------------------------------------------------------------------------
DispatchStep(r, t) ==
  \/ LogStarted(r, t)
  \/ \E ending \in Endings : ExecuteEnds(r, t, ending)
  \/ LogCompleted(r, t)
  \/ LogFailed(r, t)
  \/ RemoveFile(r, t)

Next ==
  \/ \E t \in Tasks :
       \/ Drop(t) \/ Announce(t) \/ Refire(t) \/ ReadFails(t)
       \/ EnqueueDispatch(t) \/ Tick(t) \/ WriteTicket(t)
       \/ \E r \in Runtimes : DispatchStep(r, t)
  \/ \E role \in Roles : OpenPoller(role) \/ PollerReady(role) \/ StopPoller(role)
  \/ Start \/ StartFails \/ Stop \/ StopEnds \/ Crash

Spec == Init /\ [][Next]_vars

(* Node runs what is ready, watchers report, and an agent's run settles.   *)
Fairness ==
  /\ \A t \in Tasks :
       /\ WF_vars(Announce(t))
       /\ WF_vars(ReadFails(t) \/ EnqueueDispatch(t))
       /\ \A r \in Runtimes : WF_vars(DispatchStep(r, t))
  /\ \A role \in Roles :
       WF_vars(OpenPoller(role) \/ PollerReady(role) \/ StopPoller(role))
  /\ WF_vars(StopEnds)

FairSpec == Spec /\ Fairness

----------------------------------------------------------------------------
(* Properties                                                              *)

ToSet(q) == {q[i] : i \in 1..Len(q)}

Waits(t) == t \in ToSet(queue[RoleOf[t]])

(* A role works on one task at a time, and on the one that _dispatching    *)
(* names: the order within a role's queue, and the one container of a      *)
(* persistent agent, depend on it (company-runtime.js:132-142).            *)
OneDispatchPerRole ==
  phase # "none" =>
    \A t \in Tasks : (act[cur][t] # "none") <=> (dispatching[RoleOf[t]] = t)

(* However often the watchers fire, a path waits or is worked on at most   *)
(* once, and _inFlightPaths says exactly which do: a path left in the set  *)
(* would never be dispatched again (company-runtime.js:241-255, 275).      *)
NoDoubleDispatch ==
  /\ \A t \in Tasks :
       t \in inFlight <=> Waits(t) \/ t = dispatching[RoleOf[t]]
  /\ \A role \in Roles :
       /\ dispatching[role] \notin ToSet(queue[role])
       /\ \A i, j \in 1..Len(queue[role]) :
            queue[role][i] = queue[role][j] => i = j

(* A file leaves the queue only when its completion is in the log: across  *)
(* failures, stops and crashes no task is lost (company-runtime.js:360-369)*)
NoTaskLost == \A t \in written \ files : log[t]["completed"] > 0

(* A role that has work is working: each event and each end of a dispatch  *)
(* takes the next task.  The exception is the first role before it took    *)
(* its first task, since its files may be read before its poller is in     *)
(* this.pollers (company-runtime.js:228-229, 267, 279).                    *)
IdleRoleIsEmpty ==
  \A role \in Roles :
    pollers > 0 /\ dispatching[role] = NoTask /\ queue[role] # << >> =>
      /\ role = 1
      /\ \A t \in tried : RoleOf[t] # role

(* Until a runtime is stopped, every announced file is being read, or      *)
(* waits, or was given to the runner: no event falls between the poller    *)
(* and the dispatcher (company-runtime.js:218-228, 247-270), and what      *)
(* waits does not wait for an idle role.                                   *)
NothingForgotten ==
  /\ phase # "none" =>
       \A t \in files \cap told :
         reads[t] > 0 \/ Waits(t) \/ t = dispatching[RoleOf[t]] \/ t \in tried
  /\ IdleRoleIsEmpty

(* Every dispatch the log shows as started has one terminal event, unless  *)
(* it is still under way or a crash cut it off (company-runtime.js:318-358)*)
LogBalances ==
  \A t \in Tasks :
    log[t]["started"] = log[t]["completed"] + log[t]["failed"] + log[t]["error"]
                        + Cardinality(Open(t)) + lost[t]

(* One alert per stuck dispatch, though ticks overlap (supervisor.js:19).  *)
OneAlertPerDispatch == \A t \in Tasks : alerts[t] <= 1

(* The watchdog watches exactly the dispatches that have no result yet,    *)
(* but for those that began before it listened (supervisor.js:67-79), and  *)
(* alerts once about each.                                                 *)
WatchIsAccurate ==
  /\ phase = "running" =>
       \A t \in Tasks \ early :
         watch[t] # "no" <=> act[cur][t] \in {"announced", "executing", "error"}
  /\ OneAlertPerDispatch

(* What is announced gets its turn, and the log and the watchdog know of   *)
(* the same dispatches as the runtime.                                     *)
WorkIsFollowed == NothingForgotten /\ LogBalances /\ WatchIsAccurate

(* What "the next start picks it up again" says (company-runtime.js:285):  *)
(* a file that lies in a queue is given to the runner, or start() fails    *)
(* or the runtime stops.                                                   *)
PickedUpAtStart ==
  \A t \in Tasks :
    phase = "running" /\ t \in files
    ~> phase # "running" \/ t \notin files \/ t \in tried
=============================================================================
