------------------------ MODULE CompanyRuntimeProofs ------------------------
(* Theorems about CompanyRuntime, for every company, every set of tasks    *)
(* and every number of runtimes, watcher events and crashes.               *)
EXTENDS CompanyRuntime, FiniteSetTheorems, TLAPS

USE CompanyAssumption

Watches == {"no", "yes", "alerted"}

-----------------------------------------------------------------------------
(* Type correctness                                                        *)

(* What _processNextDispatch leaves behind, whoever calls it.              *)
LEMMA ProcessNextType ==
  ASSUME TypeOK,
         NEW role \in Roles,
         NEW q \in Seq(Tasks),
         NEW busy \in Tasks \cup {NoTask},
         NEW acts \in [Runtimes -> [Tasks -> Stages]],
         NEW seen \in [Tasks -> Watches],
         ProcessNext(role, q, busy, acts, seen)
  PROVE  /\ queue' \in [Roles -> Seq(Tasks)]
         /\ dispatching' \in [Roles -> Tasks \cup {NoTask}]
         /\ act' \in [Runtimes -> [Tasks -> Stages]]
         /\ watch' \in [Tasks -> Watches]
         /\ alerts' \in [Tasks -> Nat]
         /\ tried' \subseteq Tasks
         /\ early' \subseteq tried'
<1>1. CASE Free(q, busy)
  <2> DEFINE t == Head(q)
  <2>1. q # << >> /\ t \in Tasks /\ Tail(q) \in Seq(Tasks)
    BY <1>1 DEF Free
  <2>2. /\ queue' = [queue EXCEPT ![role] = Tail(q)]
        /\ dispatching' = [dispatching EXCEPT ![role] = t]
        /\ act' = [acts EXCEPT ![cur][t] = "announced"]
        /\ watch' = IF Listening THEN [seen EXCEPT ![t] = "yes"] ELSE seen
        /\ alerts' = [alerts EXCEPT ![t] = 0]
        /\ tried' = tried \cup {t}
        /\ early' = IF Listening THEN early ELSE early \cup {t}
    BY <1>1 DEF ProcessNext
  <2> HIDE DEF t
  <2>3. act' \in [Runtimes -> [Tasks -> Stages]]
    BY <2>1, <2>2 DEF Stages
  <2>4. watch' \in [Tasks -> Watches]
    BY <2>1, <2>2 DEF Watches
  <2>5. queue' \in [Roles -> Seq(Tasks)]
    BY <2>1, <2>2 DEF TypeOK
  <2>6. /\ dispatching' \in [Roles -> Tasks \cup {NoTask}]
        /\ alerts' \in [Tasks -> Nat]
    BY <2>1, <2>2 DEF TypeOK
  <2>7. tried' \subseteq Tasks /\ early' \subseteq tried'
    BY <2>1, <2>2 DEF TypeOK
  <2>8. QED
    BY <2>3, <2>4, <2>5, <2>6, <2>7
<1>2. CASE ~Free(q, busy)
  <2>1. /\ queue' = [queue EXCEPT ![role] = q]
        /\ dispatching' = [dispatching EXCEPT ![role] = busy]
        /\ act' = acts /\ watch' = seen
        /\ alerts' = alerts /\ tried' = tried /\ early' = early
    BY <1>2 DEF ProcessNext
  <2>2. QED
    BY <2>1 DEF TypeOK
<1>3. QED
  BY <1>1, <1>2

LEMMA FinishType ==
  ASSUME TypeOK, NEW r \in Runtimes, NEW t \in Tasks, Finish(r, t)
  PROVE  /\ queue' \in [Roles -> Seq(Tasks)]
         /\ dispatching' \in [Roles -> Tasks \cup {NoTask}]
         /\ inFlight' \subseteq Tasks
         /\ act' \in [Runtimes -> [Tasks -> Stages]]
         /\ watch' \in [Tasks -> Watches]
         /\ alerts' \in [Tasks -> Nat]
         /\ tried' \subseteq Tasks
         /\ early' \subseteq tried'
<1> DEFINE ended == [act EXCEPT ![r][t] = "none"]
           seen  == [watch EXCEPT ![t] = "no"]
<1>1. ended \in [Runtimes -> [Tasks -> Stages]] /\ seen \in [Tasks -> Watches]
  BY DEF TypeOK, Stages, Watches
<1>2. RoleOf[t] \in Roles /\ queue[RoleOf[t]] \in Seq(Tasks)
  BY DEF TypeOK
<1>3. CASE Alive(r)
  <2>1. /\ inFlight' = inFlight \ {t}
        /\ ProcessNext(RoleOf[t], queue[RoleOf[t]], NoTask, ended, seen)
    BY <1>3 DEF Finish
  <2> HIDE DEF ended, seen
  <2>2. QED
    BY <1>1, <1>2, <2>1, ProcessNextType DEF TypeOK
<1>4. CASE ~Alive(r)
  BY <1>1, <1>4 DEF Finish, TypeOK, memory, Watches
<1>5. QED
  BY <1>3, <1>4

LEMMA LogEventType ==
  ASSUME TypeOK, NEW t \in Tasks, NEW kind \in Kinds, LogEvent(t, kind)
  PROVE  log' \in [Tasks -> [Kinds -> Nat]]
  BY DEF TypeOK, LogEvent

LEMMA QueueStepType ==
  ASSUME TypeOK, NEW t \in Tasks,
         Drop(t) \/ Announce(t) \/ Refire(t) \/ ReadFails(t) \/ EnqueueDispatch(t)
  PROVE  TypeOK'
<1>1. CASE Drop(t)
  BY <1>1 DEF TypeOK, Drop, runtime, memory, history
<1>2. CASE Announce(t)
  BY <1>2 DEF TypeOK, Announce, runtime, memory, history
<1>3. CASE Refire(t)
  <2>1. reads' \in [Tasks -> Nat]
    BY <1>3 DEF TypeOK, Refire
  <2>2. refires' \in 0..MaxRefires
    BY <1>3 DEF TypeOK, Refire
  <2>3. QED
    BY <1>3, <2>1, <2>2 DEF TypeOK, Refire, runtime, memory, history
<1>4. CASE ReadFails(t)
  BY <1>4 DEF TypeOK, ReadFails, runtime, memory, history
<1>5. CASE EnqueueDispatch(t)
  <2>1. reads' \in [Tasks -> Nat]
    BY <1>5 DEF TypeOK, EnqueueDispatch
  <2>2. CASE t \in inFlight
    BY <1>5, <2>1, <2>2 DEF TypeOK, EnqueueDispatch, runtime, memory
  <2>3. CASE t \notin inFlight
    <3>1. /\ RoleOf[t] \in Roles
          /\ Append(queue[RoleOf[t]], t) \in Seq(Tasks)
          /\ dispatching[RoleOf[t]] \in Tasks \cup {NoTask}
          /\ act \in [Runtimes -> [Tasks -> Stages]]
          /\ watch \in [Tasks -> Watches]
      BY DEF TypeOK, Watches
    <3>2. /\ inFlight' = inFlight \cup {t}
          /\ ProcessNext(RoleOf[t], Append(queue[RoleOf[t]], t),
                         dispatching[RoleOf[t]], act, watch)
      BY <1>5, <2>3 DEF EnqueueDispatch
    <3>3. /\ queue' \in [Roles -> Seq(Tasks)]
          /\ dispatching' \in [Roles -> Tasks \cup {NoTask}]
          /\ act' \in [Runtimes -> [Tasks -> Stages]]
          /\ watch' \in [Tasks -> Watches]
          /\ alerts' \in [Tasks -> Nat]
          /\ tried' \subseteq Tasks
          /\ early' \subseteq tried'
      BY <3>1, <3>2, ProcessNextType
    <3>4. QED
      BY <1>5, <2>1, <3>2, <3>3 DEF TypeOK, EnqueueDispatch, runtime, Watches
  <2>4. QED
    BY <2>2, <2>3
<1>6. QED
  BY <1>1, <1>2, <1>3, <1>4, <1>5

LEMMA DispatchStepType ==
  ASSUME TypeOK, NEW r \in Runtimes, NEW t \in Tasks, DispatchStep(r, t)
  PROVE  TypeOK'
<1>1. CASE LogStarted(r, t)
  <2>1. log' \in [Tasks -> [Kinds -> Nat]]
    BY <1>1, LogEventType DEF LogStarted, Kinds
  <2>2. act' \in [Runtimes -> [Tasks -> Stages]]
    BY <1>1 DEF TypeOK, LogStarted, Stages
  <2>3. QED
    BY <1>1, <2>1, <2>2 DEF TypeOK, LogStarted, runtime, memory, history
<1>2. ASSUME NEW ending \in Endings, ExecuteEnds(r, t, ending)
      PROVE  TypeOK'
  <2>1. act' \in [Runtimes -> [Tasks -> Stages]]
    BY <1>2 DEF TypeOK, ExecuteEnds, Stages
  <2>2. watch' \in [Tasks -> Watches]
    BY <1>2 DEF TypeOK, ExecuteEnds, Watches
  <2>3. QED
    BY <1>2, <2>1, <2>2 DEF TypeOK, ExecuteEnds, runtime, memory, history, Watches
<1>3. CASE LogCompleted(r, t)
  <2>1. log' \in [Tasks -> [Kinds -> Nat]]
    BY <1>3, LogEventType DEF LogCompleted, Kinds, Endings
  <2>2. act' \in [Runtimes -> [Tasks -> Stages]]
    BY <1>3 DEF TypeOK, LogCompleted, Stages
  <2>3. QED
    BY <1>3, <2>1, <2>2 DEF TypeOK, LogCompleted, runtime, memory, history
<1>4. CASE LogFailed(r, t)
  <2>1. act[r][t] \in Kinds
    BY <1>4 DEF LogFailed, Kinds, Endings
  <2>2. log' \in [Tasks -> [Kinds -> Nat]]
    BY <1>4, <2>1, LogEventType DEF LogFailed
  <2>3. Finish(r, t)
    BY <1>4 DEF LogFailed
  <2>4. QED
    BY <1>4, <2>2, <2>3, FinishType DEF TypeOK, LogFailed, runtime, Watches
<1>5. CASE RemoveFile(r, t)
  <2>1. Finish(r, t)
    BY <1>5 DEF RemoveFile
  <2>2. QED
    BY <1>5, <2>1, FinishType DEF TypeOK, RemoveFile, runtime, Watches
<1>6. QED
  BY <1>1, <1>2, <1>3, <1>4, <1>5 DEF DispatchStep

LEMMA OpenFinite ==
  ASSUME NEW t \in Tasks
  PROVE  IsFiniteSet(Open(t)) /\ Cardinality(Open(t)) \in Nat
<1>1. IsFiniteSet(Runtimes)
  BY FS_Interval DEF Runtimes
<1>2. Open(t) \subseteq Runtimes
  BY DEF Open
<1>3. QED
  BY <1>1, <1>2, FS_Subset, FS_CardinalityType

LEMMA ClearType ==
  ASSUME TypeOK, Clear
  PROVE  /\ phase' \in {"none", "starting", "running", "stopping"}
         /\ watching' \subseteq Roles
         /\ pollers' \in 0..NumRoles
         /\ reads' \in [Tasks -> Nat]
         /\ queue' \in [Roles -> Seq(Tasks)]
         /\ dispatching' \in [Roles -> Tasks \cup {NoTask}]
         /\ inFlight' \subseteq Tasks
         /\ watch' \in [Tasks -> Watches]
         /\ alerts' \in [Tasks -> Nat]
<1>1. << >> \in Seq(Tasks)
  OBVIOUS
<1>2. QED
  BY <1>1 DEF Clear, NoneYet, NoQueues, NoEntries, Unwatched, Watches

LEMMA LifeStepType ==
  ASSUME TypeOK, NEW role \in Roles,
         \/ OpenPoller(role) \/ PollerReady(role) \/ StopPoller(role)
         \/ Start \/ StartFails \/ Stop \/ StopEnds \/ Crash
  PROVE  TypeOK'
<1>1. CASE OpenPoller(role)
  <2> DEFINE scanned == {t \in files : RoleOf[t] = role}
  <2>1. scanned \subseteq Tasks
    BY DEF TypeOK
  <2>2. reads' = [t \in Tasks |-> reads[t] + IF t \in scanned THEN 1 ELSE 0]
    BY <1>1 DEF OpenPoller
  <2>3. reads' \in [Tasks -> Nat]
    BY <2>2 DEF TypeOK
  <2>4. told' \subseteq Tasks
    BY <1>1, <2>1 DEF OpenPoller, TypeOK
  <2>5. QED
    BY <1>1, <2>3, <2>4 DEF TypeOK, OpenPoller, memory, history
<1>2. CASE PollerReady(role)
  BY <1>2 DEF TypeOK, PollerReady, memory, history, Roles
<1>3. CASE StopPoller(role)
  BY <1>3 DEF TypeOK, StopPoller, memory, history
<1>4. CASE Start
  BY <1>4 DEF TypeOK, Start, memory
<1>5. CASE StartFails
  BY <1>5 DEF TypeOK, StartFails, memory, history
<1>6. CASE Stop
  BY <1>6 DEF TypeOK, Stop, memory, history, Unwatched
<1>7. CASE StopEnds
  BY <1>7, ClearType DEF TypeOK, StopEnds, Watches
<1>8. CASE Crash
  <2>1. act' \in [Runtimes -> [Tasks -> Stages]]
    BY <1>8 DEF Crash, NoActs, Stages
  <2>2. lost' \in [Tasks -> Nat]
    BY <1>8, OpenFinite DEF Crash, TypeOK
  <2>3. QED
    BY <1>8, <2>1, <2>2, ClearType DEF TypeOK, Crash, Watches
<1>9. QED
  BY <1>1, <1>2, <1>3, <1>4, <1>5, <1>6, <1>7, <1>8

LEMMA SupervisorStepType ==
  ASSUME TypeOK, NEW t \in Tasks, Tick(t) \/ WriteTicket(t)
  PROVE  TypeOK'
<1>1. CASE Tick(t)
  BY <1>1 DEF TypeOK, Tick, runtime, memory
<1>2. CASE WriteTicket(t)
  BY <1>2 DEF TypeOK, WriteTicket, runtime, memory, history
<1>3. QED
  BY <1>1, <1>2

LEMMA TypeInit == Init => TypeOK
<1> SUFFICES ASSUME Init
             PROVE  TypeOK
  OBVIOUS
<1>1. << >> \in Seq(Tasks)
  OBVIOUS
<1>2. log \in [Tasks -> [Kinds -> Nat]] /\ act \in [Runtimes -> [Tasks -> Stages]]
  BY DEF Init, NoActs, Stages
<1>3. QED
  BY <1>1, <1>2 DEF Init, TypeOK, NoneYet, NoQueues, NoEntries, Unwatched

LEMMA TypeStep == TypeOK /\ [Next]_vars => TypeOK'
<1> SUFFICES ASSUME TypeOK, [Next]_vars
             PROVE  TypeOK'
  OBVIOUS
<1>1. ASSUME NEW t \in Tasks,
             \/ Drop(t) \/ Announce(t) \/ Refire(t) \/ ReadFails(t)
             \/ EnqueueDispatch(t)
      PROVE  TypeOK'
  BY <1>1, QueueStepType
<1>2. ASSUME NEW t \in Tasks, Tick(t) \/ WriteTicket(t)
      PROVE  TypeOK'
  BY <1>2, SupervisorStepType
<1>3. ASSUME NEW t \in Tasks, NEW r \in Runtimes, DispatchStep(r, t)
      PROVE  TypeOK'
  BY <1>3, DispatchStepType
<1>4. ASSUME NEW role \in Roles,
             OpenPoller(role) \/ PollerReady(role) \/ StopPoller(role)
      PROVE  TypeOK'
  BY <1>4, LifeStepType
<1>5. CASE Start \/ StartFails \/ Stop \/ StopEnds \/ Crash
  BY <1>5, LifeStepType, CeoRole \in Roles
<1>6. CASE UNCHANGED vars
  BY <1>6 DEF TypeOK, vars, runtime, memory, history
<1>7. QED
  BY <1>1, <1>2, <1>3, <1>4, <1>5, <1>6 DEF Next

(* TypeOK holds for every company.                                         *)
THEOREM TypeCorrect == Spec => []TypeOK
  BY TypeInit, TypeStep, PTL DEF Spec

-----------------------------------------------------------------------------
(* How the stage of a dispatch changes                                     *)

(* A dispatch begins only in the current runtime, while it has pollers.    *)
Begins(r, stage) == stage = "announced" /\ r = cur /\ pollers > 0

LEMMA ProcessNextActs ==
  ASSUME NEW role, NEW q, NEW busy, NEW seen,
         NEW acts \in [Runtimes -> [Tasks -> Stages]],
         ProcessNext(role, q, busy, acts, seen),
         NEW r \in Runtimes, NEW t \in Tasks,
         act'[r][t] # acts[r][t]
  PROVE  Begins(r, act'[r][t])
<1>1. CASE Free(q, busy)
  <2>1. act' = [acts EXCEPT ![cur][Head(q)] = "announced"] /\ pollers > 0
    BY <1>1 DEF ProcessNext, Free
  <2>2. QED
    BY <2>1 DEF Begins
<1>2. CASE ~Free(q, busy)
  BY <1>2 DEF ProcessNext
<1>3. QED
  BY <1>1, <1>2

LEMMA FinishActs ==
  ASSUME TypeOK, NEW r \in Runtimes, NEW t \in Tasks, Finish(r, t),
         NEW s \in Runtimes, NEW u \in Tasks,
         act'[s][u] # act[s][u]
  PROVE  act'[s][u] = "none" \/ Begins(s, act'[s][u])
<1> DEFINE ended == [act EXCEPT ![r][t] = "none"]
           seen  == [watch EXCEPT ![t] = "no"]
<1>1. /\ ended \in [Runtimes -> [Tasks -> Stages]]
      /\ ended[s][u] = act[s][u] \/ ended[s][u] = "none"
  BY DEF TypeOK, Stages
<1>2. CASE Alive(r)
  <2>1. ProcessNext(RoleOf[t], queue[RoleOf[t]], NoTask, ended, seen)
    BY <1>2 DEF Finish
  <2> HIDE DEF ended, seen
  <2>2. act'[s][u] = ended[s][u] \/ Begins(s, act'[s][u])
    BY <1>1, <2>1, ProcessNextActs
  <2>3. QED
    BY <1>1, <2>2
<1>3. CASE ~Alive(r)
  BY <1>1, <1>3 DEF Finish
<1>4. QED
  BY <1>2, <1>3

(* The stages a step can lead to, and what it means to reach each.         *)
Reached(r, t) ==
  \/ act'[r][t] = "none"
  \/ Begins(r, act'[r][t])
  \/ act[r][t] # "none" /\ act'[r][t] \in {"executing"} \cup Endings
  \/ act[r][t] # "none" /\ act'[r][t] = "removing" /\ log'[t]["completed"] > 0

LEMMA DispatchStepActs ==
  ASSUME TypeOK, NEW r \in Runtimes, NEW t \in Tasks, DispatchStep(r, t),
         NEW s \in Runtimes, NEW u \in Tasks,
         act'[s][u] # act[s][u]
  PROVE  Reached(s, u)
<1>1. CASE LogStarted(r, t)
  BY <1>1 DEF TypeOK, LogStarted, Reached
<1>2. ASSUME NEW ending \in Endings, ExecuteEnds(r, t, ending)
      PROVE  Reached(s, u)
  BY <1>2 DEF TypeOK, ExecuteEnds, Reached
<1>3. CASE LogCompleted(r, t)
  <2>1. act' = [act EXCEPT ![r][t] = "removing"] /\ act[r][t] = "completed"
    BY <1>3 DEF LogCompleted
  <2>2. s = r /\ u = t /\ act'[s][u] = "removing"
    BY <2>1 DEF TypeOK
  <2>3. log' = [log EXCEPT ![t]["completed"] = @ + 1]
    BY <1>3 DEF LogCompleted, LogEvent
  <2>4. "completed" \in Kinds
    BY DEF Kinds, Endings
  <2>5. log'[t]["completed"] > 0
    BY <2>3, <2>4 DEF TypeOK
  <2>6. QED
    BY <2>1, <2>2, <2>5 DEF Reached
<1>4. CASE LogFailed(r, t)
  BY <1>4, FinishActs DEF LogFailed, Reached
<1>5. CASE RemoveFile(r, t)
  BY <1>5, FinishActs DEF RemoveFile, Reached
<1>6. QED
  BY <1>1, <1>2, <1>3, <1>4, <1>5 DEF DispatchStep

LEMMA StepActs ==
  ASSUME TypeOK, [Next]_vars,
         NEW s \in Runtimes, NEW u \in Tasks,
         act'[s][u] # act[s][u]
  PROVE  Reached(s, u)
<1>1. ASSUME NEW t \in Tasks, NEW r \in Runtimes, DispatchStep(r, t)
      PROVE  Reached(s, u)
  BY <1>1, DispatchStepActs
<1>2. ASSUME NEW t \in Tasks, EnqueueDispatch(t)
      PROVE  Reached(s, u)
  <2>0. t \notin inFlight
    BY <1>2 DEF EnqueueDispatch
  <2>1. ProcessNext(RoleOf[t], Append(queue[RoleOf[t]], t),
                    dispatching[RoleOf[t]], act, watch)
    BY <1>2, <2>0 DEF EnqueueDispatch
  <2> DEFINE q == Append(queue[RoleOf[t]], t)
             busy == dispatching[RoleOf[t]]
  <2> HIDE DEF q, busy
  <2>3. ProcessNext(RoleOf[t], q, busy, act, watch)
    BY <2>1 DEF q, busy
  <2>4. act \in [Runtimes -> [Tasks -> Stages]]
    BY DEF TypeOK
  <2>2. Begins(s, act'[s][u])
    BY <2>3, <2>4, ProcessNextActs
  <2>5. QED
    BY <2>2 DEF Reached
<1>3. CASE Crash
  BY <1>3 DEF Crash, NoActs, Reached
<1>4. ASSUME NEW t \in Tasks,
             \/ Drop(t) \/ Announce(t) \/ Refire(t) \/ ReadFails(t)
             \/ Tick(t) \/ WriteTicket(t)
      PROVE  FALSE
  BY <1>4 DEF Drop, Announce, Refire, ReadFails, Tick, WriteTicket
<1>5. ASSUME NEW role \in Roles,
             OpenPoller(role) \/ PollerReady(role) \/ StopPoller(role)
      PROVE  FALSE
  BY <1>5 DEF OpenPoller, PollerReady, StopPoller
<1>6. CASE Start \/ StartFails \/ Stop \/ StopEnds \/ UNCHANGED vars
  BY <1>6 DEF Start, StartFails, Stop, StopEnds, vars
<1>7. QED
  BY <1>1, <1>2, <1>3, <1>4, <1>5, <1>6 DEF Next

-----------------------------------------------------------------------------
(* No task is lost                                                         *)

(* A dispatch that removes its file has logged the completion.             *)
RemovedIsLogged ==
  \A r \in Runtimes, t \in Tasks :
    act[r][t] = "removing" => log[t]["completed"] > 0

LEMMA LogGrows ==
  ASSUME TypeOK, [Next]_vars, NEW t \in Tasks, log[t]["completed"] > 0
  PROVE  log'[t]["completed"] > 0
<1>1. ASSUME NEW u \in Tasks, NEW kind \in Kinds, LogEvent(u, kind)
      PROVE  log'[t]["completed"] > 0
  <2>1. log' = [log EXCEPT ![u] = [log[u] EXCEPT ![kind] = @ + 1]]
    BY <1>1 DEF LogEvent
  <2>2. "completed" \in Kinds /\ log[t] \in [Kinds -> Nat] /\ log[u] \in [Kinds -> Nat]
    BY DEF TypeOK, Kinds, Endings
  <2>3. CASE t = u
    <3>1. log'[t] = [log[t] EXCEPT ![kind] = @ + 1]
      BY <2>1, <2>3 DEF TypeOK
    <3>2. QED
      BY <2>2, <3>1
  <2>4. CASE t # u
    BY <2>1, <2>4 DEF TypeOK
  <2>5. QED
    BY <2>3, <2>4
<1>2. ASSUME NEW u \in Tasks, NEW r \in Runtimes, DispatchStep(r, u)
      PROVE  log'[t]["completed"] > 0
  <2>1. CASE LogStarted(r, u)
    BY <1>1, <2>1 DEF LogStarted, Kinds
  <2>2. ASSUME NEW ending \in Endings, ExecuteEnds(r, u, ending)
        PROVE  log'[t]["completed"] > 0
    BY <2>2 DEF ExecuteEnds
  <2>3. CASE LogCompleted(r, u)
    BY <1>1, <2>3 DEF LogCompleted, Kinds, Endings
  <2>4. CASE LogFailed(r, u)
    BY <1>1, <2>4 DEF LogFailed, Kinds, Endings
  <2>5. CASE RemoveFile(r, u)
    BY <2>5 DEF RemoveFile
  <2>6. QED
    BY <1>2, <2>1, <2>2, <2>3, <2>4, <2>5 DEF DispatchStep
<1>3. ASSUME NEW u \in Tasks,
             \/ Drop(u) \/ Announce(u) \/ Refire(u) \/ ReadFails(u)
             \/ EnqueueDispatch(u) \/ Tick(u) \/ WriteTicket(u)
      PROVE  log' = log
  BY <1>3 DEF Drop, Announce, Refire, ReadFails, EnqueueDispatch, Tick, WriteTicket
<1>4. ASSUME NEW role \in Roles,
             OpenPoller(role) \/ PollerReady(role) \/ StopPoller(role)
      PROVE  log' = log
  BY <1>4 DEF OpenPoller, PollerReady, StopPoller
<1>5. CASE Start \/ StartFails \/ Stop \/ StopEnds \/ Crash \/ UNCHANGED vars
  BY <1>5 DEF Start, StartFails, Stop, StopEnds, Crash, vars
<1>6. QED
  BY <1>2, <1>3, <1>4, <1>5 DEF Next

LEMMA RemovedStep ==
  ASSUME TypeOK, RemovedIsLogged, [Next]_vars
  PROVE  RemovedIsLogged'
<1> SUFFICES ASSUME NEW r \in Runtimes, NEW t \in Tasks, act'[r][t] = "removing"
             PROVE  log'[t]["completed"] > 0
  BY DEF RemovedIsLogged
<1>1. CASE act[r][t] = "removing"
  BY <1>1, LogGrows DEF RemovedIsLogged
<1>2. CASE act[r][t] # "removing"
  BY <1>2, StepActs DEF Reached, Begins, Endings
<1>3. QED
  BY <1>1, <1>2

(* A file is gone in the next state and was not before, or was written.    *)
LEMMA FilesStep ==
  ASSUME TypeOK, RemovedIsLogged, [Next]_vars, NEW t \in written' \ files'
  PROVE  t \in written \ files \/ log[t]["completed"] > 0
<1>1. ASSUME NEW u \in Tasks, NEW r \in Runtimes, RemoveFile(r, u)
      PROVE  t \in written \ files \/ log[t]["completed"] > 0
  BY <1>1 DEF RemoveFile, RemovedIsLogged
<1>2. ASSUME NEW u \in Tasks, NEW r \in Runtimes, DispatchStep(r, u),
             ~RemoveFile(r, u)
      PROVE  t \in written \ files
  BY <1>2 DEF DispatchStep, LogStarted, ExecuteEnds, LogCompleted, LogFailed
<1>3. ASSUME NEW u \in Tasks,
             \/ Drop(u) \/ Announce(u) \/ Refire(u) \/ ReadFails(u)
             \/ EnqueueDispatch(u) \/ Tick(u) \/ WriteTicket(u)
      PROVE  t \in written \ files
  BY <1>3 DEF Drop, Announce, Refire, ReadFails, EnqueueDispatch, Tick, WriteTicket
<1>4. ASSUME NEW role \in Roles,
             OpenPoller(role) \/ PollerReady(role) \/ StopPoller(role)
      PROVE  t \in written \ files
  BY <1>4 DEF OpenPoller, PollerReady, StopPoller
<1>5. CASE Start \/ StartFails \/ Stop \/ StopEnds \/ Crash \/ UNCHANGED vars
  BY <1>5 DEF Start, StartFails, Stop, StopEnds, Crash, vars
<1>6. QED
  BY <1>1, <1>2, <1>3, <1>4, <1>5 DEF Next

LEMMA NoTaskLostStep ==
  ASSUME TypeOK, RemovedIsLogged, NoTaskLost, [Next]_vars
  PROVE  NoTaskLost'
<1> SUFFICES ASSUME NEW t \in written' \ files'
             PROVE  log'[t]["completed"] > 0
  BY DEF NoTaskLost
<1>1. log[t]["completed"] > 0
  BY FilesStep DEF NoTaskLost
<1>2. t \in Tasks
  BY TypeStep DEF TypeOK
<1>3. QED
  BY <1>1, <1>2, LogGrows

(* Whatever fails, is stopped or crashes, a task whose file left its queue *)
(* was completed.                                                          *)
THEOREM TasksAreKept == Spec => []NoTaskLost
<1> DEFINE Inv == TypeOK /\ RemovedIsLogged /\ NoTaskLost
<1>1. Init => Inv
  <2> SUFFICES ASSUME Init
               PROVE  Inv
    OBVIOUS
  <2>1. TypeOK
    BY TypeInit
  <2>2. RemovedIsLogged /\ NoTaskLost
    BY DEF Init, RemovedIsLogged, NoTaskLost, NoActs
  <2>3. QED
    BY <2>1, <2>2
<1>2. Inv /\ [Next]_vars => Inv'
  BY TypeStep, RemovedStep, NoTaskLostStep
<1>3. QED
  BY <1>1, <1>2, PTL DEF Spec

-----------------------------------------------------------------------------
(* One alert per dispatch                                                  *)

(* A dispatch whose entry is not marked has had no alert.                  *)
WatchedIsCalm == \A t \in Tasks : watch[t] = "yes" => alerts[t] = 0

LEMMA ProcessNextCalm ==
  ASSUME TypeOK, OneAlertPerDispatch,
         NEW role, NEW q, NEW busy, NEW acts,
         NEW seen \in [Tasks -> Watches],
         \A t \in Tasks : seen[t] = "yes" => alerts[t] = 0,
         ProcessNext(role, q, busy, acts, seen)
  PROVE  (WatchedIsCalm /\ OneAlertPerDispatch)'
<1>1. CASE Free(q, busy)
  <2> DEFINE t == Head(q)
  <2>1. /\ watch' = IF Listening THEN [seen EXCEPT ![t] = "yes"] ELSE seen
        /\ alerts' = [alerts EXCEPT ![t] = 0]
    BY <1>1 DEF ProcessNext
  <2> HIDE DEF t
  <2>2. ASSUME NEW u \in Tasks
        PROVE  (watch'[u] = "yes" => alerts'[u] = 0) /\ alerts'[u] <= 1
    BY <2>1 DEF TypeOK, OneAlertPerDispatch
  <2>3. QED
    BY <2>2 DEF WatchedIsCalm, OneAlertPerDispatch
<1>2. CASE ~Free(q, busy)
  BY <1>2 DEF ProcessNext, WatchedIsCalm, OneAlertPerDispatch
<1>3. QED
  BY <1>1, <1>2

LEMMA FinishCalm ==
  ASSUME TypeOK, WatchedIsCalm, OneAlertPerDispatch,
         NEW r \in Runtimes, NEW t \in Tasks, Finish(r, t)
  PROVE  (WatchedIsCalm /\ OneAlertPerDispatch)'
<1> DEFINE seen == [watch EXCEPT ![t] = "no"]
           ended == [act EXCEPT ![r][t] = "none"]
<1>1. /\ seen \in [Tasks -> Watches]
      /\ \A u \in Tasks : seen[u] = "yes" => alerts[u] = 0
  BY DEF TypeOK, Watches, WatchedIsCalm
<1>2. CASE Alive(r)
  <2>1. ProcessNext(RoleOf[t], queue[RoleOf[t]], NoTask, ended, seen)
    BY <1>2 DEF Finish
  <2> HIDE DEF seen, ended
  <2>2. QED
    BY <1>1, <2>1, ProcessNextCalm
<1>3. CASE ~Alive(r)
  BY <1>3 DEF Finish, WatchedIsCalm, OneAlertPerDispatch
<1>4. QED
  BY <1>2, <1>3

LEMMA CalmStep ==
  ASSUME TypeOK, WatchedIsCalm, OneAlertPerDispatch, [Next]_vars
  PROVE  (WatchedIsCalm /\ OneAlertPerDispatch)'
<1> DEFINE Goal == (WatchedIsCalm /\ OneAlertPerDispatch)'
<1>1. ASSUME NEW t \in Tasks, EnqueueDispatch(t)
      PROVE  Goal
  <2>1. CASE t \in inFlight
    BY <1>1, <2>1 DEF EnqueueDispatch, WatchedIsCalm, OneAlertPerDispatch
  <2>2. CASE t \notin inFlight
    <3>1. ProcessNext(RoleOf[t], Append(queue[RoleOf[t]], t),
                      dispatching[RoleOf[t]], act, watch)
      BY <1>1, <2>2 DEF EnqueueDispatch
    <3>2. /\ watch \in [Tasks -> Watches]
          /\ \A u \in Tasks : watch[u] = "yes" => alerts[u] = 0
      BY DEF TypeOK, Watches, WatchedIsCalm
    <3> DEFINE q == Append(queue[RoleOf[t]], t)
               busy == dispatching[RoleOf[t]]
    <3> HIDE DEF q, busy
    <3>3. ProcessNext(RoleOf[t], q, busy, act, watch)
      BY <3>1 DEF q, busy
    <3>4. QED
      BY <3>2, <3>3, ProcessNextCalm
  <2>3. QED
    BY <2>1, <2>2
<1>2. ASSUME NEW t \in Tasks, Tick(t)
      PROVE  Goal
  <2>1. /\ watch[t] = "yes" /\ watch' = [watch EXCEPT ![t] = "alerted"]
        /\ alerts' = [alerts EXCEPT ![t] = @ + 1]
    BY <1>2 DEF Tick
  <2>2. alerts[t] = 0
    BY <2>1 DEF WatchedIsCalm
  <2>3. ASSUME NEW u \in Tasks
        PROVE  (watch'[u] = "yes" => alerts'[u] = 0) /\ alerts'[u] <= 1
    BY <2>1, <2>2 DEF TypeOK, WatchedIsCalm, OneAlertPerDispatch
  <2>4. QED
    BY <2>3 DEF WatchedIsCalm, OneAlertPerDispatch
<1>3. ASSUME NEW t \in Tasks, NEW r \in Runtimes, DispatchStep(r, t)
      PROVE  Goal
  <2>1. CASE LogStarted(r, t) \/ LogCompleted(r, t)
    BY <2>1 DEF LogStarted, LogCompleted, history, WatchedIsCalm, OneAlertPerDispatch
  <2>2. ASSUME NEW ending \in Endings, ExecuteEnds(r, t, ending)
        PROVE  Goal
    BY <2>2 DEF ExecuteEnds, history, TypeOK, WatchedIsCalm, OneAlertPerDispatch
  <2>3. CASE LogFailed(r, t) \/ RemoveFile(r, t)
    BY <2>3, <1>3, FinishCalm DEF LogFailed, RemoveFile
  <2>4. QED
    BY <1>3, <2>1, <2>2, <2>3 DEF DispatchStep
<1>4. ASSUME watch' = Unwatched, \A t \in Tasks : alerts'[t] <= 1
      PROVE  Goal
  BY <1>4 DEF Unwatched, WatchedIsCalm, OneAlertPerDispatch
<1>5. ASSUME Stop \/ StopEnds \/ Crash
      PROVE  Goal
  BY <1>4, <1>5 DEF Stop, StopEnds, Crash, Clear, NoneYet, history, OneAlertPerDispatch
<1>6. ASSUME UNCHANGED <<watch, alerts>>
      PROVE  Goal
  BY <1>6 DEF WatchedIsCalm, OneAlertPerDispatch
<1>7. ASSUME NEW t \in Tasks,
             \/ Drop(t) \/ Announce(t) \/ Refire(t) \/ ReadFails(t)
             \/ WriteTicket(t)
      PROVE  Goal
  BY <1>6, <1>7 DEF Drop, Announce, Refire, ReadFails, WriteTicket, history
<1>8. ASSUME NEW role \in Roles,
             OpenPoller(role) \/ PollerReady(role) \/ StopPoller(role)
      PROVE  Goal
  BY <1>6, <1>8 DEF OpenPoller, PollerReady, StopPoller, history
<1>9. ASSUME Start \/ StartFails \/ UNCHANGED vars
      PROVE  Goal
  BY <1>6, <1>9 DEF Start, StartFails, vars, history
<1>10. QED
  BY <1>1, <1>2, <1>3, <1>5, <1>7, <1>8, <1>9 DEF Next

(* Overlapping ticks never escalate one dispatch twice.                    *)
THEOREM OneAlertEach == Spec => []OneAlertPerDispatch
<1>1. Init => WatchedIsCalm /\ OneAlertPerDispatch
  BY DEF Init, NoneYet, Unwatched, WatchedIsCalm, OneAlertPerDispatch
<1>2. QED
  BY <1>1, CalmStep, TypeInit, TypeStep, PTL DEF Spec

-----------------------------------------------------------------------------
(* One dispatch per role, and each path at most once                       *)

(* What holds of the queues Q, the entries D, the paths F and the          *)
(* dispatches A of the current runtime between two calls.                  *)
Ordered(Q, D, F, A) ==
  /\ \A t \in Tasks : A[cur][t] # "none" <=> D[RoleOf[t]] = t
  /\ \A role \in Roles : D[role] # NoTask => RoleOf[D[role]] = role
  /\ \A role \in Roles : \A i \in 1..Len(Q[role]) : RoleOf[Q[role][i]] = role
  /\ \A t \in Tasks :
       t \in F <=> \/ \E i \in 1..Len(Q[RoleOf[t]]) : Q[RoleOf[t]][i] = t
                 \/ t = D[RoleOf[t]]
  /\ \A role \in Roles : \A i \in 1..Len(Q[role]) : Q[role][i] # D[role]
  /\ \A role \in Roles : \A i, j \in 1..Len(Q[role]) :
       Q[role][i] = Q[role][j] => i = j

DispatchOrdered ==
  phase # "none" => cur \in Runtimes /\ Ordered(queue, dispatching, inFlight, act)

(* Before the first watcher of a runtime nothing is read, queued or begun. *)
Fresh == phase = "none" \/ (phase = "starting" /\ watching = {})
CleanStart ==
  Fresh => /\ watching = {} /\ pollers = 0 /\ reads = NoneYet
           /\ queue = NoQueues /\ dispatching = NoEntries /\ inFlight = {}

(* A runtime that is not started has no dispatches.                        *)
NoneLater == \A r \in Runtimes, t \in Tasks : r > cur => act[r][t] = "none"

IInv == TypeOK /\ DispatchOrdered /\ CleanStart /\ NoneLater

LEMMA ProcessNextOrdered ==
  ASSUME TypeOK, cur \in Runtimes,
         NEW role \in Roles,
         NEW q \in Seq(Tasks),
         NEW busy \in Tasks \cup {NoTask},
         NEW acts \in [Runtimes -> [Tasks -> Stages]],
         NEW seen, NEW F,
         Ordered([queue EXCEPT ![role] = q], [dispatching EXCEPT ![role] = busy], F, acts),
         ProcessNext(role, q, busy, acts, seen)
  PROVE  Ordered(queue', dispatching', F, act')
<1> DEFINE Q == [queue EXCEPT ![role] = q]
           D == [dispatching EXCEPT ![role] = busy]
<1>1. CASE ~Free(q, busy)
  BY <1>1 DEF ProcessNext
<1>2. CASE Free(q, busy)
  <2> DEFINE t == Head(q)
  <2>1. /\ busy = NoTask /\ q # << >> /\ t \in Tasks /\ t = q[1]
        /\ Len(q) \in Nat \ {0} /\ Len(Tail(q)) = Len(q) - 1
        /\ \A i \in 1..Len(Tail(q)) : Tail(q)[i] = q[i + 1]
    BY <1>2 DEF Free
  <2>2. /\ queue' = [queue EXCEPT ![role] = Tail(q)]
        /\ dispatching' = [dispatching EXCEPT ![role] = t]
        /\ act' = [acts EXCEPT ![cur][t] = "announced"]
    BY <1>2 DEF ProcessNext
  <2>3. /\ Q \in [Roles -> Seq(Tasks)] /\ Q[role] = q
        /\ D \in [Roles -> Tasks \cup {NoTask}] /\ D[role] = NoTask
        /\ \A o \in Roles \ {role} : Q[o] = queue[o] /\ D[o] = dispatching[o]
    BY <2>1 DEF TypeOK
  <2>4. /\ queue'[role] = Tail(q) /\ dispatching'[role] = t
        /\ \A o \in Roles \ {role} : queue'[o] = Q[o] /\ dispatching'[o] = D[o]
    BY <2>2, <2>3 DEF TypeOK
  <2>5. /\ act'[cur][t] = "announced"
        /\ \A u \in Tasks \ {t} : act'[cur][u] = acts[cur][u]
    BY <2>1, <2>2
  <2>6. Ordered(Q, D, F, acts)
    OBVIOUS
  <2> HIDE DEF t, Q, D
  <2>7. RoleOf[t] = role
    <3>1. 1 \in 1..Len(Q[role]) /\ Q[role][1] = t
      BY <2>1, <2>3
    <3>2. \A i \in 1..Len(Q[role]) : RoleOf[Q[role][i]] = role
      BY <2>6 DEF Ordered
    <3>3. QED
      BY <3>1, <3>2
  <2>8. \A u \in Tasks : RoleOf[u] \in Roles
    OBVIOUS
  <2>9. \A u \in Tasks : act'[cur][u] # "none" <=> dispatching'[RoleOf[u]] = u
    <3> SUFFICES ASSUME NEW u \in Tasks
                 PROVE  act'[cur][u] # "none" <=> dispatching'[RoleOf[u]] = u
      OBVIOUS
    <3>1. acts[cur][u] # "none" <=> D[RoleOf[u]] = u
      BY <2>6 DEF Ordered
    <3>2. CASE u = t
      BY <2>4, <2>5, <2>7, <3>2
    <3>3. CASE u # t /\ RoleOf[u] = role
      BY <2>3, <2>4, <2>5, <3>1, <3>3
    <3>4. CASE u # t /\ RoleOf[u] # role
      BY <2>4, <2>5, <2>8, <3>1, <3>4
    <3>5. QED
      BY <3>2, <3>3, <3>4
  <2>10. \A o \in Roles : dispatching'[o] # NoTask => RoleOf[dispatching'[o]] = o
    BY <2>4, <2>6, <2>7 DEF Ordered
  <2>11. \A o \in Roles : \A i \in 1..Len(queue'[o]) : RoleOf[queue'[o][i]] = o
    <3> SUFFICES ASSUME NEW o \in Roles, NEW i \in 1..Len(queue'[o])
                 PROVE  RoleOf[queue'[o][i]] = o
      OBVIOUS
    <3>0. \A k \in 1..Len(Q[o]) : RoleOf[Q[o][k]] = o
      BY <2>6 DEF Ordered
    <3>1. CASE o = role
      <4>1. queue'[o] = Tail(q) /\ Q[o] = q
        BY <2>3, <2>4, <3>1
      <4>2. i \in 1..Len(Tail(q))
        BY <4>1
      <4>3. i + 1 \in 1..Len(q) /\ Tail(q)[i] = q[i + 1]
        BY <2>1, <4>2
      <4>4. QED
        BY <3>0, <3>1, <4>1, <4>3
    <3>2. CASE o # role
      <4>1. queue'[o] = Q[o]
        BY <2>4, <3>2
      <4>2. QED
        BY <3>0, <4>1
    <3>3. QED
      BY <3>1, <3>2
  <2>12. \A u \in Tasks :
           u \in F <=> \/ \E i \in 1..Len(queue'[RoleOf[u]]) : queue'[RoleOf[u]][i] = u
                     \/ u = dispatching'[RoleOf[u]]
    <3> SUFFICES ASSUME NEW u \in Tasks
                 PROVE  u \in F <=>
                          \/ \E i \in 1..Len(queue'[RoleOf[u]]) : queue'[RoleOf[u]][i] = u
                          \/ u = dispatching'[RoleOf[u]]
      OBVIOUS
    <3>1. u \in F <=> \/ \E i \in 1..Len(Q[RoleOf[u]]) : Q[RoleOf[u]][i] = u
                    \/ u = D[RoleOf[u]]
      BY <2>6 DEF Ordered
    <3>2. CASE RoleOf[u] # role
      BY <2>4, <2>8, <3>1, <3>2
    <3>3. CASE RoleOf[u] = role
      <4>1. u \in F <=> \E i \in 1..Len(q) : q[i] = u
        BY <2>3, <3>1, <3>3
      <4>2. ASSUME NEW i \in 1..Len(q), q[i] = u
            PROVE  u = t \/ \E j \in 1..Len(Tail(q)) : Tail(q)[j] = u
        <5>1. CASE i = 1
          BY <2>1, <4>2, <5>1
        <5>2. CASE i # 1
          <6>1. i - 1 \in 1..Len(Tail(q)) /\ Tail(q)[i - 1] = u
            BY <2>1, <4>2, <5>2
          <6>2. QED
            BY <6>1
        <5>3. QED
          BY <5>1, <5>2
      <4>3. ASSUME NEW j \in 1..Len(Tail(q)), Tail(q)[j] = u
            PROVE  \E i \in 1..Len(q) : q[i] = u
        <5>1. j + 1 \in 1..Len(q) /\ q[j + 1] = u
          BY <2>1, <4>3
        <5>2. QED
          BY <5>1
      <4>4. u = t => \E i \in 1..Len(q) : q[i] = u
        BY <2>1
      <4>5. u \in F <=> u = t \/ \E j \in 1..Len(Tail(q)) : Tail(q)[j] = u
        BY <4>1, <4>2, <4>3, <4>4
      <4>6. QED
        BY <2>4, <3>3, <4>5
    <3>4. QED
      BY <3>2, <3>3
  <2>13. \A o \in Roles : \A i \in 1..Len(queue'[o]) : queue'[o][i] # dispatching'[o]
    <3> SUFFICES ASSUME NEW o \in Roles, NEW i \in 1..Len(queue'[o])
                 PROVE  queue'[o][i] # dispatching'[o]
      OBVIOUS
    <3>1. CASE o = role
      <4>1. queue'[o] = Tail(q) /\ Q[o] = q /\ dispatching'[o] = t
        BY <2>3, <2>4, <3>1
      <4>2. i \in 1..Len(Tail(q))
        BY <4>1
      <4>3. /\ i + 1 \in 1..Len(q) /\ 1 \in 1..Len(q) /\ i + 1 # 1
            /\ Tail(q)[i] = q[i + 1]
        BY <2>1, <4>2
      <4>4. q[i + 1] # q[1]
        BY <2>6, <4>1, <4>3 DEF Ordered
      <4>5. QED
        BY <2>1, <4>1, <4>3, <4>4
    <3>2. CASE o # role
      BY <2>4, <2>6, <3>2 DEF Ordered
    <3>3. QED
      BY <3>1, <3>2
  <2>14. \A o \in Roles : \A i, j \in 1..Len(queue'[o]) :
           queue'[o][i] = queue'[o][j] => i = j
    <3> SUFFICES ASSUME NEW o \in Roles,
                        NEW i \in 1..Len(queue'[o]), NEW j \in 1..Len(queue'[o]),
                        queue'[o][i] = queue'[o][j]
                 PROVE  i = j
      OBVIOUS
    <3>0. \A k, l \in 1..Len(Q[o]) : Q[o][k] = Q[o][l] => k = l
      BY <2>6 DEF Ordered
    <3>1. CASE o = role
      <4>1. queue'[o] = Tail(q) /\ Q[o] = q
        BY <2>3, <2>4, <3>1
      <4>2. i \in 1..Len(Tail(q)) /\ j \in 1..Len(Tail(q)) /\ Tail(q)[i] = Tail(q)[j]
        BY <4>1
      <4>3. i + 1 \in 1..Len(q) /\ j + 1 \in 1..Len(q) /\ q[i + 1] = q[j + 1]
        BY <2>1, <4>2
      <4>4. i + 1 = j + 1
        BY <3>0, <4>1, <4>3
      <4>5. QED
        BY <2>1, <4>2, <4>4
    <3>2. CASE o # role
      <4>1. queue'[o] = Q[o]
        BY <2>4, <3>2
      <4>2. QED
        BY <3>0, <4>1
    <3>3. QED
      BY <3>1, <3>2
  <2>15. QED
    BY <2>9, <2>10, <2>11, <2>12, <2>13, <2>14 DEF Ordered
<1>3. QED
  BY <1>1, <1>2

LEMMA EnqueueOrdered ==
  ASSUME TypeOK, cur \in Runtimes, Ordered(queue, dispatching, inFlight, act),
         NEW t \in Tasks, EnqueueDispatch(t)
  PROVE  Ordered(queue', dispatching', inFlight', act')
<1>1. CASE t \in inFlight
  BY <1>1 DEF EnqueueDispatch, memory
<1>2. CASE t \notin inFlight
  <2> DEFINE role == RoleOf[t]
             old  == queue[role]
             q    == Append(old, t)
             F    == inFlight \cup {t}
  <2>1. /\ role \in Roles /\ old \in Seq(Tasks) /\ q \in Seq(Tasks)
        /\ dispatching[role] \in Tasks \cup {NoTask}
        /\ act \in [Runtimes -> [Tasks -> Stages]]
        /\ [dispatching EXCEPT ![role] = dispatching[role]] = dispatching
    BY DEF TypeOK
  <2>2. inFlight' = F /\ ProcessNext(role, q, dispatching[role], act, watch)
    BY <1>2 DEF EnqueueDispatch
  <2>3. /\ Len(q) = Len(old) + 1 /\ Len(old) \in Nat /\ q[Len(old) + 1] = t
        /\ \A i \in 1..Len(old) : q[i] = old[i]
    BY <2>1
  <2>4. Ordered([queue EXCEPT ![role] = q], dispatching, F, act)
    <3> DEFINE Q == [queue EXCEPT ![role] = q]
    <3>1. Q[role] = q /\ \A o \in Roles \ {role} : Q[o] = queue[o]
      BY <2>1 DEF TypeOK
    <3>2. t # dispatching[role] /\ \A i \in 1..Len(old) : old[i] # t
      BY <1>2 DEF Ordered
    <3>3. \A o \in Roles : \A i \in 1..Len(Q[o]) :
            \/ i \in 1..Len(queue[o]) /\ Q[o][i] = queue[o][i]
            \/ o = role /\ i = Len(old) + 1 /\ Q[o][i] = t
      <4> SUFFICES ASSUME NEW o \in Roles, NEW i \in 1..Len(Q[o])
                   PROVE  \/ i \in 1..Len(queue[o]) /\ Q[o][i] = queue[o][i]
                          \/ o = role /\ i = Len(old) + 1 /\ Q[o][i] = t
        OBVIOUS
      <4> HIDE DEF Q, q
      <4>1. CASE o = role
        BY <2>3, <3>1, <4>1
      <4>2. CASE o # role
        BY <3>1, <4>2
      <4>3. QED
        BY <4>1, <4>2
    <3>4. \A o \in Roles : \A i \in 1..Len(queue[o]) : i \in 1..Len(Q[o]) /\ Q[o][i] = queue[o][i]
      <4> SUFFICES ASSUME NEW o \in Roles, NEW i \in 1..Len(queue[o])
                   PROVE  i \in 1..Len(Q[o]) /\ Q[o][i] = queue[o][i]
        OBVIOUS
      <4> HIDE DEF Q, q
      <4>1. CASE o = role
        BY <2>3, <3>1, <4>1
      <4>2. CASE o # role
        BY <3>1, <4>2
      <4>3. QED
        BY <4>1, <4>2
    <3>5. Len(old) + 1 \in 1..Len(Q[role]) /\ Q[role][Len(old) + 1] = t
      BY <2>3, <3>1
    <3> HIDE DEF Q, q, role, old, F
    <3>6. \A o \in Roles : \A i \in 1..Len(Q[o]) : RoleOf[Q[o][i]] = o
      BY <3>3 DEF Ordered, role
    <3>7. \A u \in Tasks :
            u \in F <=> \/ \E i \in 1..Len(Q[RoleOf[u]]) : Q[RoleOf[u]][i] = u
                      \/ u = dispatching[RoleOf[u]]
      <4> SUFFICES ASSUME NEW u \in Tasks
                   PROVE  u \in F <=> \/ \E i \in 1..Len(Q[RoleOf[u]]) : Q[RoleOf[u]][i] = u
                                    \/ u = dispatching[RoleOf[u]]
        OBVIOUS
      <4>1. CASE u = t
        BY <3>5, <4>1 DEF F, role
      <4>2. CASE u # t
        <5>1. RoleOf[u] \in Roles
          OBVIOUS
        <5>2. (\E i \in 1..Len(Q[RoleOf[u]]) : Q[RoleOf[u]][i] = u) <=>
                (\E i \in 1..Len(queue[RoleOf[u]]) : queue[RoleOf[u]][i] = u)
          BY <3>3, <3>4, <4>2, <5>1
        <5>3. QED
          BY <4>2, <5>2 DEF F, Ordered
      <4>3. QED
        BY <4>1, <4>2
    <3>8. \A o \in Roles : \A i \in 1..Len(Q[o]) : Q[o][i] # dispatching[o]
      BY <3>2, <3>3 DEF Ordered
    <3>9. \A o \in Roles : \A i, j \in 1..Len(Q[o]) : Q[o][i] = Q[o][j] => i = j
      <4> SUFFICES ASSUME NEW o \in Roles, NEW i \in 1..Len(Q[o]), NEW j \in 1..Len(Q[o]),
                          Q[o][i] = Q[o][j]
                   PROVE  i = j
        OBVIOUS
      <4>1. CASE i \in 1..Len(queue[o]) /\ j \in 1..Len(queue[o])
        BY <3>4, <4>1 DEF Ordered
      <4>2. CASE ~(i \in 1..Len(queue[o]) /\ j \in 1..Len(queue[o]))
        BY <3>2, <3>3, <4>2 DEF old
      <4>3. QED
        BY <4>1, <4>2
    <3>10. QED
      BY <3>6, <3>7, <3>8, <3>9 DEF Ordered, Q
  <2> HIDE DEF q, F
  <2>5. Ordered(queue', dispatching', F, act')
    BY <2>1, <2>2, <2>4, ProcessNextOrdered
  <2>6. QED
    BY <2>2, <2>5
<1>3. QED
  BY <1>1, <1>2

LEMMA FinishOrdered ==
  ASSUME TypeOK, cur \in Runtimes, phase # "none",
         Ordered(queue, dispatching, inFlight, act),
         NEW r \in Runtimes, NEW t \in Tasks, act[r][t] # "none", Finish(r, t)
  PROVE  Ordered(queue', dispatching', inFlight', act')
<1> DEFINE ended == [act EXCEPT ![r][t] = "none"]
           role  == RoleOf[t]
           D     == [dispatching EXCEPT ![role] = NoTask]
           F     == inFlight \ {t}
           seen  == [watch EXCEPT ![t] = "no"]
<1>1. /\ role \in Roles /\ queue[role] \in Seq(Tasks)
      /\ [queue EXCEPT ![role] = queue[role]] = queue
      /\ ended \in [Runtimes -> [Tasks -> Stages]]
  BY DEF TypeOK, Stages
<1>2. CASE r # cur
  <2>1. act' = ended /\ UNCHANGED <<queue, dispatching, inFlight>>
    BY <1>2 DEF Finish, Alive, memory
  <2>2. act'[cur] = act[cur]
    BY <1>2, <2>1 DEF TypeOK
  <2>3. QED
    BY <2>1, <2>2 DEF Ordered
<1>3. CASE r = cur
  <2>1. inFlight' = F /\ ProcessNext(role, queue[role], NoTask, ended, seen)
    BY <1>3 DEF Finish, Alive
  <2>2. dispatching[role] = t
    BY <1>3 DEF Ordered
  <2>3. /\ D[role] = NoTask
        /\ \A o \in Roles \ {role} : D[o] = dispatching[o]
    BY <1>1 DEF TypeOK
  <2>4. /\ ended[cur][t] = "none"
        /\ \A u \in Tasks \ {t} : ended[cur][u] = act[cur][u]
    BY <1>3 DEF TypeOK
  <2> HIDE DEF D, ended, role
  <2>5. \A u \in Tasks : ended[cur][u] # "none" <=> D[RoleOf[u]] = u
    <3> SUFFICES ASSUME NEW u \in Tasks
                 PROVE  ended[cur][u] # "none" <=> D[RoleOf[u]] = u
      OBVIOUS
    <3>0. RoleOf[u] \in Roles /\ (act[cur][u] # "none" <=> dispatching[RoleOf[u]] = u)
      BY DEF Ordered
    <3>1. CASE u = t
      BY <2>3, <2>4, <3>1 DEF role
    <3>2. CASE u # t /\ RoleOf[u] = role
      BY <2>2, <2>3, <2>4, <3>0, <3>2
    <3>3. CASE u # t /\ RoleOf[u] # role
      BY <2>3, <2>4, <3>0, <3>3
    <3>4. QED
      BY <3>1, <3>2, <3>3
  <2>6. \A o \in Roles : D[o] # NoTask => RoleOf[D[o]] = o
    BY <2>3 DEF Ordered
  <2>7. \A u \in Tasks :
          u \in F <=> \/ \E i \in 1..Len(queue[RoleOf[u]]) : queue[RoleOf[u]][i] = u
                    \/ u = D[RoleOf[u]]
    <3> SUFFICES ASSUME NEW u \in Tasks
                 PROVE  u \in F <=> \/ \E i \in 1..Len(queue[RoleOf[u]]) : queue[RoleOf[u]][i] = u
                                  \/ u = D[RoleOf[u]]
      OBVIOUS
    <3>0. /\ RoleOf[u] \in Roles
          /\ u \in inFlight <=> \/ \E i \in 1..Len(queue[RoleOf[u]]) : queue[RoleOf[u]][i] = u
                               \/ u = dispatching[RoleOf[u]]
      BY DEF Ordered
    <3>1. CASE u = t
      <4>1. \A i \in 1..Len(queue[role]) : queue[role][i] # t
        BY <1>1, <2>2 DEF Ordered
      <4>2. QED
        BY <2>3, <3>1, <4>1 DEF role
    <3>2. CASE u # t /\ RoleOf[u] = role
      BY <2>2, <2>3, <3>0, <3>2
    <3>3. CASE u # t /\ RoleOf[u] # role
      BY <2>3, <3>0, <3>3
    <3>4. QED
      BY <3>1, <3>2, <3>3
  <2>8. \A o \in Roles : \A i \in 1..Len(queue[o]) : queue[o][i] # D[o]
    <3> SUFFICES ASSUME NEW o \in Roles, NEW i \in 1..Len(queue[o])
                 PROVE  queue[o][i] # D[o]
      OBVIOUS
    <3>1. queue[o][i] \in Tasks
      BY DEF TypeOK
    <3>2. queue[o][i] # dispatching[o]
      BY DEF Ordered
    <3>3. QED
      BY <2>3, <3>1, <3>2
  <2>9. Ordered(queue, D, F, ended)
    BY <2>5, <2>6, <2>7, <2>8 DEF Ordered
  <2>10. Ordered([queue EXCEPT ![role] = queue[role]],
                 [dispatching EXCEPT ![role] = NoTask], F, ended)
    BY <1>1, <2>9 DEF D
  <2> HIDE DEF F
  <2>11. Ordered(queue', dispatching', F, act')
    BY <1>1, <2>1, <2>10, ProcessNextOrdered
  <2>12. QED
    BY <2>1, <2>11
<1>4. QED
  BY <1>2, <1>3

(* The parts of IInv, where a step leaves alone what they speak of.        *)
LEMMA OrderedKept ==
  ASSUME TypeOK, DispatchOrdered, cur' = cur, UNCHANGED memory,
         phase' # "none" => phase # "none",
         ASSUME cur \in Runtimes, NEW t \in Tasks
         PROVE  act'[cur][t] # "none" <=> act[cur][t] # "none"
  PROVE  DispatchOrdered'
  BY DEF DispatchOrdered, Ordered, memory

LEMMA CleanKept ==
  ASSUME CleanStart, UNCHANGED <<phase, watching, pollers, reads, memory>>
  PROVE  CleanStart'
  BY DEF CleanStart, Fresh, memory

LEMMA LaterStep ==
  ASSUME TypeOK, NoneLater, [Next]_vars
  PROVE  NoneLater'
<1>1. cur' = cur \/ cur' = cur + 1
  <2>1. ASSUME NEW t \in Tasks, NEW r \in Runtimes, DispatchStep(r, t)
        PROVE  cur' = cur
    BY <2>1 DEF DispatchStep, LogStarted, ExecuteEnds, LogCompleted, LogFailed,
                RemoveFile, runtime
  <2>2. ASSUME NEW t \in Tasks,
               \/ Drop(t) \/ Announce(t) \/ Refire(t) \/ ReadFails(t)
               \/ EnqueueDispatch(t) \/ Tick(t) \/ WriteTicket(t)
        PROVE  cur' = cur
    BY <2>2 DEF Drop, Announce, Refire, ReadFails, EnqueueDispatch, Tick,
                WriteTicket, runtime
  <2>3. ASSUME NEW role \in Roles,
               OpenPoller(role) \/ PollerReady(role) \/ StopPoller(role)
        PROVE  cur' = cur
    BY <2>3 DEF OpenPoller, PollerReady, StopPoller
  <2>4. CASE Start \/ StartFails \/ Stop \/ StopEnds \/ Crash \/ UNCHANGED vars
    BY <2>4 DEF Start, StartFails, Stop, StopEnds, Crash, vars, runtime
  <2>5. QED
    BY <2>1, <2>2, <2>3, <2>4 DEF Next
<1>2. SUFFICES ASSUME NEW r \in Runtimes, NEW t \in Tasks, r > cur'
               PROVE  act'[r][t] = "none"
  BY DEF NoneLater
<1>3. r > cur /\ r # cur
  BY <1>1, <1>2 DEF TypeOK, Runtimes
<1>4. act[r][t] = "none"
  BY <1>3 DEF NoneLater
<1>5. QED
  BY <1>3, <1>4, StepActs DEF Reached, Begins

LEMMA QueueStepOrdered ==
  ASSUME IInv, NEW t \in Tasks,
         Drop(t) \/ Announce(t) \/ Refire(t) \/ ReadFails(t) \/ EnqueueDispatch(t)
  PROVE  DispatchOrdered' /\ CleanStart'
<1>1. CASE Drop(t)
  BY <1>1, OrderedKept, CleanKept DEF IInv, Drop, runtime
<1>2. CASE Announce(t) \/ Refire(t) \/ ReadFails(t)
  <2>1. /\ UNCHANGED <<cur, phase, watching, memory, act>>
        /\ RoleOf[t] \in watching \/ reads[t] > 0
    BY <1>2 DEF Announce, Refire, ReadFails, runtime
  <2>2. ~Fresh
    BY <2>1 DEF IInv, CleanStart, NoneYet
  <2>3. CleanStart'
    BY <2>1, <2>2 DEF CleanStart, Fresh
  <2>4. DispatchOrdered'
    BY <2>1, OrderedKept DEF IInv
  <2>5. QED
    BY <2>3, <2>4
<1>3. CASE EnqueueDispatch(t)
  <2>1. UNCHANGED <<cur, phase, watching>> /\ reads[t] > 0
    BY <1>3 DEF EnqueueDispatch, runtime
  <2>2. ~Fresh
    BY <2>1 DEF IInv, CleanStart, NoneYet
  <2>3. cur \in Runtimes /\ Ordered(queue, dispatching, inFlight, act)
    BY <2>2 DEF IInv, DispatchOrdered, Fresh
  <2>4. Ordered(queue', dispatching', inFlight', act')
    BY <1>3, <2>3, EnqueueOrdered DEF IInv
  <2>5. QED
    BY <2>1, <2>2, <2>3, <2>4 DEF DispatchOrdered, Ordered, CleanStart, Fresh
<1>4. QED
  BY <1>1, <1>2, <1>3

(* The end of a dispatch of a stopped runtime leaves the next one alone.   *)
LEMMA FinishKeeps ==
  ASSUME IInv, NEW r \in Runtimes, NEW t \in Tasks, act[r][t] # "none",
         Finish(r, t), UNCHANGED <<runtime, reads>>
  PROVE  DispatchOrdered' /\ CleanStart'
<1>1. UNCHANGED <<cur, phase, watching, pollers, reads>>
  BY DEF runtime
<1>2. DispatchOrdered'
  <2>1. CASE phase = "none"
    BY <1>1, <2>1 DEF DispatchOrdered
  <2>2. CASE phase # "none"
    <3>1. cur \in Runtimes /\ Ordered(queue, dispatching, inFlight, act)
      BY <2>2 DEF IInv, DispatchOrdered
    <3>2. Ordered(queue', dispatching', inFlight', act')
      BY <2>2, <3>1, FinishOrdered DEF IInv
    <3>3. QED
      BY <1>1, <3>1, <3>2 DEF DispatchOrdered, Ordered
  <2>3. QED
    BY <2>1, <2>2
<1>3. CleanStart'
  <2>1. CASE ~Fresh
    BY <1>1, <2>1 DEF CleanStart, Fresh
  <2>2. CASE Fresh
    <3>1. dispatching[RoleOf[t]] = NoTask /\ NoTask # t
      BY <2>2 DEF IInv, CleanStart, NoEntries
    <3>2. ~Alive(r)
      BY <3>1 DEF IInv, DispatchOrdered, Ordered, Alive
    <3>3. UNCHANGED memory
      BY <3>2 DEF Finish
    <3>4. QED
      BY <1>1, <3>3, CleanKept DEF IInv
  <2>3. QED
    BY <2>1, <2>2
<1>4. QED
  BY <1>2, <1>3

LEMMA DispatchStepOrdered ==
  ASSUME IInv, NEW r \in Runtimes, NEW t \in Tasks, DispatchStep(r, t)
  PROVE  DispatchOrdered' /\ CleanStart'
<1>1. ASSUME NEW stage \in Stages \ {"none"}, act[r][t] # "none",
             act' = [act EXCEPT ![r][t] = stage],
             UNCHANGED <<runtime, reads, memory>>
      PROVE  DispatchOrdered' /\ CleanStart'
  <2>1. UNCHANGED <<cur, phase, watching, pollers, reads, memory>>
    BY <1>1 DEF runtime
  <2>2. ASSUME cur \in Runtimes, NEW u \in Tasks
        PROVE  act'[cur][u] # "none" <=> act[cur][u] # "none"
    BY <1>1, <2>2 DEF IInv, TypeOK
  <2>3. QED
    BY <2>1, <2>2, OrderedKept, CleanKept DEF IInv
<1>2. CASE LogStarted(r, t)
  BY <1>1, <1>2 DEF LogStarted, Stages
<1>3. ASSUME NEW ending \in Endings, ExecuteEnds(r, t, ending)
      PROVE  DispatchOrdered' /\ CleanStart'
  BY <1>1, <1>3 DEF ExecuteEnds, Stages, Endings
<1>4. CASE LogCompleted(r, t)
  BY <1>1, <1>4 DEF LogCompleted, Stages
<1>5. CASE LogFailed(r, t)
  BY <1>5, FinishKeeps DEF LogFailed, Endings
<1>6. CASE RemoveFile(r, t)
  BY <1>6, FinishKeeps DEF RemoveFile
<1>7. QED
  BY <1>2, <1>3, <1>4, <1>5, <1>6 DEF DispatchStep

LEMMA LifeStepOrdered ==
  ASSUME IInv, NEW role \in Roles,
         \/ OpenPoller(role) \/ PollerReady(role) \/ StopPoller(role)
         \/ Start \/ StartFails \/ Stop \/ StopEnds \/ Crash
  PROVE  DispatchOrdered' /\ CleanStart'
<1>1. CASE OpenPoller(role) \/ PollerReady(role) \/ StopPoller(role) \/ Stop
  <2>1. UNCHANGED <<cur, memory, act>> /\ phase # "none"
    BY <1>1 DEF OpenPoller, PollerReady, StopPoller, Stop
  <2>2. DispatchOrdered'
    BY <2>1, OrderedKept DEF IInv
  <2>3. ~Fresh'
    BY <1>1 DEF OpenPoller, PollerReady, StopPoller, Stop, Fresh
  <2>4. QED
    BY <2>2, <2>3 DEF CleanStart
<1>2. CASE Start
  <2>1. /\ cur' = cur + 1 /\ cur < MaxRuntimes /\ phase = "none"
        /\ UNCHANGED <<watching, pollers, reads, memory, act>>
    BY <1>2 DEF Start
  <2>2. cur' \in Runtimes /\ cur' > cur
    BY <2>1 DEF IInv, TypeOK, Runtimes
  <2>3. /\ watching = {} /\ pollers = 0 /\ reads = NoneYet
        /\ queue = NoQueues /\ dispatching = NoEntries /\ inFlight = {}
    BY <2>1 DEF IInv, CleanStart, Fresh
  <2>4. CleanStart'
    BY <2>1, <2>3 DEF CleanStart, memory
  <2>5. \A t \in Tasks : act'[cur'][t] = "none"
    BY <2>1, <2>2 DEF IInv, NoneLater
  <2>6. \A o \in Roles : queue'[o] = << >> /\ dispatching'[o] = NoTask
    BY <2>1, <2>3 DEF memory, NoQueues, NoEntries
  <2>7. inFlight' = {}
    BY <2>1, <2>3 DEF memory
  <2>8. \A o \in Roles : 1..Len(queue'[o]) = {}
    BY <2>6
  <2>9. \A t \in Tasks : RoleOf[t] \in Roles /\ t # NoTask
    OBVIOUS
  <2>10. DispatchOrdered'
    BY <2>2, <2>5, <2>6, <2>7, <2>8, <2>9 DEF DispatchOrdered, Ordered
  <2>11. QED
    BY <2>4, <2>10
<1>3. CASE StartFails
  BY <1>3, CleanKept DEF IInv, StartFails, CleanStart, Fresh, DispatchOrdered, memory
<1>4. CASE StopEnds \/ Crash
  BY <1>4 DEF StopEnds, Crash, Clear, DispatchOrdered, CleanStart
<1>5. QED
  BY <1>1, <1>2, <1>3, <1>4

LEMMA IInvInit == Init => IInv
<1> SUFFICES ASSUME Init
             PROVE  IInv
  OBVIOUS
<1>1. DispatchOrdered /\ CleanStart
  BY DEF Init, DispatchOrdered, CleanStart
<1>2. NoneLater
  BY DEF Init, NoneLater, NoActs
<1>3. QED
  BY <1>1, <1>2, TypeInit DEF IInv

LEMMA IInvStep == IInv /\ [Next]_vars => IInv'
<1> SUFFICES ASSUME IInv, [Next]_vars
             PROVE  IInv'
  OBVIOUS
<1>1. TypeOK' /\ NoneLater'
  BY TypeStep, LaterStep DEF IInv
<1>2. ASSUME NEW t \in Tasks,
             \/ Drop(t) \/ Announce(t) \/ Refire(t) \/ ReadFails(t)
             \/ EnqueueDispatch(t)
      PROVE  DispatchOrdered' /\ CleanStart'
  BY <1>2, QueueStepOrdered
<1>3. ASSUME NEW t \in Tasks, NEW r \in Runtimes, DispatchStep(r, t)
      PROVE  DispatchOrdered' /\ CleanStart'
  BY <1>3, DispatchStepOrdered
<1>4. ASSUME UNCHANGED <<runtime, reads, memory, act>>
      PROVE  DispatchOrdered' /\ CleanStart'
  <2>1. UNCHANGED <<cur, phase, watching, pollers, reads, memory, act>>
    BY <1>4 DEF runtime
  <2>2. QED
    BY <2>1, OrderedKept, CleanKept DEF IInv
<1>5. ASSUME NEW t \in Tasks, Tick(t) \/ WriteTicket(t)
      PROVE  DispatchOrdered' /\ CleanStart'
  BY <1>4, <1>5 DEF Tick, WriteTicket
<1>6. ASSUME NEW role \in Roles,
             OpenPoller(role) \/ PollerReady(role) \/ StopPoller(role)
      PROVE  DispatchOrdered' /\ CleanStart'
  BY <1>6, LifeStepOrdered
<1>7. ASSUME Start \/ StartFails \/ Stop \/ StopEnds \/ Crash
      PROVE  DispatchOrdered' /\ CleanStart'
  BY <1>7, LifeStepOrdered, CeoRole \in Roles
<1>8. ASSUME UNCHANGED vars
      PROVE  DispatchOrdered' /\ CleanStart'
  BY <1>4, <1>8 DEF vars
<1>9. DispatchOrdered' /\ CleanStart'
  BY <1>2, <1>3, <1>5, <1>6, <1>7, <1>8 DEF Next
<1>10. QED
  BY <1>1, <1>9 DEF IInv

(* An agent works on one task at a time, and however often the watchers    *)
(* report a file, its path waits or is worked on at most once.             *)
THEOREM DispatchesAreExclusive ==
  Spec => [](OneDispatchPerRole /\ NoDoubleDispatch)
<1>1. IInv => OneDispatchPerRole
  BY DEF IInv, DispatchOrdered, Ordered, OneDispatchPerRole
<1>2. IInv => NoDoubleDispatch
  <2> SUFFICES ASSUME IInv
               PROVE  NoDoubleDispatch
    OBVIOUS
  <2>1. CASE phase = "none"
    <3>1. queue = NoQueues /\ dispatching = NoEntries /\ inFlight = {}
      BY <2>1 DEF IInv, CleanStart, Fresh
    <3>2. \A role \in Roles : 1..Len(queue[role]) = {} /\ dispatching[role] = NoTask
      BY <3>1 DEF NoQueues, NoEntries
    <3>3. \A role \in Roles : ToSet(queue[role]) = {}
      BY <3>2 DEF ToSet
    <3>4. QED
      BY <3>1, <3>2, <3>3 DEF NoDoubleDispatch, Waits
  <2>2. CASE phase # "none"
    <3>1. Ordered(queue, dispatching, inFlight, act)
      BY <2>2 DEF IInv, DispatchOrdered
    <3>2. QED
      BY <3>1 DEF NoDoubleDispatch, Waits, ToSet, Ordered
  <2>3. QED
    BY <2>1, <2>2
<1>3. QED
  BY <1>1, <1>2, IInvInit, IInvStep, PTL DEF Spec


-----------------------------------------------------------------------------
(* What a step begins                                                      *)

(* A task that is taken from a queue is the head of it, and was nowhere    *)
(* under way.                                                              *)
LEMMA EnqueueTakes ==
  ASSUME IInv, NEW t \in Tasks, EnqueueDispatch(t),
         NEW s \in Runtimes, NEW u \in Tasks, act'[s][u] # act[s][u]
  PROVE  act[s][u] = "none" /\ act'[s][u] = "announced"
<1> DEFINE role == RoleOf[t]
           q    == Append(queue[role], t)
           busy == dispatching[role]
<1>1. /\ phase # "none" /\ cur \in Runtimes /\ Ordered(queue, dispatching, inFlight, act)
      /\ role \in Roles /\ queue[role] \in Seq(Tasks) /\ act \in [Runtimes -> [Tasks -> Stages]]
  BY DEF EnqueueDispatch, IInv, CleanStart, Fresh, NoneYet, DispatchOrdered, TypeOK
<1>2. t \notin inFlight /\ ProcessNext(role, q, busy, act, watch)
  BY DEF EnqueueDispatch
<1>3. q \in Seq(Tasks) /\ q # << >> /\ Head(q) = q[1] /\ (q[1] = t \/ (1 \in 1..Len(queue[role]) /\ q[1] = queue[role][1]))
  BY <1>1
<1> HIDE DEF q, busy
<1>4. Free(q, busy) /\ act' = [act EXCEPT ![cur][Head(q)] = "announced"]
  BY <1>2 DEF ProcessNext
<1>5. Head(q) \in Tasks /\ s = cur /\ u = Head(q) /\ act'[s][u] = "announced"
  BY <1>1, <1>3, <1>4
<1>6. dispatching[role] = NoTask
  BY <1>4 DEF Free, busy
<1>7. RoleOf[u] = role
  BY <1>1, <1>3, <1>5 DEF Ordered
<1>8. QED
  BY <1>1, <1>5, <1>6, <1>7 DEF Ordered

LEMMA FinishTakes ==
  ASSUME IInv, NEW r \in Runtimes, NEW t \in Tasks, act[r][t] # "none", Finish(r, t),
         NEW s \in Runtimes, NEW u \in Tasks, act'[s][u] # act[s][u]
  PROVE  \/ s = r /\ u = t /\ act'[s][u] = "none"
         \/ ~(s = r /\ u = t) /\ act[s][u] = "none" /\ act'[s][u] = "announced"
<1> DEFINE role == RoleOf[t]
           ended == [act EXCEPT ![r][t] = "none"]
           seen == [watch EXCEPT ![t] = "no"]
           q == queue[role]
<1>1. /\ role \in Roles /\ q \in Seq(Tasks) /\ act \in [Runtimes -> [Tasks -> Stages]]
      /\ ended \in [Runtimes -> [Tasks -> Stages]] /\ ended[r][t] = "none"
      /\ \A x \in Runtimes, y \in Tasks : ended[x][y] = act[x][y] \/ (x = r /\ y = t)
  BY DEF IInv, TypeOK, Stages
<1>2. CASE ~Alive(r)
  BY <1>1, <1>2 DEF Finish
<1>3. CASE Alive(r)
  <2>1. ProcessNext(role, q, NoTask, ended, seen)
    BY <1>3 DEF Finish
  <2>2. /\ cur \in Runtimes /\ r = cur /\ Ordered(queue, dispatching, inFlight, act)
    BY <1>3 DEF Alive, IInv, DispatchOrdered
  <2>3. dispatching[role] = t
    BY <2>2 DEF Ordered
  <2> HIDE DEF ended, seen
  <2>4. CASE ~Free(q, NoTask)
    BY <1>1, <2>1, <2>4 DEF ProcessNext
  <2>5. CASE Free(q, NoTask)
    <3>1. act' = [ended EXCEPT ![cur][Head(q)] = "announced"]
      BY <2>1, <2>5 DEF ProcessNext
    <3>2. q # << >> /\ Head(q) = q[1] /\ Head(q) \in Tasks /\ 1 \in 1..Len(q)
      BY <1>1, <2>5 DEF Free
    <3>3. RoleOf[Head(q)] = role /\ Head(q) # t
      BY <1>1, <2>2, <2>3, <3>2 DEF Ordered
    <3>4. act[cur][Head(q)] = "none"
      BY <2>2, <2>3, <3>2, <3>3 DEF Ordered
    <3> HIDE DEF q
    <3>5. CASE s = cur /\ u = Head(q)
      BY <1>1, <2>2, <3>1, <3>2, <3>3, <3>4, <3>5
    <3>6. CASE ~(s = cur /\ u = Head(q))
      <4>1. act'[s][u] = ended[s][u]
        BY <1>1, <2>2, <3>1, <3>2, <3>6
      <4>2. QED
        BY <1>1, <4>1
    <3>7. QED
      BY <3>5, <3>6
  <2>6. QED
    BY <2>4, <2>5
<1>4. QED
  BY <1>2, <1>3

-----------------------------------------------------------------------------
(* The log is balanced                                                     *)

OpenStages == {"executing"} \cup Endings

LEMMA OpenKept ==
  ASSUME NEW t \in Tasks, \A r \in Runtimes : act'[r][t] \in OpenStages <=> act[r][t] \in OpenStages
  PROVE  Open(t)' = Open(t)
  BY DEF Open, OpenStages

LEMMA LogAt ==
  ASSUME TypeOK, NEW t \in Tasks, NEW kind \in Kinds, LogEvent(t, kind)
  PROVE  /\ log'[t][kind] = log[t][kind] + 1
         /\ \A k \in Kinds : k # kind => log'[t][k] = log[t][k]
         /\ \A u \in Tasks : u # t => log'[u] = log[u]
  BY DEF TypeOK, LogEvent

(* The counts of one task.                                                 *)
Balanced(t) ==
  log[t]["started"] = log[t]["completed"] + log[t]["failed"] + log[t]["error"]
                      + Cardinality(Open(t)) + lost[t]

LEMMA BalancedKept ==
  ASSUME NEW t \in Tasks, Balanced(t), log'[t] = log[t], Open(t)' = Open(t), lost'[t] = lost[t]
  PROVE  Balanced(t)'
  BY DEF Balanced

LEMMA LogCounts == ASSUME TypeOK, NEW t \in Tasks
                   PROVE /\ log[t]["started"] \in Nat /\ log[t]["completed"] \in Nat
                         /\ log[t]["failed"] \in Nat /\ log[t]["error"] \in Nat /\ lost[t] \in Nat
  BY DEF TypeOK, Kinds, Endings

(* A dispatch that is logged as ended is open no more.                     *)
LEMMA BalancedEnd ==
  ASSUME TypeOK, NEW t \in Tasks, Balanced(t), NEW r \in Runtimes, NEW kind \in Endings, LogEvent(t, kind),
         r \in Open(t), Open(t)' = Open(t) \ {r}, lost'[t] = lost[t]
  PROVE  Balanced(t)'
<1>1. /\ IsFiniteSet(Open(t)) /\ Cardinality(Open(t)) \in Nat
  BY OpenFinite
<1>2. Cardinality(Open(t)') = Cardinality(Open(t)) - 1
  BY <1>1, FS_RemoveElement
<1>0. kind \in Kinds
  BY DEF Kinds
<1>3. /\ log'[t][kind] = log[t][kind] + 1
      /\ \A k \in Kinds : k # kind => log'[t][k] = log[t][k]
  BY <1>0, LogAt
<1>4. /\ log[t]["started"] \in Nat /\ log[t]["completed"] \in Nat
      /\ log[t]["failed"] \in Nat /\ log[t]["error"] \in Nat /\ lost[t] \in Nat
  BY LogCounts
<1>5. kind = "completed" \/ kind = "failed" \/ kind = "error"
  BY DEF Endings
<1>6. {"started", "completed", "failed", "error"} = Kinds
  BY DEF Kinds, Endings
<1>7. log'[t]["started"] = log[t]["started"]
  BY <1>3, <1>5, <1>6
<1>8. log'[t]["completed"] + log'[t]["failed"] + log'[t]["error"]
        = log[t]["completed"] + log[t]["failed"] + log[t]["error"] + 1
  <2>1. CASE kind = "completed"
    BY <1>3, <1>4, <1>6, <2>1
  <2>2. CASE kind = "failed"
    BY <1>3, <1>4, <1>6, <2>2
  <2>3. CASE kind = "error"
    BY <1>3, <1>4, <1>6, <2>3
  <2>4. QED
    BY <1>5, <2>1, <2>2, <2>3
<1>9. QED
  BY <1>1, <1>2, <1>4, <1>7, <1>8 DEF Balanced

LEMMA BalancedByDispatch ==
  ASSUME IInv, \A u \in Tasks : Balanced(u), NEW r \in Runtimes, NEW t \in Tasks, DispatchStep(r, t)
  PROVE  \A u \in Tasks : Balanced(u)'
<1>0. TypeOK /\ act \in [Runtimes -> [Tasks -> Stages]]
  BY DEF IInv, TypeOK
<1>1. CASE LogStarted(r, t)
  <2>1. act' = [act EXCEPT ![r][t] = "executing"] /\ act[r][t] = "announced" /\ LogEvent(t, "started") /\ lost' = lost
    BY <1>1 DEF LogStarted, history
  <2>2. Open(t)' = Open(t) \cup {r} /\ r \notin Open(t)
    BY <1>0, <2>1 DEF Open, Endings
  <2>3. Cardinality(Open(t)') = Cardinality(Open(t)) + 1 /\ Cardinality(Open(t)) \in Nat
    BY <2>2, OpenFinite, FS_AddElement
  <2>4. /\ log'[t]["started"] = log[t]["started"] + 1 /\ log'[t]["completed"] = log[t]["completed"]
        /\ log'[t]["failed"] = log[t]["failed"] /\ log'[t]["error"] = log[t]["error"]
    <3>1. {"started", "completed", "failed", "error"} = Kinds
      BY DEF Kinds, Endings
    <3>2. /\ log'[t]["started"] = log[t]["started"] + 1
          /\ \A k \in Kinds : k # "started" => log'[t][k] = log[t][k]
      BY <1>0, <2>1, <3>1, LogAt
    <3>3. QED
      BY <3>1, <3>2
  <2>5. Balanced(t)'
    <3>1. Balanced(t) /\ lost'[t] = lost[t]
      BY <2>1
    <3>2. /\ log[t]["started"] \in Nat /\ log[t]["completed"] \in Nat
          /\ log[t]["failed"] \in Nat /\ log[t]["error"] \in Nat /\ lost[t] \in Nat
      BY <1>0, LogCounts
    <3>3. QED
      BY <2>3, <2>4, <3>1, <3>2 DEF Balanced
  <2>6. ASSUME NEW u \in Tasks, u # t PROVE Balanced(u)'
    <3>1. Open(u)' = Open(u)
      BY <1>0, <2>1, <2>6, OpenKept
    <3>2. log'[u] = log[u]
      BY <1>0, <2>1, <2>6, LogAt DEF Kinds
    <3>3. QED
      BY <2>1, <3>1, <3>2, BalancedKept
  <2>7. QED
    BY <2>5, <2>6
<1>2. ASSUME NEW ending \in Endings, ExecuteEnds(r, t, ending) PROVE \A u \in Tasks : Balanced(u)'
  <2>1. act' = [act EXCEPT ![r][t] = ending] /\ act[r][t] = "executing" /\ log' = log /\ lost' = lost
    BY <1>2 DEF ExecuteEnds, history
  <2>2. \A u \in Tasks : Open(u)' = Open(u)
    BY <1>0, <2>1, OpenKept DEF OpenStages
  <2>3. QED
    BY <2>1, <2>2, BalancedKept
<1>3. ASSUME NEW kind \in Endings, LogEvent(t, kind), act[r][t] = kind, lost' = lost,
             act'[r][t] \notin OpenStages,
             \A s \in Runtimes, u \in Tasks : ~(s = r /\ u = t) => (act'[s][u] \in OpenStages <=> act[s][u] \in OpenStages)
      PROVE  \A u \in Tasks : Balanced(u)'
  <2>1. Open(t)' = Open(t) \ {r} /\ r \in Open(t)
    BY <1>3 DEF Open, OpenStages
  <2>2. Balanced(t)'
    BY <1>0, <1>3, <2>1, BalancedEnd
  <2>3. ASSUME NEW u \in Tasks, u # t PROVE Balanced(u)'
    <3>1. Open(u)' = Open(u)
      BY <1>3, <2>3, OpenKept
    <3>2. log'[u] = log[u]
      BY <1>0, <1>3, <2>3, LogAt DEF Kinds
    <3>3. QED
      BY <1>3, <3>1, <3>2, BalancedKept
  <2>4. QED
    BY <2>2, <2>3
<1>4. CASE LogCompleted(r, t)
  <2>1. /\ act' = [act EXCEPT ![r][t] = "removing"] /\ act[r][t] = "completed" /\ LogEvent(t, "completed") /\ lost' = lost
    BY <1>4 DEF LogCompleted, history
  <2>2. act'[r][t] \notin OpenStages /\ "completed" \in Endings
    BY <1>0, <2>1 DEF OpenStages, Endings
  <2>3. \A s \in Runtimes, u \in Tasks : ~(s = r /\ u = t) => act'[s][u] = act[s][u]
    BY <1>0, <2>1
  <2>4. QED
    BY <1>3, <2>1, <2>2, <2>3
<1>5. ASSUME Finish(r, t), act[r][t] # "none", NEW s \in Runtimes, NEW u \in Tasks, ~(s = r /\ u = t)
      PROVE  act'[s][u] \in OpenStages <=> act[s][u] \in OpenStages
  BY <1>5, FinishTakes DEF OpenStages, Endings
<1>6. ASSUME Finish(r, t), act[r][t] # "none" PROVE act'[r][t] \notin OpenStages \/ act[r][t] \notin OpenStages
  <2>1. CASE act'[r][t] # act[r][t]
    BY <1>6, <2>1, FinishTakes DEF OpenStages, Endings
  <2>2. CASE act'[r][t] = act[r][t]
    <3> DEFINE ended == [act EXCEPT ![r][t] = "none"]
               seen == [watch EXCEPT ![t] = "no"]
    <3>1. ended \in [Runtimes -> [Tasks -> Stages]] /\ ended[r][t] = "none"
      BY <1>0 DEF Stages
    <3>2. CASE ~Alive(r)
      BY <1>6, <2>2, <3>1, <3>2 DEF Finish
    <3>3. CASE Alive(r)
      <4>1. ProcessNext(RoleOf[t], queue[RoleOf[t]], NoTask, ended, seen)
        BY <1>6, <3>3 DEF Finish
      <4> HIDE DEF ended, seen
      <4>2. CASE act'[r][t] # ended[r][t]
        <5>1. Begins(r, act'[r][t])
          BY <3>1, <4>1, <4>2, ProcessNextActs
        <5>2. QED
          BY <5>1 DEF Begins, OpenStages, Endings
      <4>3. QED
        BY <1>6, <2>2, <3>1, <4>2
    <3>4. QED
      BY <3>2, <3>3
  <2>3. QED
    BY <2>1, <2>2
<1>7. CASE LogFailed(r, t)
  <2>1. /\ act[r][t] \in Endings /\ act[r][t] # "none" /\ act[r][t] \in OpenStages /\ LogEvent(t, act[r][t])
        /\ Finish(r, t) /\ lost' = lost
    BY <1>7 DEF LogFailed, Endings, OpenStages
  <2>2. QED
    BY <1>3, <1>5, <1>6, <2>1
<1>8. CASE RemoveFile(r, t)
  <2>1. act[r][t] = "removing" /\ Finish(r, t) /\ lost' = lost /\ log' = log
    BY <1>8 DEF RemoveFile
  <2>2. act[r][t] \notin OpenStages /\ act'[r][t] \notin OpenStages
    BY <2>1, FinishTakes DEF OpenStages, Endings
  <2>3. \A u \in Tasks : Open(u)' = Open(u)
    BY <1>5, <2>1, <2>2, OpenKept
  <2>4. QED
    BY <2>1, <2>3, BalancedKept
<1>9. QED
  BY <1>1, <1>2, <1>4, <1>7, <1>8 DEF DispatchStep

LEMMA BalancedStep ==
  ASSUME IInv, LogBalances, [Next]_vars PROVE LogBalances'
<1>0. \A u \in Tasks : Balanced(u)
  BY DEF LogBalances, Balanced
<1>1. ASSUME UNCHANGED <<act, log, lost>> PROVE \A u \in Tasks : Balanced(u)'
  BY <1>0, <1>1, BalancedKept DEF Open
<1>2. ASSUME NEW t \in Tasks, EnqueueDispatch(t) PROVE \A u \in Tasks : Balanced(u)'
  <2>1. \A s \in Runtimes, u \in Tasks : act'[s][u] \in OpenStages <=> act[s][u] \in OpenStages
    BY <1>2, EnqueueTakes DEF OpenStages, Endings
  <2>2. log' = log /\ lost' = lost
    BY <1>2 DEF EnqueueDispatch
  <2>3. QED
    BY <1>0, <2>1, <2>2, OpenKept, BalancedKept
<1>3. ASSUME NEW t \in Tasks, NEW r \in Runtimes, DispatchStep(r, t) PROVE \A u \in Tasks : Balanced(u)'
  BY <1>0, <1>3, BalancedByDispatch
<1>4. ASSUME Crash PROVE \A u \in Tasks : Balanced(u)'
  <2> TAKE u \in Tasks
  <2>1. act' = NoActs /\ log' = log /\ lost'[u] = lost[u] + Cardinality(Open(u))
    BY <1>4 DEF Crash
  <2>2. Open(u)' = {}
    BY <2>1 DEF Open, NoActs, Endings
  <2>3. Cardinality(Open(u)') = 0
    BY <2>2, FS_EmptySet
  <2>4. QED
    BY <1>0, <2>1, <2>3, OpenFinite, LogCounts DEF Balanced, IInv
<1>5. ASSUME NEW t \in Tasks, \/ Drop(t) \/ Announce(t) \/ Refire(t) \/ ReadFails(t) \/ Tick(t) \/ WriteTicket(t)
      PROVE  \A u \in Tasks : Balanced(u)'
  BY <1>1, <1>5 DEF Drop, Announce, Refire, ReadFails, Tick, WriteTicket, history
<1>6. ASSUME NEW role \in Roles, OpenPoller(role) \/ PollerReady(role) \/ StopPoller(role)
      PROVE  \A u \in Tasks : Balanced(u)'
  BY <1>1, <1>6 DEF OpenPoller, PollerReady, StopPoller, history
<1>7. ASSUME Start \/ StartFails \/ Stop \/ StopEnds \/ UNCHANGED vars PROVE \A u \in Tasks : Balanced(u)'
  BY <1>1, <1>7 DEF Start, StartFails, Stop, StopEnds, vars, history
<1>8. \A u \in Tasks : Balanced(u)'
  BY <1>2, <1>3, <1>4, <1>5, <1>6, <1>7 DEF Next
<1>9. QED
  BY <1>8 DEF LogBalances, Balanced


-----------------------------------------------------------------------------
(* What is announced gets its turn, and is watched                         *)

Known == files \subseteq written /\ told \subseteq written

Quiet == phase # "running" => watch = Unwatched

EarlyOnes == phase = "starting" => \A t \in Tasks : act[cur][t] # "none" => t \in early

TakenIsTried ==
  phase # "none" => \A role \in Roles : dispatching[role] # NoTask => dispatching[role] \in tried

(* Before the first poller is in this.pollers only its own role has events.*)
FirstPoller ==
  phase = "starting" /\ pollers = 0 =>
    /\ watching \subseteq {1} /\ tried = {}
    /\ \A t \in Tasks : reads[t] > 0 => RoleOf[t] = 1
    /\ \A role \in Roles \ {1} : queue[role] = << >>

Cared == phase # "none" =>
  \A t \in files \cap told :
    reads[t] > 0 \/ Waits(t) \/ t = dispatching[RoleOf[t]] \/ t \in tried

Unsettled == {"announced", "executing", "error"}

Accurate == phase = "running" =>
  \A t \in Tasks \ early : watch[t] # "no" <=> act[cur][t] \in Unsettled

Followed == /\ Known /\ Quiet /\ EarlyOnes /\ TakenIsTried /\ FirstPoller
            /\ Cared /\ IdleRoleIsEmpty /\ Accurate

(* The next task of a queue is taken, when a poller is there and the role  *)
(* is free; otherwise it waits.                                            *)
LEMMA NextTaken ==
  ASSUME TypeOK, NEW role \in Roles, NEW q \in Seq(Tasks), NEW busy \in Tasks \cup {NoTask},
         NEW acts \in [Runtimes -> [Tasks -> Stages]], NEW seen \in [Tasks -> Watches], cur \in Runtimes,
         ProcessNext(role, q, busy, acts, seen)
  PROVE  /\ \A o \in Roles : o # role => queue'[o] = queue[o] /\ dispatching'[o] = dispatching[o]
         /\ tried \subseteq tried' /\ early \subseteq early'
         /\ \/ /\ Free(q, busy) /\ q # << >> /\ Head(q) \in Tasks
               /\ queue'[role] = Tail(q) /\ dispatching'[role] = Head(q)
               /\ tried' = tried \cup {Head(q)}
               /\ act'[cur][Head(q)] = "announced"
               /\ \A u \in Tasks : u # Head(q) => act'[cur][u] = acts[cur][u] /\ watch'[u] = seen[u]
               /\ Listening => early' = early /\ watch'[Head(q)] = "yes"
               /\ ~Listening => early' = early \cup {Head(q)} /\ watch' = seen
            \/ /\ ~Free(q, busy) /\ queue'[role] = q /\ dispatching'[role] = busy
               /\ act' = acts /\ watch' = seen /\ tried' = tried /\ early' = early
<1>1. CASE Free(q, busy)
  <2> DEFINE t == Head(q)
  <2>1. q # << >> /\ t \in Tasks /\ Tail(q) \in Seq(Tasks)
    BY <1>1 DEF Free
  <2>2. /\ queue' = [queue EXCEPT ![role] = Tail(q)]
        /\ dispatching' = [dispatching EXCEPT ![role] = t]
        /\ act' = [acts EXCEPT ![cur][t] = "announced"]
        /\ watch' = IF Listening THEN [seen EXCEPT ![t] = "yes"] ELSE seen
        /\ tried' = tried \cup {t}
        /\ early' = IF Listening THEN early ELSE early \cup {t}
    BY <1>1 DEF ProcessNext
  <2> HIDE DEF t
  <2>3. \A o \in Roles : o # role => queue'[o] = queue[o] /\ dispatching'[o] = dispatching[o]
    BY <2>2 DEF TypeOK
  <2>4. queue'[role] = Tail(q) /\ dispatching'[role] = t
    BY <2>2 DEF TypeOK
  <2>5. act'[cur][t] = "announced" /\ \A u \in Tasks : u # t => act'[cur][u] = acts[cur][u]
    BY <2>1, <2>2
  <2>6. \A u \in Tasks : u # t => watch'[u] = seen[u]
    BY <2>1, <2>2
  <2>7. Listening => early' = early /\ watch'[t] = "yes"
    BY <2>1, <2>2
  <2>8. ~Listening => early' = early \cup {t} /\ watch' = seen
    BY <2>2
  <2>9. tried \subseteq tried' /\ early \subseteq early' /\ tried' = tried \cup {t}
    BY <2>2, <2>7, <2>8
  <2>10. QED
    BY <1>1, <2>1, <2>3, <2>4, <2>5, <2>6, <2>7, <2>8, <2>9 DEF t
<1>2. CASE ~Free(q, busy)
  <2>1. /\ queue' = [queue EXCEPT ![role] = q]
        /\ dispatching' = [dispatching EXCEPT ![role] = busy]
        /\ act' = acts /\ watch' = seen /\ tried' = tried /\ early' = early
    BY <1>2 DEF ProcessNext
  <2>2. \A o \in Roles : o # role => queue'[o] = queue[o] /\ dispatching'[o] = dispatching[o]
    BY <2>1 DEF TypeOK
  <2>3. queue'[role] = q /\ dispatching'[role] = busy
    BY <2>1 DEF TypeOK
  <2>4. QED
    BY <1>2, <2>1, <2>2, <2>3
<1>3. QED
  BY <1>1, <1>2

(* The parts of Followed, each by what a call of _processNextDispatch is   *)
(* given.                                                                  *)
LEMMA NextFollowed ==
  ASSUME TypeOK, Followed, NEW role \in Roles, NEW q \in Seq(Tasks), NEW busy \in Tasks \cup {NoTask},
         NEW acts \in [Runtimes -> [Tasks -> Stages]], NEW seen \in [Tasks -> Watches], cur \in Runtimes,
         ProcessNext(role, q, busy, acts, seen), phase # "none", UNCHANGED runtime,
         \A i \in 1..Len(q) : RoleOf[q[i]] = role,
         busy # NoTask => busy \in tried,
         phase # "running" => seen = Unwatched,
         \A u \in Tasks : acts[cur][u] # "none" => act[cur][u] # "none",
         phase = "running" =>
           \A u \in Tasks \ early : seen[u] # "no" <=> acts[cur][u] \in Unsettled
  PROVE  Quiet' /\ EarlyOnes' /\ TakenIsTried' /\ IdleRoleIsEmpty' /\ Accurate'
<1>0. cur' = cur /\ phase' = phase /\ pollers' = pollers
  BY DEF runtime
<1>1. /\ \A o \in Roles : o # role => queue'[o] = queue[o] /\ dispatching'[o] = dispatching[o]
      /\ tried \subseteq tried' /\ early \subseteq early'
  BY NextTaken
<1>2. CASE Free(q, busy)
  <2> DEFINE t == Head(q)
  <2>1. /\ q # << >> /\ t \in Tasks /\ pollers > 0 /\ t = q[1] /\ 1 \in 1..Len(q)
    BY <1>2 DEF Free
  <2>2. /\ dispatching'[role] = t
        /\ tried' = tried \cup {t}
        /\ act'[cur][t] = "announced"
        /\ \A u \in Tasks : u # t => act'[cur][u] = acts[cur][u] /\ watch'[u] = seen[u]
        /\ Listening => early' = early /\ watch'[t] = "yes"
        /\ ~Listening => early' = early \cup {t} /\ watch' = seen
    BY <1>2, NextTaken
  <2>3. RoleOf[t] = role
    BY <2>1
  <2> HIDE DEF t
  <2>4. Quiet'
    BY <1>0, <2>2 DEF Quiet, Listening, Unwatched
  <2>5. EarlyOnes'
    BY <1>0, <1>1, <2>2 DEF EarlyOnes, Followed, Listening
  <2>6. TakenIsTried'
    BY <1>0, <1>1, <2>2 DEF TakenIsTried, Followed
  <2>7. IdleRoleIsEmpty'
    BY <1>0, <1>1, <2>1, <2>2, <2>3 DEF IdleRoleIsEmpty, Followed
  <2>8. Accurate'
    BY <1>0, <2>1, <2>2 DEF Accurate, Listening, Unsettled
  <2>9. QED
    BY <2>4, <2>5, <2>6, <2>7, <2>8
<1>3. CASE ~Free(q, busy)
  <2>1. /\ queue'[role] = q /\ dispatching'[role] = busy
        /\ act' = acts /\ watch' = seen /\ tried' = tried /\ early' = early
    BY <1>3, NextTaken
  <2>2. Quiet'
    BY <1>0, <2>1 DEF Quiet, Unwatched
  <2>3. EarlyOnes'
    BY <1>0, <2>1 DEF EarlyOnes, Followed
  <2>4. TakenIsTried'
    BY <1>0, <1>1, <2>1 DEF TakenIsTried, Followed
  <2>5. IdleRoleIsEmpty'
    BY <1>0, <1>1, <1>3, <2>1 DEF IdleRoleIsEmpty, Followed, Free
  <2>6. Accurate'
    BY <1>0, <2>1 DEF Accurate
  <2>7. QED
    BY <2>2, <2>3, <2>4, <2>5, <2>6
<1>4. QED
  BY <1>2, <1>3

LEMMA NextOthers ==
  ASSUME TypeOK, NEW role \in Roles, NEW q, NEW busy, NEW acts, NEW seen, NEW o \in Roles, o # role,
         ProcessNext(role, q, busy, acts, seen)
  PROVE  queue'[o] = queue[o]
<1>1. CASE Free(q, busy)
  BY <1>1 DEF ProcessNext, TypeOK
<1>2. CASE ~Free(q, busy)
  BY <1>2 DEF ProcessNext, TypeOK
<1>3. QED
  BY <1>1, <1>2

(* What waits goes on to wait, or is taken.                                *)
LEMMA NextWaits ==
  ASSUME TypeOK, NEW role \in Roles, NEW q \in Seq(Tasks), NEW busy \in Tasks \cup {NoTask},
         NEW acts \in [Runtimes -> [Tasks -> Stages]], NEW seen \in [Tasks -> Watches], cur \in Runtimes,
         ProcessNext(role, q, busy, acts, seen), NEW u \in Tasks,
         RoleOf[u] # role => Waits(u),
         RoleOf[u] = role => \E i \in 1..Len(q) : q[i] = u
  PROVE  Waits(u)' \/ u \in tried'
<1>0. RoleOf[u] \in Roles
  OBVIOUS
<1>1. CASE RoleOf[u] # role
  <2>1. queue'[RoleOf[u]] = queue[RoleOf[u]]
    BY <1>0, <1>1, NextOthers
  <2>2. QED
    BY <1>1, <2>1 DEF Waits
<1>2. CASE RoleOf[u] = role
  <2>1. PICK i \in 1..Len(q) : q[i] = u
    BY <1>2
  <2>2. CASE Free(q, busy)
    <3>1. queue'[role] = Tail(q) /\ tried' = tried \cup {Head(q)} /\ q # << >>
      BY <2>2, NextTaken
    <3>2. CASE i = 1
      BY <2>1, <3>1, <3>2
    <3>3. CASE i # 1
      <4>1. i - 1 \in 1..Len(Tail(q)) /\ Tail(q)[i - 1] = u
        BY <2>1, <3>1, <3>3
      <4>2. QED
        BY <1>2, <3>1, <4>1 DEF Waits, ToSet
    <3>4. QED
      BY <3>2, <3>3
  <2>3. CASE ~Free(q, busy)
    <3>1. queue'[role] = q
      BY <2>3, NextTaken
    <3>2. QED
      BY <1>2, <2>1, <3>1 DEF Waits, ToSet
  <2>4. QED
    BY <2>2, <2>3
<1>3. QED
  BY <1>1, <1>2

LEMMA EnqueueFollowed ==
  ASSUME IInv, Followed, NEW t \in Tasks, EnqueueDispatch(t)
  PROVE  Followed'
<1> DEFINE role == RoleOf[t]
           q    == Append(queue[role], t)
           busy == dispatching[role]
<1>1. /\ phase # "none" /\ cur \in Runtimes /\ Ordered(queue, dispatching, inFlight, act) /\ TypeOK
      /\ role \in Roles /\ queue[role] \in Seq(Tasks) /\ act \in [Runtimes -> [Tasks -> Stages]]
      /\ busy \in Tasks \cup {NoTask} /\ watch \in [Tasks -> Watches]
  <2>1. reads[t] > 0 /\ TypeOK /\ CleanStart /\ DispatchOrdered
    BY DEF EnqueueDispatch, IInv
  <2>2. phase # "none" => cur \in Runtimes /\ Ordered(queue, dispatching, inFlight, act)
    BY <2>1 DEF DispatchOrdered
  <2>3. phase # "none"
    BY <2>1 DEF CleanStart, Fresh, NoneYet
  <2>4. /\ role \in Roles /\ queue[role] \in Seq(Tasks) /\ act \in [Runtimes -> [Tasks -> Stages]]
        /\ busy \in Tasks \cup {NoTask} /\ watch \in [Tasks -> Watches]
    BY <2>1 DEF TypeOK, Watches
  <2>5. QED
    BY <2>1, <2>2, <2>3, <2>4
<1>2. /\ UNCHANGED <<files, written, told>> /\ UNCHANGED runtime
      /\ cur' = cur /\ phase' = phase /\ pollers' = pollers /\ watching' = watching
      /\ reads[t] > 0 /\ \A u \in Tasks : u # t => reads'[u] = reads[u]
  BY DEF EnqueueDispatch, runtime, TypeOK, IInv
<1>2a. \A u \in Tasks : reads'[u] > 0 => reads[u] > 0
  <2>1. reads'[t] = reads[t] - 1
    BY DEF EnqueueDispatch, TypeOK, IInv
  <2>2. QED
    BY <1>2, <2>1
<1>3. Known'
  BY <1>2 DEF Followed, Known
<1>4. CASE t \in inFlight
  <2>1. UNCHANGED memory /\ UNCHANGED <<act, watch, tried, early>>
    BY <1>4 DEF EnqueueDispatch
  <2>2. UNCHANGED <<queue, dispatching, inFlight>>
    BY <2>1 DEF memory
  <2>3. Waits(t) \/ t = dispatching[RoleOf[t]]
    BY <1>1, <1>4 DEF Ordered, Waits, ToSet
  <2>4. Cared'
    BY <1>2, <2>1, <2>2, <2>3 DEF Followed, Cared, Waits, TypeOK, IInv
  <2>5. Quiet' /\ EarlyOnes' /\ TakenIsTried' /\ IdleRoleIsEmpty' /\ Accurate'
    BY <1>2, <2>1, <2>2 DEF Followed, Quiet, EarlyOnes, TakenIsTried, IdleRoleIsEmpty, Accurate
  <2>6. FirstPoller'
    BY <1>2, <1>2a, <2>1, <2>2 DEF Followed, FirstPoller
  <2>7. QED
    BY <1>3, <2>4, <2>5, <2>6 DEF Followed
<1>5. CASE t \notin inFlight
  <2>1. ProcessNext(role, q, busy, act, watch)
    BY <1>5 DEF EnqueueDispatch
  <2>2. q \in Seq(Tasks) /\ Len(q) = Len(queue[role]) + 1 /\ q[Len(q)] = t /\ Len(q) \in 1..Len(q)
        /\ \A i \in 1..Len(queue[role]) : q[i] = queue[role][i] /\ i \in 1..Len(q)
        /\ \A j \in 1..Len(q) : q[j] = t \/ (j \in 1..Len(queue[role]) /\ q[j] = queue[role][j])
    BY <1>1
  <2> HIDE DEF q
  <2>3. \A i \in 1..Len(q) : RoleOf[q[i]] = role
    BY <1>1, <2>2 DEF Ordered
  <2>4. busy # NoTask => busy \in tried
    BY <1>1 DEF Followed, TakenIsTried
  <2>5. phase # "running" => watch = Unwatched
    BY DEF Followed, Quiet
  <2>6. phase = "running" => \A u \in Tasks \ early : watch[u] # "no" <=> act[cur][u] \in Unsettled
    BY DEF Followed, Accurate
  <2>7. Quiet' /\ EarlyOnes' /\ TakenIsTried' /\ IdleRoleIsEmpty' /\ Accurate'
    <3> HIDE DEF busy, role
    <3>1. QED
      BY <1>1, <1>2, <2>1, <2>2, <2>3, <2>4, <2>5, <2>6, NextFollowed
  <2>8. \A u \in Tasks : u = t \/ Waits(u) => Waits(u)' \/ u \in tried'
    <3> SUFFICES ASSUME NEW u \in Tasks, u = t \/ Waits(u) PROVE Waits(u)' \/ u \in tried'
      OBVIOUS
    <3>1. RoleOf[u] # role => Waits(u)
      OBVIOUS
    <3>2. RoleOf[u] = role => \E i \in 1..Len(q) : q[i] = u
      <4>1. CASE u = t
        BY <2>2, <4>1
      <4>2. CASE RoleOf[u] = role /\ Waits(u)
        BY <2>2, <4>2 DEF Waits, ToSet
      <4>3. QED
        BY <4>1, <4>2
    <3> HIDE DEF busy, role
    <3>3. QED
      BY <1>1, <2>1, <2>2, <3>1, <3>2, NextWaits
  <2>9. /\ tried \subseteq tried'
        /\ \A o \in Roles : o # role => queue'[o] = queue[o]
        /\ pollers = 0 => tried' = tried
    <3> HIDE DEF busy, role
    <3>1. /\ TypeOK /\ role \in Roles /\ q \in Seq(Tasks) /\ busy \in Tasks \cup {NoTask}
          /\ act \in [Runtimes -> [Tasks -> Stages]] /\ watch \in [Tasks -> Watches] /\ cur \in Runtimes
          /\ ProcessNext(role, q, busy, act, watch)
      BY <1>1, <2>1, <2>2
    <3>2. /\ \A o \in Roles : o # role => queue'[o] = queue[o]
          /\ tried \subseteq tried'
          /\ Free(q, busy) \/ tried' = tried
      BY <3>1, NextTaken
    <3>3. Free(q, busy) => pollers > 0
      BY DEF Free
    <3>4. pollers > 0 => pollers # 0
      BY <1>1 DEF TypeOK
    <3>5. QED
      BY <3>2, <3>3, <3>4
  <2>10. Cared'
    <3> SUFFICES ASSUME NEW u \in files \cap told PROVE reads'[u] > 0 \/ Waits(u)' \/ u \in tried'
      BY <1>2 DEF Cared
    <3>1. u \in Tasks /\ RoleOf[u] \in Roles
      BY <1>1 DEF TypeOK
    <3>2. reads[u] > 0 \/ Waits(u) \/ u = dispatching[RoleOf[u]] \/ u \in tried
      BY <1>1 DEF Followed, Cared
    <3>3. u = dispatching[RoleOf[u]] => u \in tried
      BY <1>1, <3>1 DEF Followed, TakenIsTried
    <3>4. QED
      BY <1>2, <2>8, <2>9, <3>1, <3>2, <3>3
  <2>11. FirstPoller'
    BY <1>2, <1>2a, <2>9 DEF Followed, FirstPoller
  <2>12. QED
    BY <1>3, <2>7, <2>10, <2>11 DEF Followed
<1>6. QED
  BY <1>4, <1>5

(* A dispatch ends, and its file may be removed.                           *)
LEMMA FinishFollowed ==
  ASSUME IInv, Followed, NEW r \in Runtimes, NEW t \in Tasks, act[r][t] # "none", Finish(r, t),
         files' \subseteq files, UNCHANGED <<written, told, reads>>, UNCHANGED runtime
  PROVE  Followed'
<1> DEFINE role == RoleOf[t]
           q    == queue[role]
           ended == [act EXCEPT ![r][t] = "none"]
           seen == [watch EXCEPT ![t] = "no"]
<1>1. /\ TypeOK /\ role \in Roles /\ q \in Seq(Tasks) /\ act \in [Runtimes -> [Tasks -> Stages]]
      /\ ended \in [Runtimes -> [Tasks -> Stages]] /\ seen \in [Tasks -> Watches] /\ watch \in [Tasks -> Watches]
      /\ ended[r][t] = "none" /\ seen[t] = "no" /\ NoTask \in Tasks \cup {NoTask}
      /\ \A x \in Runtimes, y \in Tasks : ended[x][y] = act[x][y] \/ (x = r /\ y = t)
      /\ \A y \in Tasks : y # t => seen[y] = watch[y]
  BY DEF IInv, TypeOK, Stages, Watches
<1>2. /\ cur' = cur /\ phase' = phase /\ pollers' = pollers /\ watching' = watching
      /\ reads' = reads /\ written' = written /\ told' = told
  BY DEF runtime
<1>3. Known'
  BY <1>2 DEF Followed, Known
<1>4. CASE ~Alive(r)
  <2>1. act' = ended /\ UNCHANGED <<queue, dispatching, inFlight, watch, tried, early>>
    BY <1>4 DEF Finish, memory
  <2>2. phase # "none" => r # cur /\ cur \in Runtimes
    BY <1>4 DEF Alive, IInv, DispatchOrdered
  <2> HIDE DEF ended
  <2>3. phase # "none" => \A u \in Tasks : act'[cur][u] = act[cur][u]
    BY <1>1, <2>1, <2>2
  <2>4. EarlyOnes' /\ Accurate'
    BY <1>2, <2>1, <2>3 DEF Followed, EarlyOnes, Accurate
  <2>5. Quiet' /\ TakenIsTried' /\ IdleRoleIsEmpty' /\ FirstPoller'
    BY <1>2, <2>1 DEF Followed, Quiet, TakenIsTried, IdleRoleIsEmpty, FirstPoller
  <2>6. Cared'
    BY <1>2, <2>1 DEF Followed, Cared, Waits
  <2>7. QED
    BY <1>3, <2>4, <2>5, <2>6 DEF Followed
<1>5. CASE Alive(r)
  <2>1. ProcessNext(role, q, NoTask, ended, seen)
    BY <1>5 DEF Finish
  <2>2. phase # "none" /\ r = cur /\ cur \in Runtimes /\ Ordered(queue, dispatching, inFlight, act)
    BY <1>5 DEF Alive, IInv, DispatchOrdered
  <2>3. dispatching[role] = t /\ t \in tried
    BY <1>1, <2>2 DEF Ordered, Followed, TakenIsTried
  <2>4. \A i \in 1..Len(q) : RoleOf[q[i]] = role
    BY <1>1, <2>2 DEF Ordered
  <2>5. phase # "running" => seen = Unwatched
    BY DEF Followed, Quiet, Unwatched
  <2> HIDE DEF ended, seen, role
  <2>6. \A u \in Tasks : ended[cur][u] # "none" => act[cur][u] # "none"
    BY <1>1, <2>2
  <2>7. phase = "running" => \A u \in Tasks \ early : seen[u] # "no" <=> ended[cur][u] \in Unsettled
    BY <1>1, <2>2 DEF Followed, Accurate, Unsettled
  <2> HIDE DEF q
  <2>8. Quiet' /\ EarlyOnes' /\ TakenIsTried' /\ IdleRoleIsEmpty' /\ Accurate'
    BY <1>1, <1>2, <2>1, <2>2, <2>4, <2>5, <2>6, <2>7, NextFollowed
  <2>9. \A u \in Tasks : Waits(u) => Waits(u)' \/ u \in tried'
    <3> SUFFICES ASSUME NEW u \in Tasks, Waits(u) PROVE Waits(u)' \/ u \in tried'
      OBVIOUS
    <3>1. RoleOf[u] = role => \E i \in 1..Len(q) : q[i] = u
      BY DEF Waits, ToSet, q
    <3>2. QED
      BY <1>1, <2>1, <2>2, <3>1, NextWaits
  <2>10. tried \subseteq tried'
    BY <1>1, <2>1, <2>2, NextTaken
  <2>11. Cared'
    <3> SUFFICES ASSUME NEW u \in files \cap told PROVE reads'[u] > 0 \/ Waits(u)' \/ u \in tried'
      BY <1>2 DEF Cared
    <3>1. u \in Tasks /\ RoleOf[u] \in Roles
      BY <1>1 DEF TypeOK
    <3>2. reads[u] > 0 \/ Waits(u) \/ u = dispatching[RoleOf[u]] \/ u \in tried
      BY <2>2 DEF Followed, Cared
    <3>3. u = dispatching[RoleOf[u]] => u \in tried
      BY <2>2, <3>1 DEF Followed, TakenIsTried
    <3>4. QED
      BY <1>2, <2>9, <2>10, <3>1, <3>2, <3>3
  <2>12. FirstPoller'
    BY <1>2, <2>3 DEF Followed, FirstPoller
  <2>13. QED
    BY <1>3, <2>8, <2>11, <2>12 DEF Followed
<1>6. QED
  BY <1>4, <1>5


(* A stage of a dispatch in between.                                       *)
LEMMA StageFollowed ==
  ASSUME IInv, Followed, NEW r \in Runtimes, NEW t \in Tasks, NEW stage \in Stages \ {"none"},
         act[r][t] # "none", act' = [act EXCEPT ![r][t] = stage],
         UNCHANGED <<files, written, told, reads, queue, dispatching, tried, early>>,
         UNCHANGED runtime,
         \/ ~Alive(r) /\ watch' = watch
         \/ watch' = watch /\ (act[r][t] \in Unsettled <=> stage \in Unsettled)
         \/ Alive(r) /\ watch' = [watch EXCEPT ![t] = "no"] /\ stage \notin Unsettled
  PROVE  Followed'
<1>1. /\ cur' = cur /\ phase' = phase /\ pollers' = pollers /\ watching' = watching
      /\ act \in [Runtimes -> [Tasks -> Stages]] /\ watch \in [Tasks -> Watches]
  BY DEF runtime, IInv, TypeOK, Watches
<1>2. Known' /\ TakenIsTried' /\ IdleRoleIsEmpty' /\ FirstPoller' /\ Cared'
  BY <1>1 DEF Followed, Known, TakenIsTried, IdleRoleIsEmpty, FirstPoller, Cared, Waits
<1>3. Quiet'
  <2>1. watch = Unwatched => watch' = Unwatched
    BY <1>1 DEF Unwatched
  <2>2. QED
    BY <1>1, <2>1 DEF Followed, Quiet
<1>4. phase # "none" => cur \in Runtimes
  BY DEF IInv, DispatchOrdered
<1>5. EarlyOnes'
  BY <1>1, <1>4 DEF Followed, EarlyOnes
<1>6. Accurate'
  <2> SUFFICES ASSUME phase = "running", NEW u \in Tasks \ early
               PROVE  watch'[u] # "no" <=> act'[cur][u] \in Unsettled
    BY <1>1 DEF Accurate
  <2>1. watch[u] # "no" <=> act[cur][u] \in Unsettled
    BY DEF Followed, Accurate
  <2>2. CASE ~(r = cur /\ u = t)
    <3>1. act'[cur][u] = act[cur][u]
      BY <1>1, <1>4, <2>2
    <3>2. watch'[u] = watch[u]
      BY <1>1, <2>2 DEF Alive
    <3>3. QED
      BY <2>1, <3>1, <3>2
  <2>3. CASE r = cur /\ u = t
    <3>1. Alive(r) /\ act'[cur][u] = stage
      BY <1>1, <2>3 DEF Alive
    <3>2. CASE watch' = watch /\ (act[r][t] \in Unsettled <=> stage \in Unsettled)
      BY <2>1, <2>3, <3>1, <3>2
    <3>3. CASE watch' = [watch EXCEPT ![t] = "no"] /\ stage \notin Unsettled
      <4>1. watch'[u] = "no"
        BY <1>1, <2>3, <3>3
      <4>2. QED
        BY <3>1, <3>3, <4>1
    <3>4. QED
      BY <3>1, <3>2, <3>3
  <2>4. QED
    BY <2>2, <2>3
<1>7. QED
  BY <1>2, <1>3, <1>5, <1>6 DEF Followed

LEMMA DispatchFollowed ==
  ASSUME IInv, Followed, NEW r \in Runtimes, NEW t \in Tasks, DispatchStep(r, t)
  PROVE  Followed'
<1>1. CASE LogStarted(r, t)
  <2>1. /\ act[r][t] = "announced" /\ act' = [act EXCEPT ![r][t] = "executing"]
        /\ UNCHANGED <<files, written, told, reads, queue, dispatching, tried, early>>
        /\ UNCHANGED runtime /\ watch' = watch
    BY <1>1 DEF LogStarted, memory, history
  <2>2. "executing" \in Stages \ {"none"} /\ "announced" \in Unsettled /\ "executing" \in Unsettled
    BY DEF Stages, Unsettled
  <2>3. QED
    BY <2>1, <2>2, StageFollowed
<1>2. ASSUME NEW ending \in Endings, ExecuteEnds(r, t, ending) PROVE Followed'
  <2>1. /\ act[r][t] = "executing" /\ act' = [act EXCEPT ![r][t] = ending]
        /\ UNCHANGED <<files, written, told, reads, queue, dispatching, tried, early>>
        /\ UNCHANGED runtime
        /\ watch' = IF Alive(r) /\ ending # "error" THEN [watch EXCEPT ![t] = "no"] ELSE watch
    BY <1>2 DEF ExecuteEnds, memory, history
  <2>2. /\ ending \in Stages \ {"none"} /\ "executing" \in Unsettled /\ "error" \in Unsettled
        /\ ending # "error" => ending \notin Unsettled
    BY DEF Stages, Endings, Unsettled
  <2>3. CASE ending = "error"
    BY <2>1, <2>2, <2>3, StageFollowed
  <2>4. CASE ending # "error" /\ ~Alive(r)
    BY <2>1, <2>2, <2>4, StageFollowed
  <2>5. CASE ending # "error" /\ Alive(r)
    BY <2>1, <2>2, <2>5, StageFollowed
  <2>6. QED
    BY <2>3, <2>4, <2>5
<1>3. CASE LogCompleted(r, t)
  <2>1. /\ act[r][t] = "completed" /\ act' = [act EXCEPT ![r][t] = "removing"]
        /\ UNCHANGED <<files, written, told, reads, queue, dispatching, tried, early>>
        /\ UNCHANGED runtime /\ watch' = watch
    BY <1>3 DEF LogCompleted, memory, history
  <2>2. "removing" \in Stages \ {"none"} /\ "completed" \notin Unsettled /\ "removing" \notin Unsettled
    BY DEF Stages, Unsettled
  <2>3. QED
    BY <2>1, <2>2, StageFollowed
<1>4. CASE LogFailed(r, t)
  <2>1. /\ act[r][t] # "none" /\ Finish(r, t) /\ files' \subseteq files
        /\ UNCHANGED <<written, told, reads>> /\ UNCHANGED runtime
    BY <1>4 DEF LogFailed
  <2>2. QED
    BY <2>1, FinishFollowed
<1>5. CASE RemoveFile(r, t)
  <2>1. /\ act[r][t] # "none" /\ Finish(r, t) /\ files' \subseteq files
        /\ UNCHANGED <<written, told, reads>> /\ UNCHANGED runtime
    BY <1>5 DEF RemoveFile
  <2>2. QED
    BY <2>1, FinishFollowed
<1>6. QED
  BY <1>1, <1>2, <1>3, <1>4, <1>5 DEF DispatchStep

(* The files and their watchers, while no dispatch moves.                  *)
LEMMA FilesFollowed ==
  ASSUME IInv, Followed, NEW t \in Tasks,
         Drop(t) \/ Announce(t) \/ Refire(t) \/ ReadFails(t) \/ WriteTicket(t) \/ Tick(t)
  PROVE  Followed'
<1>1. /\ cur' = cur /\ phase' = phase /\ pollers' = pollers /\ watching' = watching
      /\ UNCHANGED <<queue, dispatching, act, tried, early>>
  BY DEF Drop, Announce, Refire, ReadFails, WriteTicket, Tick, runtime, memory, history
<1>2. EarlyOnes' /\ TakenIsTried' /\ IdleRoleIsEmpty'
  BY <1>1 DEF Followed, EarlyOnes, TakenIsTried, IdleRoleIsEmpty
<1>3. Known'
  BY DEF Drop, Announce, Refire, ReadFails, WriteTicket, Tick, Followed, Known
<1>4. CASE Tick(t)
  <2>1. /\ UNCHANGED <<files, told, reads>> /\ phase = "running"
        /\ watch[t] = "yes" /\ watch' = [watch EXCEPT ![t] = "alerted"]
    BY <1>4 DEF Tick, Listening
  <2>2. Quiet' /\ FirstPoller' /\ Cared'
    BY <1>1, <2>1 DEF Followed, Quiet, FirstPoller, Cared, Waits
  <2>3. Accurate'
    BY <1>1, <2>1 DEF Followed, Accurate, IInv, TypeOK
  <2>4. QED
    BY <1>2, <1>3, <2>2, <2>3 DEF Followed
<1>5. CASE ~Tick(t)
  <2>1. watch' = watch
    BY <1>5 DEF Drop, Announce, Refire, ReadFails, WriteTicket
  <2>2. Quiet' /\ Accurate'
    BY <1>1, <2>1 DEF Followed, Quiet, Accurate
  <2>3. CASE Drop(t) \/ WriteTicket(t)
    <3>1. files' = files \cup {t} /\ told' = told /\ reads' = reads /\ t \notin told
      BY <2>3 DEF Drop, WriteTicket, Followed, Known
    <3>2. FirstPoller' /\ Cared'
      BY <1>1, <3>1 DEF Followed, FirstPoller, Cared, Waits
    <3>3. QED
      BY <1>2, <1>3, <2>2, <3>2 DEF Followed
  <2>4. CASE Announce(t) \/ Refire(t)
    <3>1. /\ files' = files /\ told' = told \cup {t} /\ RoleOf[t] \in watching
          /\ reads' = [reads EXCEPT ![t] = @ + 1]
      BY <2>4 DEF Announce, Refire
    <3>2. reads'[t] > 0 /\ \A u \in Tasks : u # t => reads'[u] = reads[u]
      BY <3>1 DEF IInv, TypeOK
    <3>3. FirstPoller'
      BY <1>1, <3>1, <3>2 DEF Followed, FirstPoller
    <3>4. Cared'
      BY <1>1, <3>1, <3>2 DEF Followed, Cared, Waits, IInv, TypeOK
    <3>5. QED
      BY <1>2, <1>3, <2>2, <3>3, <3>4 DEF Followed
  <2>5. CASE ReadFails(t)
    <3>1. /\ files' = files /\ told' = told /\ t \notin files /\ reads[t] > 0
          /\ reads' = [reads EXCEPT ![t] = @ - 1]
      BY <2>5 DEF ReadFails
    <3>2. \A u \in Tasks : u # t => reads'[u] = reads[u]
      BY <3>1 DEF IInv, TypeOK
    <3>3. FirstPoller'
      <4>1. \A u \in Tasks : reads'[u] > 0 => reads[u] > 0
        BY <3>1, <3>2
      <4>2. QED
        BY <1>1, <4>1 DEF Followed, FirstPoller
    <3>4. Cared'
      BY <1>1, <3>1, <3>2 DEF Followed, Cared, Waits, IInv, TypeOK
    <3>5. QED
      BY <1>2, <1>3, <2>2, <3>3, <3>4 DEF Followed
  <2>6. QED
    BY <1>5, <2>3, <2>4, <2>5
<1>6. QED
  BY <1>4, <1>5

LEMMA PollerFollowed ==
  ASSUME IInv, Followed, NEW role \in Roles, OpenPoller(role) \/ PollerReady(role) \/ StopPoller(role)
  PROVE  Followed'
<1>1. /\ cur' = cur /\ phase # "none" /\ UNCHANGED <<files, written, queue, dispatching, act, watch, tried, early>>
  BY DEF OpenPoller, PollerReady, StopPoller, memory, history
<1>2. CASE OpenPoller(role)
  <2> DEFINE scanned == {u \in files : RoleOf[u] = role}
  <2>1. /\ phase' = phase /\ pollers' = pollers /\ role = pollers + 1 /\ phase = "starting"
        /\ watching' = watching \cup {role} /\ told' = told \cup scanned
        /\ reads' = [u \in Tasks |-> reads[u] + IF u \in scanned THEN 1 ELSE 0]
    BY <1>2 DEF OpenPoller
  <2>2. scanned \subseteq files /\ scanned \subseteq Tasks
    BY DEF IInv, TypeOK
  <2>3. /\ \A u \in scanned : reads'[u] > 0 /\ RoleOf[u] = role
        /\ \A u \in Tasks \ scanned : reads'[u] = reads[u]
    BY <2>1, <2>2 DEF IInv, TypeOK
  <2>4. \A u \in Tasks : reads[u] > 0 => reads'[u] > 0
    BY <2>3
  <2> HIDE DEF scanned
  <2>5. Known' /\ Quiet' /\ EarlyOnes' /\ TakenIsTried' /\ IdleRoleIsEmpty' /\ Accurate'
    BY <1>1, <2>1, <2>2 DEF Followed, Known, Quiet, EarlyOnes, TakenIsTried, IdleRoleIsEmpty, Accurate
  <2>6. FirstPoller'
    <3> SUFFICES ASSUME pollers = 0
                 PROVE  /\ watching' \subseteq {1} /\ tried' = {}
                        /\ \A u \in Tasks : reads'[u] > 0 => RoleOf[u] = 1
                        /\ \A o \in Roles \ {1} : queue'[o] = << >>
      BY <2>1 DEF FirstPoller
    <3>1. /\ role = 1 /\ watching \subseteq {1} /\ tried = {}
          /\ \A u \in Tasks : reads[u] > 0 => RoleOf[u] = 1
          /\ \A o \in Roles \ {1} : queue[o] = << >>
      BY <2>1 DEF Followed, FirstPoller
    <3>2. \A u \in Tasks : reads'[u] > 0 => RoleOf[u] = 1
      BY <2>3, <3>1
    <3>3. QED
      BY <1>1, <2>1, <3>1, <3>2
  <2>7. Cared'
    BY <1>1, <2>1, <2>2, <2>3, <2>4 DEF Followed, Cared, Waits, IInv, TypeOK
  <2>8. QED
    BY <2>5, <2>6, <2>7 DEF Followed
<1>3. CASE PollerReady(role)
  <2>1. /\ phase = "starting" /\ role = pollers + 1 /\ pollers' = role
        /\ phase' = IF role = NumRoles THEN "running" ELSE phase
        /\ UNCHANGED <<watching, told, reads>>
    BY <1>3 DEF PollerReady
  <2>2. pollers \in Nat /\ pollers' > 0
    BY <2>1 DEF IInv, TypeOK, Roles
  <2>3. Known' /\ Quiet' /\ EarlyOnes' /\ TakenIsTried' /\ Cared'
    BY <1>1, <2>1 DEF Followed, Known, Quiet, EarlyOnes, TakenIsTried, Cared, Waits
  <2>4. FirstPoller'
    BY <2>1, <2>2 DEF FirstPoller
  <2>5. IdleRoleIsEmpty'
    BY <1>1, <2>1, <2>2 DEF Followed, FirstPoller, IdleRoleIsEmpty
  <2>6. Accurate'
    BY <1>1, <2>1 DEF Followed, Quiet, EarlyOnes, Accurate, Unwatched, Unsettled
  <2>7. QED
    BY <2>3, <2>4, <2>5, <2>6 DEF Followed
<1>4. CASE StopPoller(role)
  <2>1. /\ phase = "stopping" /\ phase' = phase /\ (pollers' = 0 \/ pollers' = pollers)
        /\ UNCHANGED <<told, reads>>
    BY <1>4 DEF StopPoller
  <2>2. Known' /\ Quiet' /\ EarlyOnes' /\ TakenIsTried' /\ Cared' /\ FirstPoller' /\ Accurate'
    BY <1>1, <2>1 DEF Followed, Known, Quiet, EarlyOnes, TakenIsTried, Cared, Waits, FirstPoller, Accurate
  <2>3. IdleRoleIsEmpty'
    BY <1>1, <2>1 DEF Followed, IdleRoleIsEmpty
  <2>4. QED
    BY <2>2, <2>3 DEF Followed
<1>5. QED
  BY <1>2, <1>3, <1>4

LEMMA LifeFollowed ==
  ASSUME IInv, Followed, Start \/ StartFails \/ Stop \/ StopEnds \/ Crash
  PROVE  Followed'
<1>1. CASE Start
  <2>1. /\ cur' = cur + 1 /\ cur < MaxRuntimes /\ phase = "none" /\ phase' = "starting"
        /\ told' = {} /\ tried' = {} /\ early' = {}
        /\ UNCHANGED <<files, written, watching, pollers, reads, queue, dispatching, inFlight, watch, act>>
    BY <1>1 DEF Start, memory
  <2>2. cur' \in Runtimes /\ cur' > cur
    BY <2>1 DEF IInv, TypeOK, Runtimes
  <2>3. /\ watching = {} /\ pollers = 0 /\ reads = NoneYet
        /\ queue = NoQueues /\ dispatching = NoEntries
    BY <2>1 DEF IInv, CleanStart, Fresh
  <2>4. EarlyOnes'
    BY <2>1, <2>2 DEF EarlyOnes, IInv, NoneLater
  <2>5. Quiet' /\ Known' /\ Cared' /\ Accurate'
    BY <2>1 DEF Followed, Quiet, Known, Cared, Accurate
  <2>6. TakenIsTried' /\ IdleRoleIsEmpty' /\ FirstPoller'
    BY <2>1, <2>3 DEF TakenIsTried, IdleRoleIsEmpty, FirstPoller, NoEntries, NoQueues, NoneYet
  <2>7. QED
    BY <2>4, <2>5, <2>6 DEF Followed
<1>2. CASE StartFails \/ StopEnds \/ Crash
  <2>1. /\ phase' = "none" /\ UNCHANGED <<files, written, told>>
        /\ watch' = watch \/ watch' = Unwatched
        /\ pollers' = 0 \/ UNCHANGED <<pollers, queue, dispatching, tried>>
        /\ phase # "running" \/ watch' = Unwatched
    BY <1>2 DEF StartFails, StopEnds, Crash, Clear, memory, history
  <2>2. IdleRoleIsEmpty'
    <3>1. CASE pollers' = 0
      BY <3>1 DEF IdleRoleIsEmpty
    <3>2. CASE UNCHANGED <<pollers, queue, dispatching, tried>>
      BY <3>2 DEF Followed, IdleRoleIsEmpty
    <3>3. QED
      BY <2>1, <3>1, <3>2
  <2>3. QED
    BY <2>1, <2>2 DEF Followed, Known, Quiet, EarlyOnes, TakenIsTried, FirstPoller, Cared, Accurate
<1>3. CASE Stop
  <2>1. /\ phase' = "stopping" /\ phase # "none" /\ watch' = Unwatched
        /\ UNCHANGED <<files, written, told, reads, pollers, queue, dispatching, tried>>
    BY <1>3 DEF Stop, memory, history
  <2>2. Cared' /\ TakenIsTried' /\ IdleRoleIsEmpty' /\ Known'
    BY <2>1 DEF Followed, Cared, Waits, TakenIsTried, IdleRoleIsEmpty, Known
  <2>3. QED
    BY <2>1, <2>2 DEF Followed, Quiet, EarlyOnes, FirstPoller, Accurate
<1>4. QED
  BY <1>1, <1>2, <1>3

LEMMA FollowedStep == ASSUME IInv, Followed, [Next]_vars PROVE Followed'
<1>1. ASSUME NEW t \in Tasks, EnqueueDispatch(t) PROVE Followed'
  BY <1>1, EnqueueFollowed
<1>2. ASSUME NEW t \in Tasks, NEW r \in Runtimes, DispatchStep(r, t) PROVE Followed'
  BY <1>2, DispatchFollowed
<1>3. ASSUME NEW t \in Tasks,
             Drop(t) \/ Announce(t) \/ Refire(t) \/ ReadFails(t) \/ WriteTicket(t) \/ Tick(t)
      PROVE  Followed'
  BY <1>3, FilesFollowed
<1>4. ASSUME NEW role \in Roles, OpenPoller(role) \/ PollerReady(role) \/ StopPoller(role)
      PROVE  Followed'
  BY <1>4, PollerFollowed
<1>5. ASSUME Start \/ StartFails \/ Stop \/ StopEnds \/ Crash PROVE Followed'
  BY <1>5, LifeFollowed
<1>6. ASSUME UNCHANGED vars PROVE Followed'
  BY <1>6 DEF vars, runtime, memory, history, Followed, Known, Quiet, EarlyOnes, TakenIsTried,
              FirstPoller, Cared, Waits, IdleRoleIsEmpty, Accurate
<1>7. QED
  BY <1>1, <1>2, <1>3, <1>4, <1>5, <1>6 DEF Next

(* Every announced file is read, waits or is given to its agent, and never *)
(* waits for an idle agent; the log shows one end of every dispatch that   *)
(* no crash cut off; and the supervisor watches what is still under way,   *)
(* alerting once about each.                                               *)
THEOREM WorkIsNeverForgotten == Spec => []WorkIsFollowed
<1>1. Init => IInv /\ Followed /\ LogBalances /\ WatchedIsCalm /\ OneAlertPerDispatch
  <2> SUFFICES ASSUME Init
               PROVE  IInv /\ Followed /\ LogBalances /\ WatchedIsCalm /\ OneAlertPerDispatch
    OBVIOUS
  <2>1. Followed
    BY DEF Init, Followed, Known, Quiet, EarlyOnes, TakenIsTried, FirstPoller, Cared,
           IdleRoleIsEmpty, Accurate
  <2>2. WatchedIsCalm /\ OneAlertPerDispatch
    BY DEF Init, NoneYet, Unwatched, WatchedIsCalm, OneAlertPerDispatch
  <2>3. \A t \in Tasks : Open(t) = {}
    BY DEF Init, Open, NoActs, Endings
  <2>4. LogBalances
    BY <2>3, FS_EmptySet DEF Init, LogBalances, Kinds, Endings
  <2>5. QED
    BY <2>1, <2>2, <2>4, IInvInit
<1>2. IInv /\ Followed /\ LogBalances /\ WatchedIsCalm /\ OneAlertPerDispatch /\ [Next]_vars
        => (IInv /\ Followed /\ LogBalances /\ WatchedIsCalm /\ OneAlertPerDispatch)'
  <2> SUFFICES ASSUME IInv, Followed, LogBalances, WatchedIsCalm, OneAlertPerDispatch, [Next]_vars
               PROVE  (IInv /\ Followed /\ LogBalances /\ WatchedIsCalm /\ OneAlertPerDispatch)'
    OBVIOUS
  <2>1. (WatchedIsCalm /\ OneAlertPerDispatch)'
    BY CalmStep DEF IInv
  <2>2. IInv' /\ Followed' /\ LogBalances'
    BY IInvStep, FollowedStep, BalancedStep
  <2>3. QED
    BY <2>1, <2>2
<1>3. IInv /\ Followed /\ LogBalances /\ WatchedIsCalm /\ OneAlertPerDispatch => WorkIsFollowed
  BY DEF WorkIsFollowed, NothingForgotten, WatchIsAccurate, Followed, Cared, Accurate, Unsettled
<1>4. QED
  BY <1>1, <1>2, <1>3, PTL DEF Spec

=============================================================================
