----------------------------- MODULE TurnBroker -----------------------------
(***************************************************************************)
(* The interactive turns of one chat session: src/core/turn-broker.js, the *)
(* session's files (src/core/session-store.js), the ACP child it keeps     *)
(* alive between turns (src/runners/acp.js), the handlers that post a turn *)
(* and delete a session, and the repair after a restart.                   *)
(*                                                                         *)
(* An action is the code between two awaits that touch shared state.  The  *)
(* meta file is read, patched and written in two steps; its write is one.  *)
(* An ACP child is named by the turn that spawned it.                      *)
(***************************************************************************)
EXTENDS Naturals, Sequences

CONSTANTS
  Turns,       \* the POST /turn requests
  Deletes,     \* the DELETE /sessions/<sid> requests
  Overlapping, \* may a POST arrive while an earlier one is not yet answered?
  MaxUpdates,  \* session updates a turn's sink receives (bounds the model)
  MaxRestarts, \* server crashes (bounds the model)
  NoTurn

ASSUME TurnAssumption ==
  /\ NoTurn \notin Turns
  /\ Overlapping \in BOOLEAN
  /\ MaxUpdates \in Nat
  /\ MaxRestarts \in Nat

Status == {"idle", "running", "completed", "failed", "interrupted", "gone"}
Kind   == {"update", "assistant_message", "done", "turn_failed"}
Event  == [turn : Turns, seq : Nat, kind : Kind]

VARIABLES
  status,   \* the status in <sid>.json, "gone" when there is no file
  log,      \* <sid>.events.jsonl
  pending,  \* the appends to it under way
  running,  \* the broker's `running` entry: a turn or NoTurn
  cached,   \* the broker's `sessions` entry: a child or NoTurn
  timers,   \* the children whose entry has an armed idle timer
  child,    \* the state of each turn's child process
  pc,       \* turn -> where its handler, then its background part, stands
  uses,     \* turn -> the child it prompts
  seq,      \* turn -> the counter its append closure increments
  base,     \* turn -> startSeq
  copy,     \* turn -> the status in its copy of the meta file
  updates,  \* turn -> updates its sink received
  dpc,      \* delete request -> where its handler stands
  zombie,   \* where the start-up repair of running sessions stands
  restarts

broker  == <<running, cached, timers>>
turnVars == <<pc, uses, seq, base, copy>>
vars == <<status, log, pending, broker, child, turnVars, updates, dpc, zombie,
          restarts>>

Reads  == {"userRead", "runRead", "csidRead", "replyRead", "endRead",
           "partRead", "failRead"}
Writes == {"userWrite", "runWrite", "csidWrite", "replyWrite", "endWrite",
           "partWrite", "failWrite"}
Issues == {"message", "done", "failed"}
Waits  == {"messageWait", "doneWait", "failedWait"}
Over   == {"refused", "ended"}
TurnPc == {"idle", "starting", "lastSeq", "spawning", "prompting", "failing",
           "final", "failFinal"} \cup Reads \cup Writes \cup Issues \cup Waits \cup Over

(* The POST handler has not answered yet.                                  *)
Posting == {"userRead", "userWrite", "starting", "lastSeq", "spawning",
            "runRead", "runWrite"}

(* The background part of the turn is under way.                           *)
InFlight(t) == pc[t] \notin Posting \cup Over \cup {"idle"}

Quiet == \A t \in Turns : pc[t] \in Over \cup {"idle"}

TypeOK ==
  /\ status \in Status
  /\ log \in Seq(Event)
  /\ pending \subseteq Event
  /\ running \in Turns \cup {NoTurn}
  /\ cached \in Turns \cup {NoTurn}
  /\ timers \subseteq Turns
  /\ child \in [Turns -> {"none", "starting", "alive", "dead"}]
  /\ pc \in [Turns -> TurnPc]
  /\ uses \in [Turns -> Turns \cup {NoTurn}]
  /\ seq \in [Turns -> Nat]
  /\ base \in [Turns -> Nat]
  /\ copy \in [Turns -> Status]
  /\ updates \in [Turns -> 0..MaxUpdates]
  /\ dpc \in [Deletes -> {"idle", "waiting", "removing", "ended"}]
  /\ zombie \in {"todo", "write", "done"}
  /\ restarts \in 0..MaxRestarts

Init ==
  /\ status = "idle"
  /\ log = <<>>
  /\ pending = {}
  /\ running = NoTurn
  /\ cached = NoTurn
  /\ timers = {}
  /\ child = [t \in Turns |-> "none"]
  /\ pc = [t \in Turns |-> "idle"]
  /\ uses = [t \in Turns |-> NoTurn]
  /\ seq = [t \in Turns |-> 0]
  /\ base = [t \in Turns |-> 0]
  /\ copy = [t \in Turns |-> "idle"]
  /\ updates = [t \in Turns |-> 0]
  /\ dpc = [d \in Deletes |-> "idle"]
  /\ zombie = "done"
  /\ restarts = 0

-----------------------------------------------------------------------------
(* The handler: turn.post.ts                                               *)

GoTo(t, place) == pc' = [pc EXCEPT ![t] = place]

(* 404 without a meta file, 409 while a turn is running.                   *)
PostTurn(t) ==
  /\ pc[t] = "idle"
  /\ Overlapping \/ \A u \in Turns : pc[u] \notin Posting
  /\ GoTo(t, IF status = "gone" \/ running # NoTurn THEN "refused" ELSE "userRead")
  /\ UNCHANGED <<status, log, pending, broker, child, uses, seq, base, copy,
                 updates, dpc, zombie, restarts>>

(* 400 or 401: the user has no agent profile.                              *)
NoProfile(t) ==
  /\ pc[t] = "userRead"
  /\ GoTo(t, "refused")
  /\ UNCHANGED <<status, log, pending, broker, child, uses, seq, base, copy,
                 updates, dpc, zombie, restarts>>

-----------------------------------------------------------------------------
(* The session's meta file: appendMessage and updateSessionMeta            *)

(* Where the turn goes on after the write it is about to do.               *)
AfterWrite(p) ==
  CASE p = "userWrite"  -> "starting"
    [] p = "runWrite"   -> "prompting"
    [] p = "csidWrite"  -> "replyRead"
    [] p = "replyWrite" -> "message"
    [] p = "endWrite"   -> "final"
    [] p = "partWrite"  -> "failed"
    [] OTHER            -> "failFinal"

(* The write the read prepares, or, without a meta file, where the turn    *)
(* goes on: appendMessage ignores it, updateSessionMeta throws.            *)
AfterRead(p, gone) ==
  CASE p = "userRead"  -> IF gone THEN "starting" ELSE "userWrite"
    [] p = "runRead"   -> IF gone THEN "refused"  ELSE "runWrite"
    [] p = "csidRead"  -> IF gone THEN "failing"  ELSE "csidWrite"
    [] p = "replyRead" -> IF gone THEN "message"  ELSE "replyWrite"
    [] p = "endRead"   -> IF gone THEN "failing"  ELSE "endWrite"
    [] p = "partRead"  -> IF gone THEN "failed"   ELSE "partWrite"
    [] OTHER           -> IF gone THEN "final"    ELSE "failWrite"

(* Mutant: the failed turn's meta keeps its status.                        *)
NewStatusFailedKept(p, old) ==
  CASE p = "runWrite" -> "running"
    [] p = "endWrite" -> "completed"
    [] OTHER -> old

NewStatus(p, old) ==
  CASE p = "runWrite" -> "running"
    [] p = "endWrite" -> "completed"
    [] p = "failWrite" -> "failed"
    [] OTHER -> old

ReadMeta(t) ==
  /\ pc[t] \in Reads
  /\ copy' = [copy EXCEPT ![t] = status]
  /\ GoTo(t, AfterRead(pc[t], status = "gone"))
  /\ UNCHANGED <<status, log, pending, broker, child, uses, seq, base, updates,
                 dpc, zombie, restarts>>

(* Mutant: the key leaves `running` with the last write, before finally.   *)
WriteMetaReleases(t) ==
  /\ pc[t] \in Writes
  /\ status' = NewStatus(pc[t], copy[t])
  /\ GoTo(t, AfterWrite(pc[t]))
  /\ running' = CASE pc[t] = "runWrite" -> t
                  [] pc[t] \in {"endWrite", "failWrite"} -> NoTurn
                  [] OTHER -> running
  /\ UNCHANGED <<log, pending, cached, timers, child, uses, seq, base, copy,
                 updates, dpc, zombie, restarts>>

(* After the write of "running" the prompt is sent and `running` is set in *)
(* the same turn of the event loop.                                        *)
WriteMeta(t) ==
  /\ pc[t] \in Writes
  /\ status' = NewStatus(pc[t], copy[t])
  /\ GoTo(t, AfterWrite(pc[t]))
  /\ running' = IF pc[t] = "runWrite" THEN t ELSE running
  /\ UNCHANGED <<log, pending, cached, timers, child, uses, seq, base, copy,
                 updates, dpc, zombie, restarts>>

-----------------------------------------------------------------------------
(* TurnBroker.startTurn                                                    *)

StartTurn(t) ==
  /\ pc[t] = "starting"
  /\ GoTo(t, IF running # NoTurn THEN "refused" ELSE "lastSeq")
  /\ UNCHANGED <<status, log, pending, broker, child, uses, seq, base, copy,
                 updates, dpc, zombie, restarts>>

LastSeq == IF log = <<>> THEN 0 ELSE log[Len(log)].seq

(* Mutant: the reused child's idle timer stays armed.                      *)
ResolveRunnerTimerKept(t) ==
  /\ pc[t] = "lastSeq"
  /\ base' = [base EXCEPT ![t] = LastSeq]
  /\ seq' = [seq EXCEPT ![t] = LastSeq]
  /\ IF cached # NoTurn /\ child[cached] = "alive"
     THEN /\ uses' = [uses EXCEPT ![t] = cached]
          /\ GoTo(t, "runRead")
          /\ UNCHANGED <<cached, timers, child>>
     ELSE /\ cached' = NoTurn
          /\ timers' = timers \ {cached}
          /\ child' = [child EXCEPT ![t] = "starting"]
          /\ GoTo(t, "spawning")
          /\ UNCHANGED uses
  /\ UNCHANGED <<status, log, pending, running, copy, updates, dpc, zombie, restarts>>

(* The last line's seq, then _resolveRunner: a live cached child is        *)
(* reused, a dead one dropped; without one a child is spawned.             *)
ResolveRunner(t) ==
  /\ pc[t] = "lastSeq"
  /\ base' = [base EXCEPT ![t] = LastSeq]
  /\ seq' = [seq EXCEPT ![t] = LastSeq]
  /\ timers' = timers \ {cached}
  /\ IF cached # NoTurn /\ child[cached] = "alive"
     THEN /\ uses' = [uses EXCEPT ![t] = cached]
          /\ GoTo(t, "runRead")
          /\ UNCHANGED <<cached, child>>
     ELSE /\ cached' = NoTurn
          /\ child' = [child EXCEPT ![t] = "starting"]
          /\ GoTo(t, "spawning")
          /\ UNCHANGED uses
  /\ UNCHANGED <<status, log, pending, running, copy, updates, dpc, zombie, restarts>>

Spawned(t) ==
  /\ pc[t] = "spawning"
  /\ child[t] = "starting"
  /\ child' = [child EXCEPT ![t] = "alive"]
  /\ cached' = t
  /\ uses' = [uses EXCEPT ![t] = t]
  /\ GoTo(t, "runRead")
  /\ UNCHANGED <<status, log, pending, running, timers, seq, base, copy, updates,
                 dpc, zombie, restarts>>

(* Mutant: the child whose start failed is not closed.                     *)
SpawnFailsUnclosed(t) ==
  /\ pc[t] = "spawning"
  /\ child' = [child EXCEPT ![t] = IF @ = "starting" THEN "alive" ELSE @]
  /\ GoTo(t, "refused")
  /\ UNCHANGED <<status, log, pending, broker, uses, seq, base, copy, updates, dpc,
                 zombie, restarts>>

SpawnFails(t) ==
  /\ pc[t] = "spawning"
  /\ child' = [child EXCEPT ![t] = "dead"]
  /\ GoTo(t, "refused")
  /\ UNCHANGED <<status, log, pending, broker, uses, seq, base, copy, updates, dpc,
                 zombie, restarts>>

-----------------------------------------------------------------------------
(* The background part of the turn                                         *)

(* Where child c's updates go: to the turn prompting it, and otherwise to  *)
(* the sink it was built with, the one of the turn that spawned it.        *)
Sinks(c) ==
  LET prompters == {t \in Turns : pc[t] = "prompting" /\ uses[t] = c}
  IN  IF prompters = {} THEN {c} ELSE prompters

(* An update: the next seq of the sink's closure, and an append that       *)
(* nobody awaits.                                                          *)
SessionUpdate(c) ==
  /\ child[c] \in {"starting", "alive"}
  /\ \E t \in Sinks(c) :
       /\ updates[t] < MaxUpdates
       /\ updates' = [updates EXCEPT ![t] = @ + 1]
       /\ seq' = [seq EXCEPT ![t] = @ + 1]
       /\ pending' = pending \cup {[turn |-> t, seq |-> seq[t] + 1, kind |-> "update"]}
  /\ UNCHANGED <<status, log, broker, child, pc, uses, base, copy, dpc, zombie, restarts>>

(* The prompt resolves, whatever its stopReason (a cancel is one).         *)
PromptResolves(t) ==
  /\ pc[t] = "prompting"
  /\ child[uses[t]] = "alive"
  /\ GoTo(t, "csidRead")
  /\ UNCHANGED <<status, log, pending, broker, child, uses, seq, base, copy,
                 updates, dpc, zombie, restarts>>

(* Mutant: a prompt does not reject when its child is dead.                *)
PromptRejectsAlive(t) ==
  /\ pc[t] = "prompting"
  /\ child[uses[t]] = "alive"
  /\ GoTo(t, "failing")
  /\ UNCHANGED <<status, log, pending, broker, child, uses, seq, base, copy,
                 updates, dpc, zombie, restarts>>

(* The prompt rejects: an error answer, or the child is gone.              *)
PromptRejects(t) ==
  /\ pc[t] = "prompting"
  /\ GoTo(t, "failing")
  /\ UNCHANGED <<status, log, pending, broker, child, uses, seq, base, copy,
                 updates, dpc, zombie, restarts>>

(* The catch: with partial text a message is stored first.                 *)
Catch(t) ==
  /\ pc[t] = "failing"
  /\ \/ updates[t] > 0 /\ GoTo(t, "partRead")
     \/ GoTo(t, "failed")
  /\ UNCHANGED <<status, log, pending, broker, child, uses, seq, base, copy,
                 updates, dpc, zombie, restarts>>

(* Mutant: the two events that end a turn are appended in the other order. *)
KindAtSwapped(p) == CASE p = "message" -> "done"
                      [] p = "done"    -> "assistant_message"
                      [] OTHER         -> "turn_failed"

KindAt(p) == CASE p = "message" -> "assistant_message"
               [] p = "done"    -> "done"
               [] OTHER         -> "turn_failed"

(* An append the turn waits for.                                           *)
IssueAppend(t) ==
  /\ pc[t] \in Issues
  /\ seq' = [seq EXCEPT ![t] = @ + 1]
  /\ pending' = pending \cup
       {[turn |-> t, seq |-> seq[t] + 1, kind |-> KindAt(pc[t])]}
  /\ GoTo(t, CASE pc[t] = "message" -> "messageWait"
               [] pc[t] = "done"    -> "doneWait"
               [] OTHER             -> "failedWait")
  /\ UNCHANGED <<status, log, broker, child, uses, base, copy, updates, dpc,
                 zombie, restarts>>

AfterAppend(p) ==
  CASE p = "messageWait" -> "done"
    [] p = "doneWait"    -> "endRead"
    [] OTHER             -> "failRead"

(* An append ends, in any order; the emitter tells the subscribers.        *)
Land(e) ==
  /\ e \in pending
  /\ pending' = pending \ {e}
  /\ log' = Append(log, e)
  /\ pc' = IF e.kind = "update" THEN pc
           ELSE [pc EXCEPT ![e.turn] = AfterAppend(@)]
  /\ UNCHANGED <<status, broker, child, uses, seq, base, copy, updates, dpc,
                 zombie, restarts>>

(* Mutant: no idle timer for the child that stays.                         *)
FinallyUntimed(t) ==
  /\ pc[t] \in {"final", "failFinal"}
  /\ running' = NoTurn
  /\ cached' = IF pc[t] = "failFinal" /\ child[uses[t]] = "dead" THEN NoTurn ELSE cached
  /\ child' = IF cached' # cached THEN [child EXCEPT ![cached] = "dead"] ELSE child
  /\ timers' = IF cached' = NoTurn THEN timers \ {cached} ELSE timers
  /\ GoTo(t, "ended")
  /\ UNCHANGED <<status, log, pending, uses, seq, base, copy, updates, dpc, zombie,
                 restarts>>

(* The finally (and, after a failure, the close of a dead child's entry):  *)
(* the key leaves `running`, a cached child's idle timer is armed, `ended` *)
(* is emitted.                                                             *)
Finally(t) ==
  /\ pc[t] \in {"final", "failFinal"}
  /\ running' = NoTurn
  /\ cached' = IF pc[t] = "failFinal" /\ child[uses[t]] = "dead" THEN NoTurn ELSE cached
  /\ child' = IF cached' # cached THEN [child EXCEPT ![cached] = "dead"] ELSE child
  /\ timers' = IF cached' = NoTurn THEN timers \ {cached} ELSE timers \cup {cached}
  /\ GoTo(t, "ended")
  /\ UNCHANGED <<status, log, pending, uses, seq, base, copy, updates, dpc, zombie,
                 restarts>>

-----------------------------------------------------------------------------
(* The child, its idle timer, deletion, restart                            *)

(* Mutant: the dead child gets a state of its own.                         *)
ChildDiesClosed(c) ==
  /\ child[c] \in {"starting", "alive"}
  /\ child' = [child EXCEPT ![c] = "closed"]
  /\ UNCHANGED <<status, log, pending, broker, turnVars, updates, dpc, zombie, restarts>>

ChildDies(c) ==
  /\ child[c] \in {"starting", "alive"}
  /\ child' = [child EXCEPT ![c] = "dead"]
  /\ UNCHANGED <<status, log, pending, broker, turnVars, updates, dpc, zombie, restarts>>

(* The timer of c's entry fires and closes whatever entry the key has now. *)
IdleTimer(c) ==
  /\ c \in timers
  /\ timers' = timers \ {c, cached}
  /\ cached' = NoTurn
  /\ child' = IF cached = NoTurn THEN child ELSE [child EXCEPT ![cached] = "dead"]
  /\ UNCHANGED <<status, log, pending, running, turnVars, updates, dpc, zombie, restarts>>

(* [sid].delete.ts: cancel a running turn and wait for its end ...         *)
DeleteRequest(d) ==
  /\ dpc[d] = "idle"
  /\ dpc' = [dpc EXCEPT ![d] = IF running = NoTurn THEN "removing" ELSE "waiting"]
  /\ UNCHANGED <<status, log, pending, broker, child, turnVars, updates, zombie, restarts>>

(* ... for five seconds, then 503 ...                                      *)
DeleteWaits(d) ==
  /\ dpc[d] = "waiting"
  /\ \/ running = NoTurn /\ dpc' = [dpc EXCEPT ![d] = "removing"]
     \/ running # NoTurn /\ dpc' = [dpc EXCEPT ![d] = "ended"]
  /\ UNCHANGED <<status, log, pending, broker, child, turnVars, updates, zombie, restarts>>

(* ... and remove the session's files.                                     *)
DeleteSession(d) ==
  /\ dpc[d] = "removing"
  /\ status' = "gone"
  /\ log' = <<>>
  /\ dpc' = [dpc EXCEPT ![d] = "ended"]
  /\ UNCHANGED <<pending, broker, child, turnVars, updates, zombie, restarts>>

(* The shutdown hook closes every cached child, also one that is prompted. *)
Drain ==
  /\ restarts < MaxRestarts
  /\ cached # NoTurn
  /\ timers' = timers \ {cached}
  /\ cached' = NoTurn
  /\ child' = [child EXCEPT ![cached] = "dead"]
  /\ UNCHANGED <<status, log, pending, running, turnVars, updates, dpc, zombie, restarts>>

(* The server dies: its children and every map are gone, the files stay.   *)
Restart ==
  /\ restarts < MaxRestarts
  /\ restarts' = restarts + 1
  /\ running' = NoTurn
  /\ cached' = NoTurn
  /\ timers' = {}
  /\ pending' = {}
  /\ child' = [c \in Turns |-> IF child[c] = "none" THEN "none" ELSE "dead"]
  /\ pc' = [t \in Turns |-> IF pc[t] \in {"idle", "refused"} THEN pc[t] ELSE "ended"]
  /\ dpc' = [d \in Deletes |-> IF dpc[d] = "idle" THEN "idle" ELSE "ended"]
  /\ zombie' = "todo"
  /\ UNCHANGED <<status, log, uses, seq, base, copy, updates>>

(* interruptRunningSessions reads the meta file ...                        *)
ZombieRead ==
  /\ zombie = "todo"
  /\ zombie' = IF status = "running" THEN "write" ELSE "done"
  /\ UNCHANGED <<status, log, pending, broker, child, turnVars, updates, dpc, restarts>>

(* ... and writes it.                                                      *)
ZombieWrite ==
  /\ zombie = "write"
  /\ zombie' = "done"
  /\ status' = "interrupted"
  /\ UNCHANGED <<log, pending, broker, child, turnVars, updates, dpc, restarts>>

-----------------------------------------------------------------------------
(* The steps no subscriber hears of.                                       *)
HandlerStep(t) ==
  \/ NoProfile(t) \/ StartTurn(t) \/ ResolveRunner(t)
  \/ Spawned(t) \/ SpawnFails(t)
PromptStep(t) == PromptResolves(t) \/ PromptRejects(t) \/ Catch(t) \/ IssueAppend(t)
MetaStep(t) == ReadMeta(t) \/ WriteMeta(t)
DeleteStep(d) == DeleteWaits(d) \/ DeleteSession(d)
RepairStep == ZombieRead \/ ZombieWrite

SilentStep ==
  \/ \E t \in Turns : PostTurn(t) \/ HandlerStep(t) \/ MetaStep(t) \/ PromptStep(t)
  \/ \E c \in Turns : SessionUpdate(c) \/ ChildDies(c) \/ IdleTimer(c)
  \/ \E d \in Deletes : DeleteRequest(d) \/ DeleteStep(d)
  \/ RepairStep
  \/ Drain

Next ==
  \/ SilentStep
  \/ \E e \in pending : Land(e)
  \/ \E t \in Turns : Finally(t)
  \/ Restart

Spec == Init /\ [][Next]_vars

-----------------------------------------------------------------------------
(* Properties                                                              *)

(* One turn at a time: the turn in the background is the one in `running`, *)
(* from the prompt to its finally, whatever died, was deleted or failed.   *)
OneTurnInFlight ==
  \A t \in Turns : InFlight(t) => running = t

(* No child process outlives its use: a child that runs is starting, is    *)
(* cached, or is the one a turn in flight prompts.                         *)
NoChildLeaks ==
  \A c \in Turns : child[c] \in {"starting", "alive"} =>
    \/ cached = c
    \/ pc[c] = "spawning"
    \/ \E t \in Turns : uses[t] = c /\ pc[t] \notin Over

Deleted == \E d \in Deletes : dpc[d] = "ended"

(* A cached child nobody uses has an idle timer that will close it, unless *)
(* its session was deleted while the turn that spawned it was starting.    *)
IdleChildTimed ==
  (Quiet /\ cached # NoTurn) =>
    cached \in timers \/ Deleted

(* The idle timer never fires under a turn: none is armed from the moment  *)
(* a turn has its child to its finally.                                    *)
NoTimerDuringTurn ==
  (\E t \in Turns : InFlight(t) \/ pc[t] \in {"runRead", "runWrite"}) => timers = {}

(* An agent process is in use, or is cached and sure to be closed, and not *)
(* before the turn that took it is over.                                   *)
ChildrenAreTended == NoChildLeaks /\ IdleChildTimed /\ NoTimerDuringTurn

(* A turn that is over is not recorded as running, whatever else read and  *)
(* wrote the meta file meanwhile.                                          *)
EndIsRecorded ==
  \A t \in Turns : pc[t] \in {"final", "failFinal"} => status # "running"

(* A turn's log has at most one terminal event, and nothing but updates    *)
(* after it, unless the session was deleted under the turn.                *)
OneTerminalEvent ==
  \A i, j \in 1..Len(log) :
    (i < j /\ log[i].turn = log[j].turn /\ log[i].kind \in {"done", "turn_failed"})
      => log[j].kind = "update" \/ Deleted

(* A turn ends once, in the meta file and in the log.                      *)
TurnEndsOnce == EndIsRecorded /\ OneTerminalEvent

-----------------------------------------------------------------------------
(* What the documentation says                                             *)

(* "so the UI never sees a permanently-stuck running session after a       *)
(* crash/restart" (session-store.js): with no request under way and the    *)
(* repair done, no session is recorded as running.                         *)
NoStuckRunning ==
  (Quiet /\ zombie = "done") => status # "running"
=============================================================================
