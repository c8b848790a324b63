-------------------------- MODULE TurnBrokerProofs --------------------------
(* Theorems about TurnBroker, for every set of turns and deletions, every  *)
(* number of updates and crashes.  Those about a turn's exclusiveness      *)
(* assume that a client posts no turn before its last one is answered.     *)
EXTENDS TurnBroker, TLAPS

USE TurnAssumption

(* The places of a turn, from the message it stores to its last write.     *)
LEMMA PlacesOfTheTables ==
  /\ \A p \in Reads, gone \in BOOLEAN : AfterRead(p, gone) \in TurnPc
  /\ \A p \in Writes : AfterWrite(p) \in TurnPc
  /\ \A p \in TurnPc : AfterAppend(p) \in TurnPc /\ KindAt(p) \in Kind
  /\ \A p \in Writes, s \in Status : NewStatus(p, s) \in Status
  BY DEF AfterRead, AfterWrite, AfterAppend, KindAt, NewStatus, TurnPc, Reads, Writes,
         Issues, Waits, Over, Kind, Status

-----------------------------------------------------------------------------
(* Type correctness                                                        *)

LEMMA LastSeqType ==
  ASSUME TypeOK
  PROVE  LastSeq \in Nat
<1>1. CASE log = <<>>
  BY <1>1 DEF LastSeq
<1>2. CASE log # <<>>
  <2>1. Len(log) \in 1..Len(log) /\ log[Len(log)] \in Event
    BY <1>2 DEF TypeOK
  <2>2. QED
    BY <1>2, <2>1 DEF LastSeq, Event
<1>3. QED
  BY <1>1, <1>2

LEMMA TurnStepType ==
  ASSUME TypeOK, NEW t \in Turns,
         PostTurn(t) \/ HandlerStep(t) \/ MetaStep(t) \/ PromptStep(t) \/ Finally(t)
  PROVE  TypeOK'
<1> USE DEF TypeOK, broker, GoTo
<1>1. CASE PostTurn(t)
  BY <1>1 DEF PostTurn, TurnPc, Reads, Over
<1>2. CASE NoProfile(t)
  BY <1>2 DEF NoProfile, TurnPc, Over
<1>3. CASE StartTurn(t)
  BY <1>3 DEF StartTurn, TurnPc, Over
<1>4. CASE ResolveRunner(t)
  <2>1. LastSeq \in Nat
    BY LastSeqType
  <2>2. base' \in [Turns -> Nat] /\ seq' \in [Turns -> Nat]
    BY <1>4, <2>1 DEF ResolveRunner
  <2>3. CASE cached # NoTurn /\ child[cached] = "alive"
    <3>1. /\ uses' = [uses EXCEPT ![t] = cached]
          /\ pc' = [pc EXCEPT ![t] = "runRead"]
          /\ cached' = cached /\ child' = child
      BY <1>4, <2>3 DEF ResolveRunner
    <3>2. uses' \in [Turns -> Turns \cup {NoTurn}]
      BY <3>1
    <3>3. pc' \in [Turns -> TurnPc]
      BY <3>1 DEF TurnPc, Reads
    <3>4. QED
      BY <1>4, <2>2, <3>1, <3>2, <3>3 DEF ResolveRunner
  <2>4. CASE ~(cached # NoTurn /\ child[cached] = "alive")
    <3>1. /\ cached' = NoTurn
          /\ child' = [child EXCEPT ![t] = "starting"]
          /\ pc' = [pc EXCEPT ![t] = "spawning"]
          /\ uses' = uses
      BY <1>4, <2>4 DEF ResolveRunner
    <3>2. child' \in [Turns -> {"none", "starting", "alive", "dead"}]
      BY <3>1
    <3>3. pc' \in [Turns -> TurnPc]
      BY <3>1 DEF TurnPc
    <3>4. QED
      BY <1>4, <2>2, <3>1, <3>2, <3>3 DEF ResolveRunner
  <2>5. QED
    BY <2>3, <2>4
<1>5. CASE Spawned(t)
  BY <1>5 DEF Spawned, TurnPc, Reads
<1>6. CASE SpawnFails(t)
  BY <1>6 DEF SpawnFails, TurnPc, Over
<1>7. CASE ReadMeta(t)
  <2>1. AfterRead(pc[t], status = "gone") \in TurnPc
    BY <1>7, PlacesOfTheTables DEF ReadMeta
  <2>2. QED
    BY <1>7, <2>1 DEF ReadMeta
<1>8. CASE WriteMeta(t)
  <2>1. AfterWrite(pc[t]) \in TurnPc /\ NewStatus(pc[t], copy[t]) \in Status
    BY <1>8, PlacesOfTheTables DEF WriteMeta
  <2>2. QED
    BY <1>8, <2>1 DEF WriteMeta
<1>9. CASE PromptResolves(t) \/ PromptRejects(t) \/ Catch(t)
  <2>1. CASE PromptResolves(t)
    BY <2>1 DEF PromptResolves, TurnPc, Reads, Issues
  <2>2. CASE PromptRejects(t)
    BY <2>2 DEF PromptRejects, TurnPc, Reads, Issues
  <2>3. CASE Catch(t)
    BY <2>3 DEF Catch, TurnPc, Reads, Issues
  <2>4. QED
    BY <1>9, <2>1, <2>2, <2>3
<1>10. CASE IssueAppend(t)
  <2>1. [turn |-> t, seq |-> seq[t] + 1, kind |-> KindAt(pc[t])] \in Event
    BY PlacesOfTheTables DEF Event
  <2>2. pc' \in [Turns -> TurnPc]
    <3>1. PICK wait \in Waits : pc' = [pc EXCEPT ![t] = wait]
      BY <1>10 DEF IssueAppend, Waits
    <3>2. wait \in TurnPc
      BY DEF TurnPc
    <3>3. QED
      BY <3>1, <3>2
  <2>3. pending' \subseteq Event
    BY <1>10, <2>1 DEF IssueAppend
  <2>4. seq' \in [Turns -> Nat]
    <3>1. seq' = [seq EXCEPT ![t] = @ + 1] /\ seq[t] + 1 \in Nat
      BY <1>10 DEF IssueAppend
    <3>2. QED
      BY <3>1
  <2>5. QED
    BY <1>10, <2>2, <2>3, <2>4 DEF IssueAppend
<1>11. CASE Finally(t)
  BY <1>11 DEF Finally, TurnPc, Over
<1>12. QED
  BY <1>1, <1>2, <1>3, <1>4, <1>5, <1>6, <1>7, <1>8, <1>9, <1>10, <1>11
     DEF HandlerStep, MetaStep, PromptStep

LEMMA LandType ==
  ASSUME TypeOK, NEW e \in pending, Land(e)
  PROVE  TypeOK'
<1>1. e \in Event /\ e.turn \in Turns
  BY DEF TypeOK, Event
<1>2. Append(log, e) \in Seq(Event)
  BY <1>1 DEF TypeOK
<1>3. pc' \in [Turns -> TurnPc]
  BY <1>1, PlacesOfTheTables DEF Land, TypeOK
<1>4. QED
  BY <1>2, <1>3 DEF Land, TypeOK, broker

LEMMA CountsUp ==
  ASSUME NEW n \in 0..MaxUpdates, n < MaxUpdates, NEW k \in Nat
  PROVE  n + 1 \in 0..MaxUpdates /\ k + 1 \in Nat
  OBVIOUS

LEMMA ChildStepType ==
  ASSUME TypeOK, NEW c \in Turns, SessionUpdate(c) \/ ChildDies(c) \/ IdleTimer(c)
  PROVE  TypeOK'
<1> USE DEF TypeOK, broker, turnVars
<1>1. CASE SessionUpdate(c)
  <2>1. PICK t \in Sinks(c) :
           /\ updates[t] < MaxUpdates
           /\ updates' = [updates EXCEPT ![t] = @ + 1]
           /\ seq' = [seq EXCEPT ![t] = @ + 1]
           /\ pending' = pending \cup
                {[turn |-> t, seq |-> seq[t] + 1, kind |-> "update"]}
    BY <1>1 DEF SessionUpdate
  <2>2. t \in Turns
    BY DEF Sinks
  <2>3. [turn |-> t, seq |-> seq[t] + 1, kind |-> "update"] \in Event
    BY <2>2 DEF Event, Kind
  <2>4. updates' \in [Turns -> 0..MaxUpdates] /\ seq' \in [Turns -> Nat]
    <3>0. /\ updates[t] \in 0..MaxUpdates /\ updates[t] < MaxUpdates
          /\ seq[t] \in Nat
      BY <2>1, <2>2
    <3>1. updates[t] + 1 \in 0..MaxUpdates /\ seq[t] + 1 \in Nat
      BY <3>0, CountsUp
    <3>2. QED
      BY <2>1, <2>2, <3>1
  <2>5. pending' \subseteq Event
    BY <2>1, <2>3
  <2>6. QED
    BY <1>1, <2>4, <2>5 DEF SessionUpdate
<1>2. CASE ChildDies(c)
  BY <1>2 DEF ChildDies
<1>3. CASE IdleTimer(c)
  BY <1>3 DEF IdleTimer
<1>4. QED
  BY <1>1, <1>2, <1>3

LEMMA OtherStepType ==
  ASSUME TypeOK,
         \/ \E d \in Deletes : DeleteRequest(d) \/ DeleteStep(d)
         \/ RepairStep \/ Drain \/ Restart
  PROVE  TypeOK'
<1> USE DEF TypeOK, broker, turnVars
<1>1. ASSUME NEW d \in Deletes, DeleteRequest(d) \/ DeleteStep(d)
      PROVE  TypeOK'
  <2>1. <<>> \in Seq(Event)
    OBVIOUS
  <2>2. QED
    BY <1>1, <2>1 DEF DeleteRequest, DeleteStep, DeleteWaits, DeleteSession, Status
<1>2. CASE RepairStep
  BY <1>2 DEF RepairStep, ZombieRead, ZombieWrite, Status
<1>3. CASE Drain
  BY <1>3 DEF Drain
<1>4. CASE Restart
  BY <1>4 DEF Restart, TurnPc, Over
<1>5. QED
  BY <1>1, <1>2, <1>3, <1>4

LEMMA TypeStep == TypeOK /\ [Next]_vars => TypeOK'
<1> SUFFICES ASSUME TypeOK, [Next]_vars
             PROVE  TypeOK'
  OBVIOUS
<1>1. CASE UNCHANGED vars
  BY <1>1 DEF TypeOK, vars, broker, turnVars
<1>2. CASE Next
  BY <1>2, TurnStepType, LandType, ChildStepType, OtherStepType DEF Next, SilentStep
<1>3. QED
  BY <1>1, <1>2

LEMMA TypeInit == Init => TypeOK
  BY DEF Init, TypeOK, Status, TurnPc

(* Every variable keeps its type, for every set of turns and deletions.    *)
THEOREM TypeCorrect == Spec => []TypeOK
  BY TypeInit, TypeStep, PTL DEF Spec

-----------------------------------------------------------------------------
(* The inductive invariant                                                 *)

(* The handler and the background of a turn exclude each other.            *)
Alone ==
  /\ \A t \in Turns : pc[t] \in Posting => running = NoTurn
  /\ \A t, u \in Turns : pc[t] \in Posting /\ pc[u] \in Posting => t = u
  /\ OneTurnInFlight

(* An append that ends is one its turn waits for, and its turn waits for   *)
(* no other.                                                               *)
Awaited ==
  /\ \A e \in pending : e.kind # "update" => pc[e.turn] \in Waits
  /\ \A e, f \in pending :
       e.kind # "update" /\ f.kind # "update" /\ e.turn = f.turn => e = f

(* The turn holds a child, or is about to.                                 *)
Holds(t) == InFlight(t) \/ pc[t] \in {"spawning", "runRead", "runWrite"}

(* Only the cached child is timed, and not under a turn.                   *)
TimersKept ==
  /\ timers \subseteq {cached}
  /\ \A t \in Turns : Holds(t) => timers = {}

(* A child that runs is the cached one, or its start is awaited.           *)
ChildrenKept ==
  /\ \A t \in Turns : pc[t] = "spawning" => cached = NoTurn
  /\ \A c \in Turns : child[c] = "alive" => cached = c
  /\ \A c \in Turns : child[c] = "starting" => pc[c] = "spawning"

(* Only a deletion takes the meta file away.                               *)
MetaKept ==
  /\ \A t \in Turns : pc[t] \in Writes => copy[t] # "gone"
  /\ status = "gone" => Deleted

(* A turn that will arm the timer in its finally.                          *)
WillArm(t) == InFlight(t) \/ pc[t] \in {"runRead", "runWrite"}

(* A cached child has a timer, or a turn that will arm one.                *)
TimerComes ==
  cached # NoTurn =>
    \/ cached \in timers
    \/ Deleted
    \/ \E t \in Turns : WillArm(t)

LEMMA ReadsStay ==
  \A p \in Reads, gone \in BOOLEAN :
    /\ p \in {"userRead", "runRead"} => AfterRead(p, gone) \in Posting \cup Over
    /\ p \notin {"userRead", "runRead"} => AfterRead(p, gone) \notin Posting \cup Over \cup {"idle"}
    /\ AfterRead(p, gone) \notin Waits
    /\ AfterRead(p, gone) \in Writes => ~gone
    /\ AfterRead(p, gone) \in {"final", "failFinal"} => gone
    /\ AfterRead(p, gone) \notin {"spawning", "runRead"}
    /\ AfterRead(p, gone) = "runWrite" => p = "runRead"
    /\ p = "runRead" => AfterRead(p, gone) = "runWrite" \/ gone
  BY DEF AfterRead, Reads, Writes, Waits, Posting, Over

LEMMA WritesStay ==
  \A p \in Writes :
    /\ p = "userWrite" => AfterWrite(p) \in Posting \ {"spawning", "runRead", "runWrite"}
    /\ p # "userWrite" => AfterWrite(p) \notin Posting \cup Over \cup {"idle"}
    /\ AfterWrite(p) \notin Waits \cup Writes
    /\ AfterWrite(p) \in {"final", "failFinal"} => p \in {"endWrite", "failWrite"}
  BY DEF AfterWrite, Writes, Waits, Posting, Over

-----------------------------------------------------------------------------
(* One turn at a time                                                      *)

(* A turn that goes on inside its handler, or inside its background part,  *)
(* disturbs nothing.                                                       *)
LEMMA AloneMove ==
  ASSUME TypeOK, Alone, Awaited, NEW t \in Turns, NEW q,
         pc' = [pc EXCEPT ![t] = q], pending' = pending, running' = running,
         pc[t] \notin Waits,
         \/ pc[t] \in Posting /\ q \in Posting \cup Over
         \/ /\ pc[t] \notin Posting \cup Over \cup {"idle"}
            /\ q \notin Posting \cup Over \cup {"idle"}
  PROVE  Alone' /\ Awaited'
<1> USE DEF TypeOK, Alone, Awaited, OneTurnInFlight, InFlight
<1>1. Over \cap Posting = {}
  BY DEF Over, Posting
<1>2. \A u \in Turns : pc'[u] = IF u = t THEN q ELSE pc[u]
  OBVIOUS
<1>3. Awaited'
  BY <1>2
<1>4. CASE pc[t] \in Posting /\ q \in Posting \cup Over
  BY <1>1, <1>2, <1>3, <1>4
<1>5. CASE /\ pc[t] \notin Posting \cup Over \cup {"idle"}
           /\ q \notin Posting \cup Over \cup {"idle"}
  BY <1>2, <1>3, <1>5
<1>6. QED
  BY <1>4, <1>5

LEMMA AloneTurnStep ==
  ASSUME Overlapping = FALSE, TypeOK, Alone, Awaited, NEW t \in Turns,
         PostTurn(t) \/ HandlerStep(t) \/ MetaStep(t) \/ PromptStep(t) \/ Finally(t)
  PROVE  Alone' /\ Awaited'
<1> USE DEF TypeOK, Alone, Awaited, OneTurnInFlight, InFlight, GoTo
<1>1. CASE PostTurn(t)
  BY <1>1 DEF PostTurn, broker, Posting, Over, Waits
<1>2. CASE NoProfile(t)
  BY <1>2 DEF NoProfile, broker, Posting, Over, Waits
<1>3. CASE StartTurn(t)
  BY <1>3 DEF StartTurn, broker, Posting, Over, Waits
<1>4. CASE ResolveRunner(t)
  <2>1. PICK q \in {"runRead", "spawning"} : pc' = [pc EXCEPT ![t] = q]
    BY <1>4 DEF ResolveRunner
  <2>2. pc[t] = "lastSeq" /\ pending' = pending /\ running' = running
    BY <1>4 DEF ResolveRunner
  <2>3. QED
    BY <2>1, <2>2, AloneMove DEF Posting, Over, Waits
<1>5. CASE Spawned(t)
  BY <1>5 DEF Spawned, Posting, Over, Waits
<1>6. CASE SpawnFails(t)
  BY <1>6 DEF SpawnFails, broker, Posting, Over, Waits
<1>7. CASE ReadMeta(t)
  <2>1. pc[t] \in Reads /\ (status = "gone") \in BOOLEAN
    BY <1>7 DEF ReadMeta
  <2>2. DEFINE q == AfterRead(pc[t], status = "gone")
  <2>3. /\ pc[t] \in {"userRead", "runRead"} => q \in Posting \cup Over
        /\ pc[t] \notin {"userRead", "runRead"} => q \notin Posting \cup Over \cup {"idle"}
    BY <2>1, ReadsStay
  <2>4. pc' = [pc EXCEPT ![t] = q] /\ pending' = pending /\ running' = running
    BY <1>7 DEF ReadMeta, broker
  <2>5. pc[t] \notin Waits /\ (pc[t] \in Posting <=> pc[t] \in {"userRead", "runRead"})
        /\ pc[t] \notin Over \cup {"idle"}
    BY <2>1 DEF Reads, Waits, Posting, Over
  <2> HIDE DEF q
  <2>6. QED
    BY <2>3, <2>4, <2>5, AloneMove
<1>8. CASE WriteMeta(t)
  <2>1. pc[t] \in Writes
    BY <1>8 DEF WriteMeta
  <2>2. DEFINE q == AfterWrite(pc[t])
  <2>3. /\ pc[t] = "userWrite" => q \in Posting
        /\ pc[t] # "userWrite" => q \notin Posting \cup Over \cup {"idle"}
    BY <2>1, WritesStay
  <2>4. /\ pc' = [pc EXCEPT ![t] = q] /\ pending' = pending
        /\ running' = IF pc[t] = "runWrite" THEN t ELSE running
    BY <1>8 DEF WriteMeta
  <2>5. pc[t] \notin Waits /\ (pc[t] \in Posting <=> pc[t] \in {"userWrite", "runWrite"})
        /\ pc[t] \notin Over \cup {"idle"}
    BY <2>1 DEF Writes, Waits, Posting, Over
  <2> HIDE DEF q
  <2>6. Awaited'
    BY <2>4, <2>5
  <2>7. CASE pc[t] = "runWrite"
    <3>1. \A u \in Turns \ {t} : pc[u] \notin Posting /\ ~InFlight(u)
      BY <2>5, <2>7
    <3>2. QED
      BY <2>3, <2>4, <2>6, <2>7, <3>1
  <2>8. CASE pc[t] # "runWrite"
    BY <2>3, <2>4, <2>5, <2>6, <2>8
  <2>9. QED
    BY <2>7, <2>8
<1>9. CASE PromptResolves(t) \/ PromptRejects(t) \/ Catch(t)
  <2>1. PICK q \in {"csidRead", "failing", "partRead", "failed"} :
          pc' = [pc EXCEPT ![t] = q]
    BY <1>9 DEF PromptResolves, PromptRejects, Catch
  <2>2. /\ pc[t] \in {"prompting", "failing"}
        /\ pending' = pending /\ running' = running
    BY <1>9 DEF PromptResolves, PromptRejects, Catch, broker
  <2>3. QED
    BY <2>1, <2>2, AloneMove DEF Posting, Over, Waits
<1>10. CASE IssueAppend(t)
  <2>1. DEFINE e == [turn |-> t, seq |-> seq[t] + 1, kind |-> KindAt(pc[t])]
  <2>2. pc[t] \in Issues /\ pending' = pending \cup {e} /\ running' = running
    BY <1>10 DEF IssueAppend, broker
  <2>3. PICK q \in Waits : pc' = [pc EXCEPT ![t] = q]
    BY <1>10 DEF IssueAppend, Waits
  <2>4. \A f \in pending : f.kind # "update" => f.turn # t
    BY <2>2 DEF Issues, Waits
  <2>5. e.turn = t
    OBVIOUS
  <2> HIDE DEF e
  <2>6. Awaited'
    BY <2>2, <2>3, <2>4, <2>5
  <2>7. Alone'
    BY <2>2, <2>3 DEF Issues, Waits, Posting, Over
  <2>8. QED
    BY <2>6, <2>7
<1>11. CASE Finally(t)
  <2>1. /\ pc[t] \in {"final", "failFinal"} /\ running' = NoTurn
        /\ pc' = [pc EXCEPT ![t] = "ended"] /\ pending' = pending
    BY <1>11 DEF Finally
  <2>2. running = t
    BY <2>1 DEF Posting, Over
  <2>3. QED
    BY <2>1, <2>2 DEF Posting, Over, Waits
<1>12. QED
  BY <1>1, <1>2, <1>3, <1>4, <1>5, <1>6, <1>7, <1>8, <1>9, <1>10, <1>11
     DEF HandlerStep, MetaStep, PromptStep

LEMMA AloneLand ==
  ASSUME TypeOK, Alone, Awaited, NEW e \in pending, Land(e)
  PROVE  Alone' /\ Awaited'
<1> USE DEF TypeOK, Alone, Awaited, OneTurnInFlight, InFlight
<1>1. e.turn \in Turns
  BY DEF Event
<1>2. /\ running' = running /\ pending' = pending \ {e}
      /\ pc' = IF e.kind = "update" THEN pc ELSE [pc EXCEPT ![e.turn] = AfterAppend(@)]
  BY DEF Land, broker
<1>3. CASE e.kind = "update"
  BY <1>2, <1>3
<1>4. CASE e.kind # "update"
  <2>1. pc[e.turn] \in Waits
    BY <1>4
  <2>2. AfterAppend(pc[e.turn]) \notin Posting \cup Over \cup {"idle"} \cup Waits
    BY <2>1 DEF AfterAppend, Waits, Posting, Over
  <2>3. InFlight(e.turn)
    BY <2>1 DEF Waits, Posting, Over
  <2>4. \A f \in pending' : f.kind # "update" => f.turn # e.turn
    BY <1>2, <1>4
  <2>5. QED
    BY <1>1, <1>2, <1>4, <2>1, <2>2, <2>3, <2>4
<1>5. QED
  BY <1>3, <1>4

LEMMA AloneOther ==
  ASSUME TypeOK, Alone, Awaited,
         \/ \E c \in Turns : SessionUpdate(c) \/ ChildDies(c) \/ IdleTimer(c)
         \/ \E d \in Deletes : DeleteRequest(d) \/ DeleteStep(d)
         \/ RepairStep \/ Drain \/ Restart
  PROVE  Alone' /\ Awaited'
<1> USE DEF TypeOK, Alone, Awaited, OneTurnInFlight, InFlight, broker, turnVars
<1>1. ASSUME NEW c \in Turns, SessionUpdate(c)
      PROVE  Alone' /\ Awaited'
  <2>1. PICK e : e.kind = "update" /\ pending' = pending \cup {e}
    BY <1>1 DEF SessionUpdate
  <2>2. pc' = pc /\ running' = running
    BY <1>1 DEF SessionUpdate
  <2>3. QED
    BY <2>1, <2>2
<1>2. ASSUME NEW c \in Turns, ChildDies(c) \/ IdleTimer(c)
      PROVE  Alone' /\ Awaited'
  BY <1>2 DEF ChildDies, IdleTimer
<1>3. ASSUME NEW d \in Deletes, DeleteRequest(d) \/ DeleteStep(d)
      PROVE  Alone' /\ Awaited'
  BY <1>3 DEF DeleteRequest, DeleteStep, DeleteWaits, DeleteSession
<1>4. CASE RepairStep \/ Drain
  BY <1>4 DEF RepairStep, ZombieRead, ZombieWrite, Drain
<1>5. CASE Restart
  <2>1. \A t \in Turns : pc'[t] \in Over \cup {"idle"}
    BY <1>5 DEF Restart, Over
  <2>2. pending' = {}
    BY <1>5 DEF Restart
  <2>3. QED
    BY <2>1, <2>2 DEF Posting, Over
<1>6. QED
  BY <1>1, <1>2, <1>3, <1>4, <1>5

LEMMA AloneStep ==
  ASSUME Overlapping = FALSE, TypeOK, Alone, Awaited, [Next]_vars
  PROVE  Alone' /\ Awaited'
<1>1. CASE UNCHANGED vars
  BY <1>1 DEF Alone, Awaited, OneTurnInFlight, InFlight, vars, broker, turnVars
<1>2. CASE Next
  BY <1>2, AloneTurnStep, AloneLand, AloneOther DEF Next, SilentStep
<1>3. QED
  BY <1>1, <1>2

LEMMA AloneInit == Init => Alone /\ Awaited
  BY DEF Init, Alone, Awaited, OneTurnInFlight, InFlight, Posting

(* At most one turn of a session is in the background, and it is the one   *)
(* in `running`: the 409 check and the check of startTurn suffice when a   *)
(* client waits for its answers.                                           *)
THEOREM TurnsAreExclusive ==
  ASSUME Overlapping = FALSE
  PROVE  Spec => []OneTurnInFlight
<1>1. Init => TypeOK /\ Alone /\ Awaited
  BY TypeInit, AloneInit
<1>2. TypeOK /\ Alone /\ Awaited /\ [Next]_vars => (TypeOK /\ Alone /\ Awaited)'
  BY TypeStep, AloneStep
<1>3. TypeOK /\ Alone /\ Awaited => OneTurnInFlight
  BY DEF Alone
<1>4. QED
  BY <1>1, <1>2, <1>3, PTL DEF Spec

-----------------------------------------------------------------------------
(* Children and timers                                                     *)

LEMMA OthersIdle ==
  ASSUME TypeOK, Alone, NEW t \in Turns, pc[t] \in Posting \/ InFlight(t),
         NEW u \in Turns, u # t
  PROVE  ~Holds(u) /\ pc[u] \notin Posting /\ ~InFlight(u)
  BY DEF TypeOK, Alone, OneTurnInFlight, Holds, Posting

(* A turn that goes on, and neither begins nor ends to hold a child.       *)
LEMMA KeptMove ==
  ASSUME TypeOK, TimersKept, ChildrenKept, NEW t \in Turns, NEW q,
         pc' = [pc EXCEPT ![t] = q], cached' = cached, timers' = timers,
         child' = child, pc[t] # "spawning", q # "spawning",
         Holds(t) \/ q \in {"userRead", "userWrite", "starting", "lastSeq"} \cup Over
  PROVE  TimersKept' /\ ChildrenKept'
<1>1. \A u \in Turns : pc'[u] = IF u = t THEN q ELSE pc[u]
  BY DEF TypeOK
<1>2. \A u \in Turns : Holds(u)' => \E v \in Turns : Holds(v)
  <2>1. q \in {"userRead", "userWrite", "starting", "lastSeq"} \cup Over
          => q \in (Posting \cup Over \cup {"idle"}) \ {"spawning", "runRead", "runWrite"}
    BY DEF Posting, Over
  <2>2. QED
    BY <1>1, <2>1 DEF Holds, InFlight
<1>3. TimersKept'
  BY <1>2 DEF TimersKept
<1>4. ChildrenKept'
  BY <1>1 DEF ChildrenKept, TypeOK
<1>5. QED
  BY <1>3, <1>4

LEMMA KeptTurnStep ==
  ASSUME TypeOK, TypeOK', Alone, TimersKept, ChildrenKept, NEW t \in Turns,
         PostTurn(t) \/ HandlerStep(t) \/ MetaStep(t) \/ PromptStep(t) \/ Finally(t)
  PROVE  TimersKept' /\ ChildrenKept'
<1> USE DEF GoTo
<1>1. CASE PostTurn(t)
  <2>1. PICK q \in {"refused", "userRead"} : pc' = [pc EXCEPT ![t] = q]
    BY <1>1 DEF PostTurn
  <2>2. QED
    BY <1>1, <2>1, KeptMove DEF PostTurn, broker, Over
<1>2. CASE NoProfile(t) \/ StartTurn(t)
  <2>1. PICK q \in {"refused", "lastSeq"} : pc' = [pc EXCEPT ![t] = q]
    BY <1>2 DEF NoProfile, StartTurn
  <2>2. pc[t] # "spawning" /\ cached' = cached /\ timers' = timers /\ child' = child
    BY <1>2 DEF NoProfile, StartTurn, broker
  <2>3. QED
    BY <2>1, <2>2, KeptMove DEF Over
<1>3. CASE ResolveRunner(t)
  <2>1. \A u \in Turns : u # t => ~Holds(u) /\ pc[u] # "spawning"
    BY <1>3, OthersIdle DEF ResolveRunner, Posting
  <2>2. timers' = {}
    BY <1>3 DEF ResolveRunner, TimersKept
  <2>3. CASE cached # NoTurn /\ child[cached] = "alive"
    <3>1. cached' = cached /\ child' = child /\ pc' = [pc EXCEPT ![t] = "runRead"]
      BY <1>3, <2>3 DEF ResolveRunner
    <3>2. pc[t] # "spawning"
      BY <1>3 DEF ResolveRunner
    <3>3. QED
      BY <2>2, <3>1, <3>2 DEF TimersKept, ChildrenKept, TypeOK
  <2>4. CASE ~(cached # NoTurn /\ child[cached] = "alive")
    <3>1. /\ cached' = NoTurn /\ child' = [child EXCEPT ![t] = "starting"]
          /\ pc' = [pc EXCEPT ![t] = "spawning"]
      BY <1>3, <2>4 DEF ResolveRunner
    <3>2. \A c \in Turns : child[c] # "alive"
      BY <2>4 DEF ChildrenKept
    <3>3. QED
      BY <2>2, <3>1, <3>2 DEF TimersKept, ChildrenKept, TypeOK
  <2>5. QED
    BY <2>3, <2>4
<1>4. CASE Spawned(t)
  <2>1. cached = NoTurn /\ timers = {}
    BY <1>4 DEF Spawned, ChildrenKept, TimersKept, Holds
  <2>2. \A u \in Turns : u # t => pc[u] # "spawning"
    BY <1>4, OthersIdle DEF Spawned, Posting
  <2>3. QED
    BY <1>4, <2>1, <2>2 DEF Spawned, ChildrenKept, TimersKept, TypeOK
<1>5. CASE SpawnFails(t)
  <2>1. cached = NoTurn /\ timers = {}
    BY <1>5 DEF SpawnFails, ChildrenKept, TimersKept, Holds
  <2>2. QED
    BY <1>5, <2>1 DEF SpawnFails, broker, ChildrenKept, TimersKept, TypeOK
<1>6. CASE ReadMeta(t)
  <2>1. DEFINE q == AfterRead(pc[t], status = "gone")
  <2>2. /\ pc[t] \in Reads /\ pc' = [pc EXCEPT ![t] = q]
        /\ cached' = cached /\ timers' = timers /\ child' = child
    BY <1>6 DEF ReadMeta, broker
  <2>3. q # "spawning" /\ pc[t] # "spawning"
    BY <2>2, ReadsStay DEF Reads
  <2>4. pc[t] # "userRead" => Holds(t)
    BY <2>2 DEF Holds, InFlight, Reads, Posting, Over
  <2>5. pc[t] = "userRead" => q \in {"starting", "userWrite"}
    BY DEF AfterRead
  <2> HIDE DEF q
  <2>6. QED
    BY <2>2, <2>3, <2>4, <2>5, KeptMove
<1>7. CASE WriteMeta(t)
  <2>1. DEFINE q == AfterWrite(pc[t])
  <2>2. /\ pc[t] \in Writes /\ pc' = [pc EXCEPT ![t] = q]
        /\ cached' = cached /\ timers' = timers /\ child' = child
    BY <1>7 DEF WriteMeta
  <2>3. q # "spawning" /\ pc[t] # "spawning"
    BY <2>2 DEF AfterWrite, Writes
  <2>4. pc[t] # "userWrite" => Holds(t)
    BY <2>2 DEF Holds, InFlight, Writes, Posting, Over
  <2>5. pc[t] = "userWrite" => q = "starting"
    BY DEF AfterWrite
  <2> HIDE DEF q
  <2>6. QED
    BY <2>2, <2>3, <2>4, <2>5, KeptMove
<1>8. CASE PromptStep(t)
  <2>1. PICK q \in {"csidRead", "failing", "partRead", "failed"} \cup Waits :
          pc' = [pc EXCEPT ![t] = q]
    BY <1>8 DEF PromptStep, PromptResolves, PromptRejects, Catch, IssueAppend, Waits
  <2>2. /\ pc[t] \in {"prompting", "failing"} \cup Issues
        /\ cached' = cached /\ timers' = timers /\ child' = child
    BY <1>8 DEF PromptStep, PromptResolves, PromptRejects, Catch, IssueAppend, broker
  <2>3. Holds(t) /\ pc[t] # "spawning"
    BY <2>2 DEF Holds, InFlight, Issues, Posting, Over
  <2>4. q # "spawning"
    BY DEF Waits
  <2>5. QED
    BY <2>1, <2>2, <2>3, <2>4, KeptMove
<1>9. CASE Finally(t)
  <2>1. pc[t] \in {"final", "failFinal"} /\ pc' = [pc EXCEPT ![t] = "ended"]
    BY <1>9 DEF Finally
  <2>2. InFlight(t)
    BY <2>1 DEF InFlight, Posting, Over
  <2>3. \A u \in Turns : u # t => ~Holds(u) /\ pc[u] # "spawning"
    BY <2>2, OthersIdle DEF Posting
  <2>4. \A u \in Turns : ~Holds(u)' /\ pc'[u] # "spawning"
    BY <2>1, <2>3 DEF Holds, InFlight, TypeOK, Over
  <2>5. timers' \subseteq {cached'}
    BY <1>9 DEF Finally, TimersKept
  <2>6. ChildrenKept'
    <3>1. \A u \in Turns : child[u] # "starting"
      BY <2>1, <2>3 DEF ChildrenKept
    <3>2. CASE cached' = cached
      BY <1>9, <2>4, <3>1, <3>2 DEF Finally, ChildrenKept
    <3>3. CASE cached' # cached
      <4>1. cached' = NoTurn /\ child' = [child EXCEPT ![cached] = "dead"]
        BY <1>9, <3>3 DEF Finally
      <4>2. ASSUME NEW u \in Turns
            PROVE  child'[u] \notin {"alive", "starting"}
        <5>1. CASE u = cached
          BY <4>1, <5>1 DEF TypeOK
        <5>2. CASE u # cached
          BY <3>1, <4>1, <5>2 DEF ChildrenKept, TypeOK
        <5>3. QED
          BY <5>1, <5>2
      <4>3. QED
        BY <2>4, <4>2 DEF ChildrenKept
    <3>4. QED
      BY <3>2, <3>3
  <2>7. QED
    BY <2>4, <2>5, <2>6 DEF TimersKept
<1>10. QED
  BY <1>1, <1>2, <1>3, <1>4, <1>5, <1>6, <1>7, <1>8, <1>9 DEF HandlerStep, MetaStep

LEMMA KeptLand ==
  ASSUME TypeOK, TimersKept, ChildrenKept, Awaited, NEW e \in pending, Land(e)
  PROVE  TimersKept' /\ ChildrenKept'
<1>1. e.turn \in Turns
  BY DEF TypeOK, Event
<1>2. cached' = cached /\ timers' = timers /\ child' = child
  BY DEF Land, broker
<1>3. CASE e.kind = "update"
  <2>1. pc' = pc
    BY <1>3 DEF Land
  <2>2. QED
    BY <1>2, <2>1 DEF TimersKept, ChildrenKept, Holds, InFlight
<1>4. CASE e.kind # "update"
  <2>1. pc[e.turn] \in Waits
    BY <1>4 DEF Awaited
  <2>2. Holds(e.turn) /\ pc[e.turn] # "spawning"
    BY <2>1 DEF Holds, InFlight, Waits, Posting, Over
  <2>3. PICK q : q # "spawning" /\ pc' = [pc EXCEPT ![e.turn] = q]
    BY <1>4 DEF Land, AfterAppend
  <2>4. QED
    BY <1>1, <1>2, <2>2, <2>3, KeptMove
<1>5. QED
  BY <1>3, <1>4

LEMMA KeptOther ==
  ASSUME TypeOK, TimersKept, ChildrenKept,
         \/ \E c \in Turns : SessionUpdate(c) \/ ChildDies(c) \/ IdleTimer(c)
         \/ \E d \in Deletes : DeleteRequest(d) \/ DeleteStep(d)
         \/ RepairStep \/ Drain \/ Restart
  PROVE  TimersKept' /\ ChildrenKept'
<1> USE DEF TypeOK, TimersKept, ChildrenKept, Holds, InFlight, broker, turnVars
<1>1. ASSUME NEW c \in Turns, SessionUpdate(c) \/ ChildDies(c) \/ IdleTimer(c)
      PROVE  TimersKept' /\ ChildrenKept'
  <2>1. CASE SessionUpdate(c)
    BY <2>1 DEF SessionUpdate
  <2>2. CASE ChildDies(c)
    BY <2>2 DEF ChildDies
  <2>3. CASE IdleTimer(c)
    <3>1. cached = c /\ timers' = {} /\ cached' = NoTurn /\ pc' = pc
      BY <2>3 DEF IdleTimer
    <3>2. child' = [child EXCEPT ![c] = "dead"]
      BY <2>3, <3>1 DEF IdleTimer
    <3>3. QED
      BY <3>1, <3>2
  <2>4. QED
    BY <1>1, <2>1, <2>2, <2>3
<1>2. ASSUME NEW d \in Deletes, DeleteRequest(d) \/ DeleteStep(d)
      PROVE  TimersKept' /\ ChildrenKept'
  BY <1>2 DEF DeleteRequest, DeleteStep, DeleteWaits, DeleteSession
<1>3. CASE RepairStep
  BY <1>3 DEF RepairStep, ZombieRead, ZombieWrite
<1>4. CASE Drain
  BY <1>4 DEF Drain
<1>5. CASE Restart
  BY <1>5 DEF Restart
<1>6. QED
  BY <1>1, <1>2, <1>3, <1>4, <1>5

LEMMA KeptStep ==
  ASSUME TypeOK, TypeOK', Alone, Awaited, TimersKept, ChildrenKept, [Next]_vars
  PROVE  TimersKept' /\ ChildrenKept'
<1>1. CASE UNCHANGED vars
  BY <1>1 DEF TimersKept, ChildrenKept, Holds, InFlight, vars, broker, turnVars
<1>2. CASE Next
  BY <1>2, KeptTurnStep, KeptLand, KeptOther DEF Next, SilentStep
<1>3. QED
  BY <1>1, <1>2

LEMMA KeptInit == Init => TimersKept /\ ChildrenKept
  BY DEF Init, TimersKept, ChildrenKept

-----------------------------------------------------------------------------
(* The status of a turn that is over                                       *)

LEMMA EndTurnStep ==
  ASSUME TypeOK, Alone, EndIsRecorded, NEW t \in Turns,
         PostTurn(t) \/ HandlerStep(t) \/ MetaStep(t) \/ PromptStep(t) \/ Finally(t)
  PROVE  EndIsRecorded'
<1> USE DEF TypeOK, EndIsRecorded, GoTo
<1>1. CASE ReadMeta(t)
  <2>1. (status = "gone") \in BOOLEAN /\ pc[t] \in Reads
    BY <1>1 DEF ReadMeta
  <2>2. AfterRead(pc[t], status = "gone") \in {"final", "failFinal"} => status = "gone"
    BY <2>1, ReadsStay
  <2>3. QED
    BY <1>1, <2>2 DEF ReadMeta
<1>2. CASE WriteMeta(t)
  <2>1. pc[t] \in Writes
    BY <1>2 DEF WriteMeta
  <2>2. pc[t] \in Posting \/ InFlight(t)
    BY <2>1 DEF Writes, Posting, InFlight, Over
  <2>3. \A u \in Turns : u # t => pc[u] \notin {"final", "failFinal"}
    BY <2>2, OthersIdle DEF InFlight, Posting, Over
  <2>4. AfterWrite(pc[t]) \in {"final", "failFinal"} => pc[t] \in {"endWrite", "failWrite"}
    BY <2>1, WritesStay
  <2>5. pc[t] \in {"endWrite", "failWrite"} => NewStatus(pc[t], copy[t]) # "running"
    BY DEF NewStatus
  <2>6. QED
    BY <1>2, <2>3, <2>4, <2>5 DEF WriteMeta
<1>3. CASE PostTurn(t) \/ HandlerStep(t) \/ PromptStep(t) \/ Finally(t)
  <2>1. status' = status
    BY <1>3 DEF PostTurn, HandlerStep, NoProfile, StartTurn, ResolveRunner, Spawned,
                SpawnFails, PromptStep, PromptResolves, PromptRejects, Catch,
                IssueAppend, Finally
  <2>2. PICK q \in TurnPc \ {"final", "failFinal"} : pc' = [pc EXCEPT ![t] = q]
    BY <1>3 DEF PostTurn, HandlerStep, NoProfile, StartTurn, ResolveRunner, Spawned,
                SpawnFails, PromptStep, PromptResolves, PromptRejects, Catch,
                IssueAppend, Finally, TurnPc, Reads, Issues, Waits, Over
  <2>3. QED
    BY <2>1, <2>2
<1>4. QED
  BY <1>1, <1>2, <1>3 DEF MetaStep

LEMMA EndStep ==
  ASSUME TypeOK, Alone, EndIsRecorded, [Next]_vars
  PROVE  EndIsRecorded'
<1> USE DEF EndIsRecorded
<1>1. CASE UNCHANGED vars
  BY <1>1 DEF vars, turnVars
<1>2. ASSUME NEW e \in pending, Land(e)
      PROVE  EndIsRecorded'
  <2>1. e.turn \in Turns
    BY DEF TypeOK, Event
  <2>2. AfterAppend(pc[e.turn]) \notin {"final", "failFinal"}
    BY DEF AfterAppend
  <2>3. QED
    BY <1>2, <2>1, <2>2 DEF Land, TypeOK
<1>3. ASSUME NEW c \in Turns, SessionUpdate(c) \/ ChildDies(c) \/ IdleTimer(c)
      PROVE  EndIsRecorded'
  BY <1>3 DEF SessionUpdate, ChildDies, IdleTimer, turnVars
<1>4. ASSUME NEW d \in Deletes, DeleteRequest(d) \/ DeleteStep(d)
      PROVE  EndIsRecorded'
  BY <1>4 DEF DeleteRequest, DeleteStep, DeleteWaits, DeleteSession, turnVars
<1>5. CASE RepairStep \/ Drain \/ Restart
  BY <1>5 DEF RepairStep, ZombieRead, ZombieWrite, Drain, Restart, turnVars
<1>6. QED
  BY <1>1, <1>2, <1>3, <1>4, <1>5, EndTurnStep DEF Next, SilentStep

-----------------------------------------------------------------------------
(* The timer of an idle child                                              *)

LEMMA DeletedStays ==
  ASSUME TypeOK, [Next]_vars, Deleted
  PROVE  Deleted'
<1>1. PICK d \in Deletes : dpc[d] = "ended"
  BY DEF Deleted
<1>2. dpc'[d] = "ended"
  <2>1. CASE UNCHANGED vars
    BY <1>1, <2>1 DEF vars
  <2>2. ASSUME NEW t \in Turns,
               PostTurn(t) \/ HandlerStep(t) \/ MetaStep(t) \/ PromptStep(t) \/ Finally(t)
        PROVE  dpc' = dpc
    BY <2>2 DEF PostTurn, HandlerStep, NoProfile, StartTurn, ResolveRunner, Spawned,
                SpawnFails, MetaStep, ReadMeta, WriteMeta, PromptStep, PromptResolves,
                PromptRejects, Catch, IssueAppend, Finally
  <2>3. ASSUME NEW c \in Turns, SessionUpdate(c) \/ ChildDies(c) \/ IdleTimer(c)
        PROVE  dpc' = dpc
    BY <2>3 DEF SessionUpdate, ChildDies, IdleTimer
  <2>4. ASSUME NEW e \in pending, Land(e)
        PROVE  dpc' = dpc
    BY <2>4 DEF Land
  <2>5. ASSUME NEW f \in Deletes, DeleteRequest(f) \/ DeleteStep(f)
        PROVE  dpc'[d] = "ended"
    BY <1>1, <2>5 DEF DeleteRequest, DeleteStep, DeleteWaits, DeleteSession, TypeOK
  <2>6. CASE RepairStep \/ Drain
    BY <1>1, <2>6 DEF RepairStep, ZombieRead, ZombieWrite, Drain
  <2>7. CASE Restart
    BY <1>1, <2>7 DEF Restart
  <2>8. QED
    BY <1>1, <2>1, <2>2, <2>3, <2>4, <2>5, <2>6, <2>7 DEF Next, SilentStep
<1>3. QED
  BY <1>2 DEF Deleted

LEMMA MetaStepKept ==
  ASSUME TypeOK, TypeOK', MetaKept, [Next]_vars
  PROVE  MetaKept'
<1> USE DEF MetaKept, GoTo
<1>1. CASE UNCHANGED vars
  BY <1>1 DEF vars, turnVars, Deleted
<1>2. ASSUME NEW t \in Turns, ReadMeta(t)
      PROVE  MetaKept'
  <2>1. (status = "gone") \in BOOLEAN /\ pc[t] \in Reads
    BY <1>2 DEF ReadMeta
  <2>2. AfterRead(pc[t], status = "gone") \in Writes => status # "gone"
    BY <2>1, ReadsStay
  <2>3. QED
    BY <1>2, <2>2, DeletedStays DEF ReadMeta, TypeOK
<1>3. ASSUME NEW t \in Turns, WriteMeta(t)
      PROVE  MetaKept'
  <2>1. pc[t] \in Writes /\ copy[t] # "gone"
    BY <1>3 DEF WriteMeta
  <2>2. AfterWrite(pc[t]) \notin Writes /\ NewStatus(pc[t], copy[t]) # "gone"
    BY <2>1, WritesStay DEF NewStatus
  <2>3. QED
    BY <1>3, <2>2 DEF WriteMeta, TypeOK
<1>4. ASSUME NEW t \in Turns, PostTurn(t) \/ HandlerStep(t) \/ PromptStep(t) \/ Finally(t)
      PROVE  MetaKept'
  <2>1. status' = status /\ copy' = copy
    BY <1>4 DEF PostTurn, HandlerStep, NoProfile, StartTurn, ResolveRunner, Spawned,
                SpawnFails, PromptStep, PromptResolves, PromptRejects, Catch,
                IssueAppend, Finally
  <2>2. PICK q \in TurnPc \ Writes : pc' = [pc EXCEPT ![t] = q]
    BY <1>4 DEF PostTurn, HandlerStep, NoProfile, StartTurn, ResolveRunner, Spawned,
                SpawnFails, PromptStep, PromptResolves, PromptRejects, Catch,
                IssueAppend, Finally, TurnPc, Reads, Writes, Issues, Waits, Over
  <2>3. QED
    BY <2>1, <2>2, DeletedStays DEF TypeOK
<1>5. ASSUME NEW e \in pending, Land(e)
      PROVE  MetaKept'
  <2>1. AfterAppend(pc[e.turn]) \notin Writes
    BY DEF AfterAppend, Writes
  <2>2. QED
    BY <1>5, <2>1, DeletedStays DEF Land, TypeOK
<1>6. ASSUME NEW c \in Turns, SessionUpdate(c) \/ ChildDies(c) \/ IdleTimer(c)
      PROVE  MetaKept'
  BY <1>6, DeletedStays DEF SessionUpdate, ChildDies, IdleTimer, turnVars
<1>7. ASSUME NEW d \in Deletes, DeleteRequest(d) \/ DeleteStep(d)
      PROVE  MetaKept'
  <2>1. CASE DeleteSession(d)
    <3>1. dpc'[d] = "ended"
      BY <2>1 DEF DeleteSession, TypeOK
    <3>2. pc' = pc /\ copy' = copy
      BY <2>1 DEF DeleteSession, turnVars
    <3>3. QED
      BY <3>1, <3>2 DEF Deleted
  <2>2. CASE DeleteRequest(d) \/ DeleteWaits(d)
    BY <2>2, DeletedStays DEF DeleteRequest, DeleteWaits, turnVars
  <2>3. QED
    BY <1>7, <2>1, <2>2 DEF DeleteStep
<1>8. CASE RepairStep \/ Drain \/ Restart
  <2>1. CASE RepairStep \/ Drain
    BY <2>1, DeletedStays DEF RepairStep, ZombieRead, ZombieWrite, Drain, turnVars
  <2>2. CASE Restart
    <3>1. \A t \in Turns : pc'[t] \notin Writes
      BY <2>2 DEF Restart, Writes
    <3>2. QED
      BY <2>2, <3>1, DeletedStays DEF Restart
  <2>3. QED
    BY <1>8, <2>1, <2>2
<1>9. QED
  BY <1>1, <1>2, <1>3, <1>4, <1>5, <1>6, <1>7, <1>8 DEF Next, SilentStep, MetaStep

LEMMA ComesTurnStep ==
  ASSUME TypeOK, MetaKept, ChildrenKept, TimerComes, NEW t \in Turns,
         PostTurn(t) \/ HandlerStep(t) \/ MetaStep(t) \/ PromptStep(t) \/ Finally(t),
         Deleted => Deleted'
  PROVE  TimerComes'
<1> USE DEF GoTo
<1>1. CASE ResolveRunner(t)
  <2>1. CASE cached # NoTurn /\ child[cached] = "alive"
    <3>1. pc' = [pc EXCEPT ![t] = "runRead"]
      BY <1>1, <2>1 DEF ResolveRunner
    <3>2. WillArm(t)'
      BY <3>1 DEF WillArm, TypeOK
    <3>3. QED
      BY <3>2 DEF TimerComes
  <2>2. CASE ~(cached # NoTurn /\ child[cached] = "alive")
    BY <1>1, <2>2 DEF ResolveRunner, TimerComes
  <2>3. QED
    BY <2>1, <2>2
<1>2. CASE Spawned(t)
  BY <1>2 DEF Spawned, WillArm, TimerComes, TypeOK
<1>3. CASE SpawnFails(t)
  BY <1>3 DEF SpawnFails, broker, ChildrenKept, TimerComes
<1>4. CASE Finally(t)
  BY <1>4 DEF Finally, TimerComes
<1>5. CASE PostTurn(t) \/ NoProfile(t) \/ StartTurn(t) \/ MetaStep(t) \/ PromptStep(t)
  <2>1. cached' = cached /\ timers' = timers
    BY <1>5 DEF PostTurn, NoProfile, StartTurn, MetaStep, ReadMeta, WriteMeta, PromptStep,
                PromptResolves, PromptRejects, Catch, IssueAppend, broker
  <2>2. \A u \in Turns : u # t => (WillArm(u) => WillArm(u)')
    <3>1. \A u \in Turns : u # t => pc'[u] = pc[u]
      BY <1>5 DEF PostTurn, NoProfile, StartTurn, MetaStep, ReadMeta, WriteMeta,
                  PromptStep, PromptResolves, PromptRejects, Catch, IssueAppend, TypeOK
    <3>2. QED
      BY <3>1 DEF WillArm, InFlight
  <2>3. WillArm(t) => WillArm(t)' \/ status = "gone"
    <3>1. CASE ReadMeta(t)
      <4>1. (status = "gone") \in BOOLEAN /\ pc[t] \in Reads
        BY <3>1 DEF ReadMeta
      <4>2. pc'[t] = AfterRead(pc[t], status = "gone")
        BY <3>1 DEF ReadMeta, TypeOK
      <4>3. CASE pc[t] = "runRead"
        BY <4>1, <4>2, <4>3, ReadsStay DEF WillArm
      <4>4. CASE pc[t] = "userRead"
        BY <4>4 DEF WillArm, InFlight, Posting
      <4>5. CASE pc[t] \notin {"userRead", "runRead"}
        BY <4>1, <4>2, <4>5, ReadsStay DEF WillArm, InFlight
      <4>6. QED
        BY <4>3, <4>4, <4>5
    <3>2. CASE WriteMeta(t)
      <4>1. pc[t] \in Writes /\ pc'[t] = AfterWrite(pc[t])
        BY <3>2 DEF WriteMeta, TypeOK
      <4>2. CASE pc[t] = "userWrite"
        BY <4>2 DEF WillArm, InFlight, Posting
      <4>3. CASE pc[t] # "userWrite"
        BY <4>1, <4>3, WritesStay DEF WillArm, InFlight
      <4>4. QED
        BY <4>2, <4>3
    <3>3. CASE PromptStep(t)
      <4>1. pc'[t] \in {"csidRead", "failing", "partRead", "failed"} \cup Waits
        BY <3>3 DEF PromptStep, PromptResolves, PromptRejects, Catch, IssueAppend,
                    Waits, TypeOK
      <4>2. QED
        BY <4>1 DEF WillArm, InFlight, Waits, Posting, Over
    <3>4. CASE PostTurn(t) \/ NoProfile(t) \/ StartTurn(t)
      BY <3>4 DEF PostTurn, NoProfile, StartTurn, WillArm, InFlight, Posting
    <3>5. QED
      BY <1>5, <3>1, <3>2, <3>3, <3>4 DEF MetaStep
  <2>4. status = "gone" => Deleted'
    BY DEF MetaKept
  <2>5. QED
    BY <2>1, <2>2, <2>3, <2>4 DEF TimerComes
<1>6. QED
  BY <1>1, <1>2, <1>3, <1>4, <1>5 DEF HandlerStep

LEMMA ComesStep ==
  ASSUME TypeOK, Awaited, MetaKept, ChildrenKept, TimerComes, [Next]_vars
  PROVE  TimerComes'
<1>1. Deleted => Deleted'
  BY DeletedStays
<1>2. CASE UNCHANGED vars
  BY <1>1, <1>2 DEF vars, broker, turnVars, TimerComes, WillArm, InFlight
<1>3. ASSUME NEW e \in pending, Land(e)
      PROVE  TimerComes'
  <2>1. cached' = cached /\ timers' = timers /\ e.turn \in Turns
    BY <1>3 DEF Land, broker, TypeOK, Event
  <2>2. \A u \in Turns : WillArm(u) => WillArm(u)'
    <3>1. CASE e.kind = "update"
      BY <1>3, <3>1 DEF Land, WillArm, InFlight
    <3>2. CASE e.kind # "update"
      <4>1. pc' = [pc EXCEPT ![e.turn] = AfterAppend(pc[e.turn])]
        BY <1>3, <3>2 DEF Land
      <4>2. AfterAppend(pc[e.turn]) \notin Posting \cup Over \cup {"idle"}
        BY DEF AfterAppend, Posting, Over
      <4>3. QED
        BY <2>1, <4>1, <4>2 DEF WillArm, InFlight, TypeOK
    <3>3. QED
      BY <3>1, <3>2
  <2>3. QED
    BY <1>1, <2>1, <2>2 DEF TimerComes
<1>4. ASSUME NEW c \in Turns, SessionUpdate(c) \/ ChildDies(c) \/ IdleTimer(c)
      PROVE  TimerComes'
  <2>1. CASE IdleTimer(c)
    BY <2>1 DEF IdleTimer, TimerComes
  <2>2. CASE SessionUpdate(c) \/ ChildDies(c)
    BY <1>1, <2>2 DEF SessionUpdate, ChildDies, broker, turnVars, TimerComes, WillArm,
                      InFlight
  <2>3. QED
    BY <1>4, <2>1, <2>2
<1>5. ASSUME NEW d \in Deletes, DeleteRequest(d) \/ DeleteStep(d)
      PROVE  TimerComes'
  BY <1>1, <1>5 DEF DeleteRequest, DeleteStep, DeleteWaits, DeleteSession, broker,
                    turnVars, TimerComes, WillArm, InFlight
<1>6. CASE RepairStep
  BY <1>1, <1>6 DEF RepairStep, ZombieRead, ZombieWrite, broker, turnVars, TimerComes,
                    WillArm, InFlight
<1>7. CASE Drain \/ Restart
  BY <1>7 DEF Drain, Restart, TimerComes
<1>8. QED
  BY <1>1, <1>2, <1>3, <1>4, <1>5, <1>6, <1>7, ComesTurnStep DEF Next, SilentStep

-----------------------------------------------------------------------------
(* Theorems                                                                *)

IInv ==
  /\ TypeOK
  /\ Alone
  /\ Awaited
  /\ TimersKept
  /\ ChildrenKept
  /\ MetaKept
  /\ TimerComes
  /\ EndIsRecorded

LEMMA IInvHolds ==
  ASSUME Overlapping = FALSE
  PROVE  Spec => []IInv
<1>1. Init => IInv
  <2>1. ASSUME Init PROVE TimerComes /\ MetaKept /\ EndIsRecorded
    BY <2>1 DEF Init, TimerComes, MetaKept, EndIsRecorded, Writes
  <2>2. QED
    BY <2>1, TypeInit, AloneInit, KeptInit DEF IInv
<1>2. IInv /\ [Next]_vars => IInv'
  BY TypeStep, AloneStep, KeptStep, MetaStepKept, ComesStep, EndStep DEF IInv
<1>3. QED
  BY <1>1, <1>2, PTL DEF Spec

(* The idle timer of a child never fires under the turn that took it.      *)
THEOREM TimersSpareTurns ==
  ASSUME Overlapping = FALSE
  PROVE  Spec => []NoTimerDuringTurn
<1>1. IInv => NoTimerDuringTurn
  BY DEF IInv, TimersKept, NoTimerDuringTurn, Holds
<1>2. QED
  BY <1>1, IInvHolds, PTL

(* No agent process runs that neither the cache nor a turn knows.          *)
THEOREM ChildrenAreKnown ==
  ASSUME Overlapping = FALSE
  PROVE  Spec => []NoChildLeaks
<1>1. IInv => NoChildLeaks
  BY DEF IInv, ChildrenKept, NoChildLeaks
<1>2. QED
  BY <1>1, IInvHolds, PTL

(* An idle child is closed one day: its timer is armed.                    *)
THEOREM IdleChildrenAreTimed ==
  ASSUME Overlapping = FALSE
  PROVE  Spec => []IdleChildTimed
<1>1. ASSUME Quiet
      PROVE  \A t \in Turns : ~WillArm(t)
  BY <1>1 DEF Quiet, WillArm, InFlight, Over
<1>2. IInv => IdleChildTimed
  BY <1>1 DEF IInv, TimerComes, IdleChildTimed
<1>3. QED
  BY <1>2, IInvHolds, PTL

(* Whatever fails, dies or is deleted, an agent process is in use or is    *)
(* cached and sure to be closed, and not before its turn is over.          *)
THEOREM ChildrenTended ==
  ASSUME Overlapping = FALSE
  PROVE  Spec => []ChildrenAreTended
<1>1. NoChildLeaks /\ IdleChildTimed /\ NoTimerDuringTurn => ChildrenAreTended
  BY DEF ChildrenAreTended
<1>2. QED
  BY <1>1, ChildrenAreKnown, IdleChildrenAreTimed, TimersSpareTurns, PTL

(* No turn ends with its session recorded as running.                      *)
THEOREM EndsAreRecorded ==
  ASSUME Overlapping = FALSE
  PROVE  Spec => []EndIsRecorded
<1>1. IInv => EndIsRecorded
  BY DEF IInv
<1>2. QED
  BY <1>1, IInvHolds, PTL

-----------------------------------------------------------------------------
(* The end of a turn in the log                                            *)

Terminals == {"done", "turn_failed"}
(* Where a turn is once its terminal event is in the log.                  *)
Told == {"endRead", "endWrite", "failRead", "failWrite", "final", "failFinal", "ended"}

(* A terminal event is on its way only while its turn waits for it.        *)
EndsAwaited ==
  \A e \in pending : e.kind \in Terminals => pc[e.turn] \in {"doneWait", "failedWait"}

(* A turn whose terminal event is in the log has nothing more to append.   *)
EndsTold == \A i \in 1..Len(log) : log[i].kind \in Terminals => pc[log[i].turn] \in Told

LogSettled == EndsAwaited /\ (Deleted \/ EndsTold) /\ OneTerminalEvent

LEMMA PlacesTold ==
  /\ \A p \in Told \cap Reads : AfterRead(p, FALSE) \in Told
  /\ \A p \in Told \cap Writes : AfterWrite(p) \in Told
  /\ Told \cap Waits = {} /\ {"idle", "refused"} \cap Told = {}
  /\ \A p \in {"doneWait", "failedWait"} : AfterAppend(p) \in Told
  /\ \A p \in Issues : KindAt(p) # "update"
  /\ \A p \in {"message"} : KindAt(p) \notin Terminals
  BY DEF AfterRead, AfterWrite, AfterAppend, KindAt, Told, Reads, Writes, Waits, Issues, Terminals

LEMMA TurnOfLine ==
  ASSUME TypeOK
  PROVE  \A i \in 1..Len(log) : log[i].turn \in Turns
<1>1. \A i \in 1..Len(log) : log[i] \in Event
  BY DEF TypeOK
<1>2. QED
  BY <1>1 DEF Event

(* A turn that goes on, where the log stays.                               *)
LEMMA SettledMove ==
  ASSUME TypeOK, LogSettled, NEW t \in Turns, NEW q, Deleted => Deleted',
         pc' = [pc EXCEPT ![t] = q], log' = log,
         ~Deleted => (pc[t] \in Told => q \in Told),
         \A e \in pending' : e.kind \in Terminals =>
           (e \in pending /\ e.turn # t) \/ (e.turn = t /\ q \in {"doneWait", "failedWait"})
  PROVE  LogSettled'
<1>1. EndsAwaited'
  <2>1. \A e \in pending : e.turn \in Turns
    BY DEF TypeOK, Event
  <2>2. QED
    BY <2>1 DEF LogSettled, EndsAwaited, TypeOK
<1>2. Deleted' \/ EndsTold'
  <2>1. \A i \in 1..Len(log) : log[i].turn \in Turns
    BY TurnOfLine
  <2>2. QED
    BY <2>1 DEF LogSettled, EndsTold, TypeOK
<1>3. OneTerminalEvent'
  BY DEF LogSettled, OneTerminalEvent
<1>4. QED
  BY <1>1, <1>2, <1>3 DEF LogSettled

LEMMA SettledTurnStep ==
  ASSUME TypeOK, TypeOK', Awaited, MetaKept, LogSettled, Deleted => Deleted', NEW t \in Turns,
         PostTurn(t) \/ HandlerStep(t) \/ MetaStep(t) \/ PromptStep(t) \/ Finally(t)
  PROVE  LogSettled'
<1>0. pc[t] \notin Waits => \A e \in pending : e.kind \in Terminals => e.turn # t
  BY DEF Awaited, Terminals
<1>1. CASE ReadMeta(t)
  <2>1. /\ pc[t] \in Reads /\ log' = log /\ pending' = pending
        /\ pc' = [pc EXCEPT ![t] = AfterRead(pc[t], status = "gone")]
    BY <1>1 DEF ReadMeta, GoTo
  <2>2. pc[t] \notin Waits
    BY <2>1 DEF Reads, Waits
  <2>3. ~Deleted => status # "gone"
    BY DEF MetaKept
  <2>4. ~Deleted => (pc[t] \in Told => AfterRead(pc[t], status = "gone") \in Told)
    <3>1. ASSUME ~Deleted, pc[t] \in Told
          PROVE  AfterRead(pc[t], status = "gone") \in Told
      <4>1. (status = "gone") = FALSE
        BY <2>3, <3>1
      <4>2. QED
        BY <2>1, <3>1, <4>1, PlacesTold
    <3>2. QED
      BY <3>1
  <2>5. QED
    BY <1>0, <2>1, <2>2, <2>4, SettledMove
<1>2. CASE WriteMeta(t)
  <2>1. /\ pc[t] \in Writes /\ log' = log /\ pending' = pending
        /\ pc' = [pc EXCEPT ![t] = AfterWrite(pc[t])]
    BY <1>2 DEF WriteMeta, GoTo
  <2>2. pc[t] \notin Waits
    BY <2>1 DEF Writes, Waits
  <2>3. pc[t] \in Told => AfterWrite(pc[t]) \in Told
    BY <2>1, PlacesTold
  <2>4. QED
    BY <1>0, <2>1, <2>2, <2>3, SettledMove
<1>3. CASE Finally(t)
  <2>1. /\ pc[t] \in {"final", "failFinal"} /\ log' = log /\ pending' = pending
        /\ pc' = [pc EXCEPT ![t] = "ended"]
    BY <1>3 DEF Finally, GoTo
  <2>2. pc[t] \notin Waits /\ "ended" \in Told
    BY <2>1 DEF Waits, Told
  <2>3. QED
    BY <1>0, <2>1, <2>2, SettledMove
<1>4. CASE IssueAppend(t)
  <2> DEFINE e == [turn |-> t, seq |-> seq[t] + 1, kind |-> KindAt(pc[t])]
             q == CASE pc[t] = "message" -> "messageWait"
                    [] pc[t] = "done"    -> "doneWait"
                    [] OTHER             -> "failedWait"
  <2>1. /\ pc[t] \in Issues /\ log' = log /\ pending' = pending \cup {e}
        /\ pc' = [pc EXCEPT ![t] = q]
    BY <1>4 DEF IssueAppend, GoTo
  <2>2. pc[t] \notin Waits /\ pc[t] \notin Told
    BY <2>1 DEF Issues, Waits, Told
  <2>3. e.turn = t /\ (e.kind \in Terminals => q \in {"doneWait", "failedWait"})
    BY <2>1 DEF Issues, KindAt, Terminals
  <2> HIDE DEF e, q
  <2>4. QED
    BY <1>0, <2>1, <2>2, <2>3, SettledMove
<1>5. CASE PostTurn(t) \/ HandlerStep(t) \/ PromptResolves(t) \/ PromptRejects(t) \/ Catch(t)
  <2>1. /\ pc[t] \in {"idle", "userRead", "starting", "lastSeq", "spawning", "prompting", "failing"}
        /\ log' = log /\ pending' = pending
    BY <1>5 DEF PostTurn, HandlerStep, NoProfile, StartTurn, ResolveRunner, Spawned, SpawnFails,
                PromptResolves, PromptRejects, Catch
  <2>2. PICK q : pc' = [pc EXCEPT ![t] = q]
    BY <1>5 DEF PostTurn, HandlerStep, NoProfile, StartTurn, ResolveRunner, Spawned, SpawnFails,
                PromptResolves, PromptRejects, Catch, GoTo
  <2>3. pc[t] \notin Waits /\ pc[t] \notin Told
    BY <2>1 DEF Waits, Told
  <2>4. QED
    BY <1>0, <2>1, <2>2, <2>3, SettledMove
<1>6. QED
  BY <1>1, <1>2, <1>3, <1>4, <1>5 DEF MetaStep, PromptStep

LEMMA SettledLand ==
  ASSUME TypeOK, Awaited, LogSettled, Deleted => Deleted', NEW e \in pending, Land(e)
  PROVE  LogSettled'
<1>0. /\ pending' = pending \ {e} /\ log' = Append(log, e) /\ e.turn \in Turns
      /\ \A i \in 1..Len(log) : log[i].turn \in Turns
      /\ \A f \in pending : f.turn \in Turns
      /\ Len(log') = Len(log) + 1 /\ log'[Len(log) + 1] = e
      /\ \A i \in 1..Len(log) : log'[i] = log[i]
      /\ Len(log) \in Nat
  <2>1. /\ log \in Seq(Event) /\ e \in Event
        /\ pending' = pending \ {e} /\ log' = Append(log, e)
    BY DEF TypeOK, Land
  <2>2. e.turn \in Turns /\ \A f \in pending : f.turn \in Turns
    BY DEF TypeOK, Event
  <2>3. QED
    BY <2>1, <2>2, TurnOfLine
<1>1. CASE e.kind = "update"
  <2>1. pc' = pc
    BY <1>1 DEF Land
  <2>2. EndsAwaited'
    BY <1>0, <2>1 DEF LogSettled, EndsAwaited
  <2>3. EndsTold => EndsTold'
    BY <1>0, <1>1, <2>1 DEF EndsTold, Terminals
  <2>4. OneTerminalEvent'
    BY <1>0, <1>1 DEF LogSettled, OneTerminalEvent
  <2>5. QED
    BY <2>2, <2>3, <2>4 DEF LogSettled
<1>2. CASE e.kind # "update"
  <2>1. /\ pc[e.turn] \in Waits /\ pc' = [pc EXCEPT ![e.turn] = AfterAppend(pc[e.turn])]
        /\ \A f \in pending' : f.kind # "update" => f.turn # e.turn
    BY <1>0, <1>2 DEF Land, Awaited
  <2>2. EndsAwaited'
    BY <1>0, <2>1 DEF LogSettled, EndsAwaited, Terminals, TypeOK
  <2>3. pc[e.turn] \notin Told
    BY <2>1, PlacesTold
  <2>4. EndsTold => EndsTold'
    <3>1. ASSUME EndsTold, NEW i \in 1..Len(log'), log'[i].kind \in Terminals
          PROVE  pc'[log'[i].turn] \in Told
      <4>1. CASE i = Len(log) + 1
        <5>1. pc[e.turn] \in {"doneWait", "failedWait"}
          BY <1>0, <3>1, <4>1 DEF LogSettled, EndsAwaited
        <5>2. QED
          BY <1>0, <2>1, <4>1, <5>1, PlacesTold DEF TypeOK
      <4>2. CASE i \in 1..Len(log)
        <5>1. pc[log[i].turn] \in Told
          BY <1>0, <3>1, <4>2 DEF EndsTold
        <5>2. QED
          BY <1>0, <2>1, <2>3, <4>2, <5>1 DEF TypeOK
      <4>3. QED
        BY <1>0, <4>1, <4>2
    <3>2. QED
      BY <3>1 DEF EndsTold
  <2>5. OneTerminalEvent'
    <3>1. CASE Deleted'
      BY <3>1 DEF OneTerminalEvent
    <3>2. CASE ~Deleted'
      <4>1. EndsTold
        BY <3>2 DEF LogSettled
      <4>2. \A i \in 1..Len(log) : log[i].kind \in Terminals => log[i].turn # e.turn
        BY <2>3, <4>1 DEF EndsTold
      <4>3. \A i, j \in 1..Len(log) :
              (i < j /\ log[i].turn = log[j].turn /\ log[i].kind \in {"done", "turn_failed"})
                => log[j].kind = "update"
        BY <3>2 DEF LogSettled, OneTerminalEvent
      <4>4. \A i \in 1..Len(log'), j \in 1..Len(log') : i < j => i \in 1..Len(log)
        BY <1>0
      <4>5. \A j \in 1..Len(log') : j \in 1..Len(log) \/ j = Len(log) + 1
        BY <1>0
      <4>6. QED
        BY <1>0, <4>2, <4>3, <4>4, <4>5 DEF OneTerminalEvent, Terminals
    <3>3. QED
      BY <3>1, <3>2
  <2>6. QED
    BY <2>2, <2>4, <2>5 DEF LogSettled
<1>3. QED
  BY <1>1, <1>2

LEMMA SettledStep ==
  ASSUME TypeOK, TypeOK', Awaited, MetaKept, LogSettled, [Next]_vars
  PROVE  LogSettled'
<1>0. Deleted => Deleted'
  BY DeletedStays
<1>1. ASSUME log' = log, pc' = pc, \A e \in pending' : e \in pending \/ e.kind = "update"
      PROVE  LogSettled'
  BY <1>0, <1>1 DEF LogSettled, EndsAwaited, EndsTold, OneTerminalEvent, Terminals
<1>2. CASE UNCHANGED vars
  BY <1>1, <1>2 DEF vars, turnVars
<1>3. ASSUME NEW c \in Turns, SessionUpdate(c)
      PROVE  LogSettled'
  <2>1. PICK t \in Turns : pending' = pending \cup {[turn |-> t, seq |-> seq[t] + 1, kind |-> "update"]}
    BY <1>3 DEF SessionUpdate, Sinks
  <2>2. log' = log /\ pc' = pc
    BY <1>3 DEF SessionUpdate
  <2>3. QED
    BY <1>1, <2>1, <2>2
<1>4. ASSUME NEW c \in Turns, ChildDies(c) \/ IdleTimer(c)
      PROVE  LogSettled'
  BY <1>1, <1>4 DEF ChildDies, IdleTimer, turnVars
<1>5. ASSUME NEW d \in Deletes, DeleteRequest(d) \/ DeleteStep(d)
      PROVE  LogSettled'
  <2>1. CASE DeleteSession(d)
    <3>1. /\ log' = <<>> /\ pending' = pending /\ pc' = pc
      BY <2>1 DEF DeleteSession, turnVars
    <3>2. Len(log') = 0 /\ 1..0 = {}
      BY <3>1
    <3>3. QED
      BY <3>1, <3>2 DEF LogSettled, EndsAwaited, EndsTold, OneTerminalEvent
  <2>2. CASE DeleteRequest(d) \/ DeleteWaits(d)
    BY <1>1, <2>2 DEF DeleteRequest, DeleteWaits, turnVars
  <2>3. QED
    BY <1>5, <2>1, <2>2 DEF DeleteStep
<1>6. CASE RepairStep \/ Drain
  BY <1>1, <1>6 DEF RepairStep, ZombieRead, ZombieWrite, Drain, turnVars
<1>7. CASE Restart
  <2>1. /\ log' = log /\ pending' = {}
        /\ \A t \in Turns : pc'[t] = IF pc[t] \in {"idle", "refused"} THEN pc[t] ELSE "ended"
    BY <1>7 DEF Restart
  <2>2. \A t \in Turns : pc[t] \in Told => pc'[t] \in Told
    BY <2>1, PlacesTold DEF Told
  <2>3. \A i \in 1..Len(log) : log[i].turn \in Turns
    BY TurnOfLine
  <2>4. QED
    BY <1>0, <2>1, <2>2, <2>3 DEF LogSettled, EndsAwaited, EndsTold, OneTerminalEvent
<1>8. QED
  BY <1>0, <1>2, <1>3, <1>4, <1>5, <1>6, <1>7, SettledTurnStep, SettledLand DEF Next, SilentStep

(* A turn's log has one terminal event at most, and its session is not      *)
(* recorded as running once the turn is over (turn-broker.js), whatever     *)
(* else reads and writes the meta file, for every number of turns.          *)
THEOREM TurnsEndOnce ==
  ASSUME Overlapping = FALSE
  PROVE  Spec => []TurnEndsOnce
<1>1. Init => LogSettled
  <2>1. ASSUME Init
        PROVE  LogSettled
    <3>1. log = <<>> /\ pending = {}
      BY <2>1 DEF Init
    <3>2. Len(log) = 0 /\ 1..0 = {}
      BY <3>1
    <3>3. QED
      BY <3>1, <3>2 DEF LogSettled, EndsAwaited, EndsTold, OneTerminalEvent
  <2>2. QED
    BY <2>1
<1>2. LogSettled /\ IInv /\ IInv' /\ [Next]_vars => LogSettled'
  BY SettledStep DEF IInv
<1>3. LogSettled /\ IInv => TurnEndsOnce
  BY DEF LogSettled, IInv, TurnEndsOnce
<1>4. QED
  BY <1>1, <1>2, <1>3, IInvHolds, PTL DEF Spec
===============================================================================
