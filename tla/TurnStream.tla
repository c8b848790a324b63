----------------------------- MODULE TurnStream -----------------------------
(***************************************************************************)
(* The subscribers of a session's event log, together with the broker that *)
(* writes it: steps/[stepId]/sessions/[sid]/turn/stream.get.ts.  A stream  *)
(* subscribes, reads the log, pushes what it read, then what was buffered  *)
(* meanwhile, then what arrives.                                           *)
(***************************************************************************)
EXTENDS TurnBroker

CONSTANTS Streams

VARIABLES
  spc,      \* stream -> where it stands
  since,    \* stream -> the seq its client asked to start after
  highest,  \* stream -> highestSent
  replay,   \* stream -> the events it read from the log
  buffer,   \* stream -> the events that arrived during the replay
  sent      \* stream -> the events pushed to the client

streamVars == <<spc, since, highest, replay, buffer, sent>>
allVars == <<vars, streamVars>>

StreamTypeOK ==
  /\ spc \in [Streams -> {"idle", "reading", "replaying", "flushing", "live", "closed"}]
  /\ since \in [Streams -> Nat]
  /\ highest \in [Streams -> Nat]
  /\ replay \in [Streams -> Seq(Event)]
  /\ buffer \in [Streams -> Seq(Event)]
  /\ sent \in [Streams -> SUBSET Event]

StreamInit ==
  /\ Init
  /\ spc = [s \in Streams |-> "idle"]
  /\ since = [s \in Streams |-> 0]
  /\ highest = [s \in Streams |-> 0]
  /\ replay = [s \in Streams |-> <<>>]
  /\ buffer = [s \in Streams |-> <<>>]
  /\ sent = [s \in Streams |-> {}]

-----------------------------------------------------------------------------
Terminal(e) == e.kind \in {"done", "turn_failed"}

Higher(m, n) == IF m > n THEN m ELSE n

(* The client opens the stream of turn t once its POST was answered.       *)
OpenStream(s, t) ==
  /\ spc[s] = "idle"
  /\ pc[t] \notin Posting \cup {"idle", "refused"}
  /\ status # "gone"
  /\ spc' = [spc EXCEPT ![s] = "reading"]
  /\ since' = [since EXCEPT ![s] = base[t]]
  /\ highest' = [highest EXCEPT ![s] = base[t]]
  /\ UNCHANGED <<vars, replay, buffer, sent>>

(* The events of a sequence after a seq.                                   *)
EventsSince(events, after) ==
  LET kept[i \in 0..Len(events)] ==
        IF i = 0 THEN <<>> ELSE IF events[i].seq > after THEN Append(kept[i - 1], events[i]) ELSE kept[i - 1]
  IN  kept[Len(events)]

ReadLog(s) ==
  /\ spc[s] = "reading"
  /\ replay' = [replay EXCEPT ![s] = EventsSince(log, since[s])]
  /\ spc' = [spc EXCEPT ![s] = "replaying"]
  /\ UNCHANGED <<vars, since, highest, buffer, sent>>

(* push: an event whose seq is not above highestSent is dropped.  The      *)
(* events of a sequence pushed one by one, by this rule.                   *)
Pushed(events, from) ==
  LET top[i \in 0..Len(events)] ==
        IF i = 0 THEN from ELSE Higher(top[i - 1], events[i].seq)
  IN  [sent |-> {events[i] : i \in {j \in 1..Len(events) : events[j].seq > top[j - 1]}},
       highest |-> top[Len(events)]]

ReplayLog(s) ==
  /\ spc[s] = "replaying"
  /\ LET p == Pushed(replay[s], highest[s])
     IN  /\ sent' = [sent EXCEPT ![s] = @ \cup p.sent]
         /\ highest' = [highest EXCEPT ![s] = p.highest]
  /\ replay' = [replay EXCEPT ![s] = <<>>]
  /\ spc' = [spc EXCEPT ![s] = "flushing"]
  /\ UNCHANGED <<vars, since, buffer>>

(* One buffered event: a live one may arrive while its push is awaited.    *)
FlushOne(s) ==
  /\ spc[s] = "flushing"
  /\ buffer[s] # <<>>
  /\ LET e == Head(buffer[s])
         p == Pushed(<<e>>, highest[s])
     IN  /\ sent' = [sent EXCEPT ![s] = @ \cup p.sent]
         /\ highest' = [highest EXCEPT ![s] = p.highest]
         /\ spc' = [spc EXCEPT ![s] = IF Terminal(e) THEN "closed" ELSE @]
  /\ buffer' = [buffer EXCEPT ![s] = Tail(@)]
  /\ UNCHANGED <<vars, since, replay>>

(* Mutant: the stream stays open although no turn is running.              *)
FlushedOpen(s) ==
  /\ spc[s] = "flushing"
  /\ buffer[s] = <<>>
  /\ spc' = [spc EXCEPT ![s] = "live"]
  /\ UNCHANGED <<vars, since, highest, replay, buffer, sent>>

(* Mutant: the stream ends in a state nobody expects.                      *)
FlushedEnded(s) ==
  /\ spc[s] = "flushing"
  /\ buffer[s] = <<>>
  /\ spc' = [spc EXCEPT ![s] = IF running = NoTurn THEN "ended" ELSE "live"]
  /\ UNCHANGED <<vars, since, highest, replay, buffer, sent>>

(* The buffer is empty: close when no turn is running, else stay.          *)
Flushed(s) ==
  /\ spc[s] = "flushing"
  /\ buffer[s] = <<>>
  /\ spc' = [spc EXCEPT ![s] = IF running = NoTurn THEN "closed" ELSE "live"]
  /\ UNCHANGED <<vars, since, highest, replay, buffer, sent>>

-----------------------------------------------------------------------------
(* What the broker's emitter does to the streams                           *)

Buffering(s) == spc[s] \in {"reading", "replaying"}
Direct(s) == spc[s] \in {"flushing", "live"}

(* "event": buffered during the replay, pushed after it.                   *)
Deliver(e) ==
  /\ buffer' = [s \in Streams |-> IF Buffering(s) THEN Append(buffer[s], e)
                                  ELSE buffer[s]]
  /\ LET pushed == {s \in Streams : Direct(s) /\ e.seq > highest[s]}
     IN  /\ sent' = [s \in Streams |-> sent[s] \cup (IF s \in pushed THEN {e} ELSE {})]
         /\ highest' = [s \in Streams |-> IF s \in pushed THEN e.seq ELSE highest[s]]
  /\ spc' = [s \in Streams |-> IF Direct(s) /\ Terminal(e) THEN "closed" ELSE spc[s]]
  /\ UNCHANGED <<since, replay>>

(* "ended", and the loss of the connection: every open stream closes.      *)
CloseAll ==
  /\ spc' = [s \in Streams |-> IF spc[s] = "idle" THEN "idle" ELSE "closed"]
  /\ UNCHANGED <<since, highest, replay, buffer, sent>>

-----------------------------------------------------------------------------
StreamStep(s) == ReadLog(s) \/ ReplayLog(s) \/ FlushOne(s) \/ Flushed(s)

StreamNext ==
  \/ SilentStep /\ UNCHANGED streamVars
  \/ \E e \in pending : Land(e) /\ Deliver(e)
  \/ \E t \in Turns : Finally(t) /\ CloseAll
  \/ Restart /\ CloseAll
  \/ \E s \in Streams, t \in Turns : OpenStream(s, t)
  \/ \E s \in Streams : StreamStep(s)

StreamSpec == StreamInit /\ [][StreamNext]_allVars

(* Node runs ready callbacks: begun handlers, appends, meta steps, the     *)
(* finally and the streams go on.  That a prompt settles and a spawn ends  *)
(* is an assumption about the agent.  Requests, updates, timers and deaths *)
(* are not fair.                                                           *)
StreamFairness ==
  /\ \A t \in Turns :
       /\ WF_allVars((HandlerStep(t) \/ MetaStep(t) \/ PromptStep(t)) /\ UNCHANGED streamVars)
       /\ WF_allVars(Finally(t) /\ CloseAll)
  /\ WF_allVars(\E e \in pending : Land(e) /\ Deliver(e))
  /\ \A s \in Streams : WF_allVars(StreamStep(s))

FairStreamSpec == StreamSpec /\ StreamFairness

-----------------------------------------------------------------------------
(* Properties                                                              *)

(* Every accepted turn leaves `running`: its finally runs, whichever step  *)
(* threw.                                                                  *)
TurnEnds == \A t \in Turns : (pc[t] # "idle") ~> (pc[t] \in Over)

(* "so the client doesn't hang" (stream.get.ts): every stream closes, also *)
(* one that subscribes just before or just after the turn ends.            *)
StreamCloses == \A s \in Streams : (spc[s] # "idle") ~> (spc[s] = "closed")

(* A turn comes to its end, and with it every stream that follows it.      *)
TurnsAndStreamsEnd == TurnEnds /\ StreamCloses

(* "Implements gap-free log tail" (stream.get.ts): of the turn it was      *)
(* opened for, a stream pushes every event below the highest it pushed     *)
(* that the log holds and it has read or been told of.                     *)
GapFree ==
  \A s \in Streams : spc[s] \in {"flushing", "live"} /\ buffer[s] = <<>> =>
    \A i \in 1..Len(log) :
      (log[i].seq > since[s] /\ log[i].seq < highest[s]) => log[i] \in sent[s]
=============================================================================
