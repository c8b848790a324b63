------------------------------- MODULE ChatView -------------------------------
(***************************************************************************)
(* The page of a chat: app/components/ui/ChatStream.vue, which shows the   *)
(* messages of the session that is selected, sends, follows the stream of  *)
(* the turn that runs, and reloads.  One browser.                          *)
(*                                                                         *)
(* The server's side of a turn is that of TurnBroker, by its promise: the  *)
(* messages it keeps, the events of the turn and the session's status.    *)
(* A request is sent, served and answered in three actions.                *)
(***************************************************************************)
EXTENDS Naturals, FiniteSets, SequencesExt

CONSTANTS
  Chats,
  Cut,        \* those in which the server died during a turn, some time ago
  Sends,      \* turns the user asks for
  MaxLoads,   \* loads of a session under way at once (bounds the model)
  NoChat, NoSend
ASSUME ChatAssumption == NoChat \notin Chats /\ Cut \subseteq Chats /\ NoSend \notin Sends /\ MaxLoads \in Nat

VARIABLES
  transcript,    \* server: the messages of a session
  chatTurn,  \* server: the turn that runs, or ran last, and its state
  events,    \* server: the events of a turn's log
  selected,  \* the page's session
  shown,     \* messages.value
  seen,      \* sessionView.value?.status
  following, \* the open EventSource: [chat, turn, next], or NoStream
  posts,     \* the POSTs: [chat, at]
  stops,     \* the sessions whose DELETE of a turn is under way
  loads,     \* the GETs of a session under way: [chat, opens, at, answer], or NoLoad
  adrift     \* history: since the session was selected, the page lost track of it
serverVars == <<transcript, chatTurn, events>>
chatVars == <<serverVars, selected, shown, seen, following, posts, stops, loads, adrift>>

NoStream == [chat |-> NoChat, turn |-> NoSend, next |-> 1]
User(t) == <<"user", t>>
Reply(t) == <<"reply", t>>
Pending(t) == <<"pending", t>>
\* "failing": after a failure, before it is announced; "ended": its end is announced,
\* its status still "running"; "recorded": its status too (completed or failed), but a
\* POST is refused until the broker forgets the turn ("over").
States == {"idle", "running", "stored", "told", "failing", "ended", "recorded", "over", "interrupted"}
Runs(c) == chatTurn[c].is \in {"running", "stored", "told", "failing", "ended"}
Kept(c) == Runs(c) \/ chatTurn[c].is = "recorded"   \* in the broker's running
StatusOf(c) == IF Runs(c) THEN "running" ELSE IF Kept(c) THEN "over" ELSE chatTurn[c].is
NoAnswer == [messages |-> <<>>, status |-> "idle", turn |-> NoSend]
LoadIds == 1..MaxLoads
NoLoad == [chat |-> NoChat, opens |-> FALSE, at |-> "free", answer |-> NoAnswer]
Waiting == (\E t \in Sends : posts[t].at \in {"sent", "served", "refused"})
           \/ stops # {} \/ \E i \in LoadIds : loads[i] # NoLoad
Streaming == following # NoStream

\* Which of the free identifiers a load gets is no matter.
Load(c, opens) ==
  LET i == CHOOSE j \in LoadIds : loads[j] = NoLoad IN
    loads' = [loads EXCEPT ![i] = [chat |-> c, opens |-> opens, at |-> "sent", answer |-> NoAnswer]]
MayLoad == \E i \in LoadIds : loads[i] = NoLoad

\* The sessions are new, but for those with a message whose turn was interrupted.
ChatInit ==
  /\ transcript = [c \in Chats |-> IF c \in Cut THEN <<User(NoSend)>> ELSE <<>>]
  /\ chatTurn = [c \in Chats |-> [is |-> IF c \in Cut THEN "interrupted" ELSE "idle", turn |-> NoSend]]
  /\ events = [t \in Sends |-> <<>>]
  /\ selected = NoChat /\ shown = <<>> /\ seen = "idle" /\ following = NoStream
  /\ posts = [t \in Sends |-> [chat |-> NoChat, at |-> "idle"]]
  /\ stops = {} /\ loads = [i \in LoadIds |-> NoLoad] /\ adrift = FALSE

-------------------------------------------------------------------------------
\* The server.  A turn's reply is stored, announced, its end announced, recorded.
TurnGoes(c, from, to) ==
  chatTurn[c].is = from /\ chatTurn' = [chatTurn EXCEPT ![c].is = to]
Announce(c, e) == events' = [events EXCEPT ![chatTurn[c].turn] = Append(@, e)]
UNCHANGEDClient == UNCHANGED <<selected, shown, seen, following, posts, stops, loads, adrift>>

\* A turn that fails, by itself or by turn.delete.ts, leaves the text there is.
Replies(c) == transcript' = [transcript EXCEPT ![c] = Append(@, Reply(chatTurn[c].turn))]
StoreReply(c) ==
  /\ TurnGoes(c, "running", "stored") /\ Replies(c)
  /\ UNCHANGED events /\ UNCHANGEDClient
FailTurn(c) ==
  /\ TurnGoes(c, "running", "failing") /\ (Replies(c) \/ UNCHANGED transcript)
  /\ UNCHANGED events /\ UNCHANGEDClient
TellReply(c) ==
  /\ TurnGoes(c, "stored", "told") /\ Announce(c, "assistant_message")
  /\ UNCHANGED transcript /\ UNCHANGEDClient
TellEnd(c) ==
  /\ \/ TurnGoes(c, "told", "ended") /\ Announce(c, "done")
     \/ TurnGoes(c, "failing", "ended") /\ Announce(c, "turn_failed")
  /\ UNCHANGED transcript /\ UNCHANGEDClient
RecordEnd(c) ==
  TurnGoes(c, "ended", "recorded") /\ UNCHANGED <<transcript, events>> /\ UNCHANGEDClient
Forget(c) ==
  TurnGoes(c, "recorded", "over") /\ UNCHANGED <<transcript, events>> /\ UNCHANGEDClient

\* turn.post.ts: 409, a turn that is begun, or an error once the message is stored.
ServePost(t) ==
  LET c == posts[t].chat
      begin == /\ transcript' = [transcript EXCEPT ![c] = Append(@, User(t))]
               /\ chatTurn' = [chatTurn EXCEPT ![c] = [is |-> "running", turn |-> t]] IN
  /\ posts[t].at = "sent"
  /\ IF Kept(c)
     THEN /\ posts' = [posts EXCEPT ![t].at = "refused"] /\ UNCHANGED <<serverVars, adrift>>
     ELSE \/ begin /\ posts' = [posts EXCEPT ![t].at = "served"] /\ UNCHANGED <<events, adrift>>
          \/ /\ transcript' = [transcript EXCEPT ![c] = Append(@, User(t))]
             /\ posts' = [posts EXCEPT ![t].at = "refused"] /\ adrift' = TRUE
             /\ UNCHANGED <<chatTurn, events>>
  /\ UNCHANGED <<selected, shown, seen, following, stops, loads>>
\* [sid].get.ts.
ServeLoad(i) ==
  LET c == loads[i].chat IN
  /\ loads[i].at = "sent"
  /\ loads' = [loads EXCEPT ![i].at = "served",
                 ![i].answer = [messages |-> transcript[c], status |-> StatusOf(c), turn |-> chatTurn[c].turn]]
  /\ UNCHANGED <<serverVars, selected, shown, seen, following, posts, stops, adrift>>

-------------------------------------------------------------------------------
\* The session that is selected changes: the stream closes, the session is loaded.
Select(c) ==
  /\ c # selected /\ (c # NoChat => MayLoad)
  /\ selected' = c /\ following' = NoStream
  /\ adrift' = Waiting
  /\ IF c = NoChat THEN shown' = <<>> /\ seen' = "idle" /\ UNCHANGED loads
     ELSE Load(c, TRUE) /\ UNCHANGED <<shown, seen>>
  /\ UNCHANGED <<serverVars, posts, stops>>

Answered(i) == loads' = [loads EXCEPT ![i] = NoLoad]
\* A mutant of ShowLoaded: a turn that runs is not followed.
ShowLoadedOnly(i) ==
  /\ loads[i].at = "served" /\ Answered(i)
  /\ shown' = loads[i].answer.messages /\ seen' = loads[i].answer.status
  /\ UNCHANGED <<serverVars, selected, following, posts, stops, adrift>>

\* loadSession; whoever selected the session follows the turn that runs.
ShowLoaded(i) ==
  LET answer == loads[i].answer IN
  /\ loads[i].at = "served" /\ Answered(i)
  /\ shown' = answer.messages /\ seen' = answer.status
  /\ following' = IF loads[i].opens /\ answer.status = "running"
                  THEN [chat |-> loads[i].chat, turn |-> answer.turn, next |-> 1] ELSE following
  /\ UNCHANGED <<serverVars, selected, posts, stops, adrift>>
LoadFails(i) ==
  /\ loads[i] # NoLoad /\ Answered(i)
  /\ shown' = <<>> /\ seen' = "idle" /\ adrift' = TRUE
  /\ UNCHANGED <<serverVars, selected, following, posts, stops>>

\* send, with an optimistic message; retryInterruptedTurn, without.
Send(t) ==
  /\ posts[t].at = "idle" /\ selected # NoChat /\ ~Streaming
  /\ posts' = [posts EXCEPT ![t] = [chat |-> selected, at |-> "sent"]]
  /\ shown' = Append(shown, Pending(t))
  /\ adrift' = (adrift \/ Waiting)
  /\ UNCHANGED <<serverVars, selected, seen, following, stops, loads>>
Retry(t) ==
  /\ posts[t].at = "idle" /\ selected # NoChat /\ seen = "interrupted"
  /\ \E i \in DOMAIN shown : shown[i][1] = "user"
  /\ posts' = [posts EXCEPT ![t] = [chat |-> selected, at |-> "sent"]]
  /\ adrift' = (adrift \/ Waiting \/ Streaming)
  /\ UNCHANGED <<serverVars, selected, shown, seen, following, stops, loads>>
Replaced(t) == [i \in DOMAIN shown |-> IF shown[i] = Pending(t) THEN User(t) ELSE shown[i]]
Accepted(t) ==
  /\ posts[t].at = "served" /\ posts' = [posts EXCEPT ![t].at = "over"]
  /\ shown' = Replaced(t)
  /\ following' = [chat |-> posts[t].chat, turn |-> t, next |-> 1]
  /\ UNCHANGED <<serverVars, selected, seen, stops, loads, adrift>>
Refused(t) ==
  /\ posts[t].at = "refused" /\ posts' = [posts EXCEPT ![t].at = "over"]
  /\ shown' = RemoveFirst(shown, Pending(t))
  /\ UNCHANGED <<serverVars, selected, seen, following, stops, loads, adrift>>

NextEvent == events[following.turn][following.next]
HasEvent == Streaming /\ following.next <= Len(events[following.turn])
\* A mutant of HearReply: what is shown already is appended once more.
HearReplyAgain ==
  /\ HasEvent /\ NextEvent = "assistant_message"
  /\ shown' = Append(shown, Reply(following.turn))
  /\ following' = [following EXCEPT !.next = @ + 1]
  /\ UNCHANGED <<serverVars, selected, seen, posts, stops, loads, adrift>>

HearReply ==
  /\ HasEvent /\ NextEvent = "assistant_message"
  /\ shown' = IF \E i \in DOMAIN shown : shown[i] = Reply(following.turn) THEN shown
              ELSE Append(shown, Reply(following.turn))
  /\ following' = [following EXCEPT !.next = @ + 1]
  /\ UNCHANGED <<serverVars, selected, seen, posts, stops, loads, adrift>>
\* "done", "turn_failed": the stream closes, its session is loaded.
HearEnd ==
  /\ HasEvent /\ NextEvent \in {"done", "turn_failed"} /\ MayLoad
  /\ Load(following.chat, FALSE) /\ following' = NoStream
  /\ UNCHANGED <<serverVars, selected, shown, seen, posts, stops, adrift>>
\* onerror: no retry, no load.
LoseStream ==
  /\ Streaming /\ following' = NoStream /\ adrift' = TRUE
  /\ UNCHANGED <<serverVars, selected, shown, seen, posts, stops, loads>>

\* stopTurn: the stream closes first; once the DELETE is answered, which only asks the
\* turn to end (it fails, or completes, later), the session is loaded.
Stop ==
  /\ Streaming /\ selected # NoChat
  /\ following' = NoStream /\ stops' = stops \cup {selected} /\ adrift' = TRUE
  /\ UNCHANGED <<serverVars, selected, shown, seen, posts, loads>>
StopAnswered(c) ==
  /\ c \in stops /\ MayLoad /\ stops' = stops \ {c} /\ Load(c, FALSE)
  /\ UNCHANGED <<serverVars, selected, shown, seen, following, posts, adrift>>

\* The server dies: its turns are interrupted, requests that were not served fail.
ServerDies ==
  /\ \E c \in Chats : Kept(c)
  /\ chatTurn' = [c \in Chats |-> IF Runs(c) THEN [chatTurn[c] EXCEPT !.is = "interrupted"]
                                 ELSE IF Kept(c) THEN [chatTurn[c] EXCEPT !.is = "over"] ELSE chatTurn[c]]
  /\ following' = NoStream /\ adrift' = TRUE
  /\ posts' = [t \in Sends |-> IF posts[t].at = "sent" THEN [posts[t] EXCEPT !.at = "refused"] ELSE posts[t]]
  /\ UNCHANGED <<transcript, events, selected, shown, seen, stops, loads>>

ChatNext ==
  \/ \E c \in Chats : \/ StoreReply(c) \/ FailTurn(c) \/ TellReply(c) \/ TellEnd(c)
                      \/ RecordEnd(c) \/ Forget(c) \/ StopAnswered(c)
  \/ \E c \in Chats \cup {NoChat} : Select(c)
  \/ \E t \in Sends : ServePost(t) \/ Send(t) \/ Retry(t) \/ Accepted(t) \/ Refused(t)
  \/ \E i \in LoadIds : ServeLoad(i) \/ ShowLoaded(i) \/ LoadFails(i)
  \/ HearReply \/ HearEnd \/ LoseStream \/ Stop \/ ServerDies
ChatSpec == ChatInit /\ [][ChatNext]_chatVars

-------------------------------------------------------------------------------
Messages == {"user", "reply", "pending"} \X (Sends \cup {NoSend})
ChatTypeOK ==
  /\ transcript \in [Chats -> Seq(Messages)] /\ shown \in Seq(Messages)
  /\ chatTurn \in [Chats -> [is : States, turn : Sends \cup {NoSend}]]
  /\ events \in [Sends -> Seq({"assistant_message", "done", "turn_failed"})]
  /\ selected \in Chats \cup {NoChat} /\ seen \in States
  /\ following \in [chat : Chats \cup {NoChat}, turn : Sends \cup {NoSend}, next : Nat]
  /\ posts \in [Sends -> [chat : Chats \cup {NoChat}, at : {"idle", "sent", "served", "refused", "over"}]]
  /\ stops \subseteq Chats /\ adrift \in BOOLEAN

\* No message is shown twice, whichever of load, answer and event brings it; and
\* a page with nothing under way shows its session as it is stored, down to the
\* last reply, also when the session was selected in the middle of a turn, and when
\* it was loaded after the end was announced and before it was recorded.  It
\* loses track when a request is under way while the user selects or sends, when
\* the user retries while a turn is followed, when a load or the stream fails, and
\* when the turn is stopped.
ChatIsComplete ==
  /\ \A i, j \in DOMAIN shown : shown[i] = shown[j] => i = j
  /\ selected # NoChat /\ ~adrift /\ ~Waiting /\ ~Streaming => shown = transcript[selected]
===============================================================================
