------------------------------ MODULE PageProofs ------------------------------
(* Theorems about the pages of a session.  ChatView, for every set of      *)
(* sessions, messages and loads: the page of a chat shows no message       *)
(* twice, and what is stored.  StepPage, for every set of steps, every     *)
(* number of sessions, visits and clicks: the page of a step shows its     *)
(* sessions, and theirs only.                                              *)
EXTENDS MCTurns, TurnBrokerProofs, StepwiseRecursion, SequenceTheorems

-----------------------------------------------------------------------------
(* ChatView: no message is shown twice, and what is shown is               *)
(* what is stored                                                          *)

SendIds == Sends \cup {NoSend}
Answers == [messages : Seq(Messages), status : States, turn : SendIds]
Loads == [chat : Chats \cup {NoChat}, opens : BOOLEAN, at : {"free", "sent", "served"}, answer : Answers]
ChatTyped ==
  /\ transcript \in [Chats -> Seq(Messages)] /\ shown \in Seq(Messages)
  /\ chatTurn \in [Chats -> [is : States, turn : SendIds]]
  /\ events \in [Sends -> Seq({"assistant_message"} \cup Terminals)]
  /\ selected \in Chats \cup {NoChat} /\ seen \in States
  /\ following \in [chat : Chats \cup {NoChat}, turn : SendIds, next : Nat \ {0}]
  /\ posts \in [Sends -> [chat : Chats \cup {NoChat}, at : {"idle", "sent", "served", "refused", "over"}]]
  /\ stops \subseteq Chats /\ adrift \in BOOLEAN
  /\ loads \in [LoadIds -> Loads]

Twice(s) == \E i, j \in DOMAIN s : s[i] = s[j] /\ i # j
Has(s, m) == \E i \in DOMAIN s : s[i] = m
Unserved(t) == posts[t].at \in {"idle", "sent"}

(* A turn runs in one session and is named there after its POST was served.*)
TurnsPosted ==
  \A c \in Chats :
    /\ chatTurn[c].is \notin {"idle", "interrupted"} => chatTurn[c].turn \in Sends
    /\ chatTurn[c].turn \in Sends => posts[chatTurn[c].turn].chat = c /\ ~Unserved(chatTurn[c].turn)
(* What the page waits for is of a session and of a turn that was served.  *)
TurnsKnown ==
  /\ \A t \in Sends : posts[t].at # "idle" => posts[t].chat \in Chats
  /\ \A i \in LoadIds : loads[i] # NoLoad => loads[i].chat \in Chats
  /\ following # NoStream => following.chat \in Chats
  /\ following.turn \in Sends => ~Unserved(following.turn)
  /\ \A i \in LoadIds : loads[i].answer.turn \in Sends => ~Unserved(loads[i].answer.turn)
(* Its log ends with it, and with the log what it writes.                  *)
StillSpeaks(c) == chatTurn[c].is \in {"running", "stored", "told", "failing"}
LogsEnd ==
  /\ \A c \in Chats : StillSpeaks(c) => \A e \in Terminals : ~Has(events[chatTurn[c].turn], e)
  /\ \A t \in Sends : Unserved(t) => events[t] = <<>>
(* What is stored and what is about to be.                                 *)
Single(s) ==
  /\ ~Twice(s)
  /\ \A t \in Sends : ~Has(s, Pending(t)) /\ (Unserved(t) => ~Has(s, User(t)) /\ ~Has(s, Reply(t)))
StoredOnce ==
  /\ \A c \in Chats : Single(transcript[c])
  /\ \A c \in Chats : chatTurn[c].is = "running" => ~Has(transcript[c], Reply(chatTurn[c].turn))
  /\ \A i \in LoadIds : Single(loads[i].answer.messages)
(* What is shown: a message that is stored, or one that waits to be.       *)
ShownOnce ==
  /\ ~Twice(shown)
  /\ \A t \in Sends :
       /\ Unserved(t) => ~Has(shown, User(t)) /\ ~Has(shown, Reply(t))
       /\ Has(shown, Pending(t)) => posts[t].at \notin {"idle", "over"} /\ ~Has(shown, User(t))

(* While the page keeps track one thing at most is under way: a POST, a    *)
(* load, or a stream.                                                      *)
Out(t) == posts[t].at \in {"sent", "served", "refused"}
Free(i) == loads[i] = NoLoad
PageQuiet == (\A t \in Sends : ~Out(t)) /\ (\A i \in LoadIds : Free(i)) /\ ~Streaming
AsStored(s) == s = transcript[selected] /\ ~StillSpeaks(selected)
PostKept(t) ==
  /\ posts[t].chat = selected /\ selected # NoChat
  /\ \A u \in Sends : Out(u) => u = t
  /\ \A i \in LoadIds : Free(i)
  /\ ~Streaming
  /\ posts[t].at = "served" => chatTurn[selected].turn = t
  /\ posts[t].at # "served" => ~StillSpeaks(selected)
       /\ (shown = transcript[selected] \/ shown = Append(transcript[selected], Pending(t)))
Follows(i) == loads[i].opens /\ loads[i].answer.status = "running"
LoadKept(i) ==
  /\ loads[i].chat = selected /\ selected # NoChat
  /\ \A j \in LoadIds : ~Free(j) => j = i
  /\ ~Streaming
  /\ ~loads[i].opens => ~StillSpeaks(selected)
  /\ loads[i].at = "served" =>
       /\ loads[i].answer.turn = chatTurn[selected].turn
       /\ ~Follows(i) => AsStored(loads[i].answer.messages)
StreamKept == following.chat = selected /\ selected # NoChat /\ following.turn = chatTurn[selected].turn
OnTrack ==
  ~adrift =>
    /\ stops = {}
    /\ \A t \in Sends : Out(t) => PostKept(t)
    /\ \A i \in LoadIds : ~Free(i) => LoadKept(i)
    /\ Streaming => StreamKept
    /\ PageQuiet /\ selected # NoChat => AsStored(shown)

ChatInv == ChatTyped /\ TurnsPosted /\ TurnsKnown /\ LogsEnd /\ StoredOnce /\ ShownOnce /\ OnTrack

LEMMA ChatInvShows == ChatInv => ChatIsComplete
<1> SUFFICES ASSUME ChatInv PROVE ChatIsComplete
  OBVIOUS
<1>1. \A i, j \in DOMAIN shown : shown[i] = shown[j] => i = j
  BY DEF ChatInv, ShownOnce, Twice
<1>2. ASSUME selected # NoChat, ~adrift, ~Waiting, ~Streaming PROVE shown = transcript[selected]
  <2>1. PageQuiet
    BY <1>2 DEF PageQuiet, Waiting, Out, Free
  <2>2. QED
    BY <1>2, <2>1 DEF ChatInv, OnTrack, AsStored
<1>3. QED
  BY <1>1, <1>2 DEF ChatIsComplete

(* No POST goes back, and none is served for another session.              *)
PostsGo ==
  \A t \in Sends : ~Unserved(t) => ~Unserved(t)' /\ posts'[t].chat = posts[t].chat

LEMMA TurnsPostedKept ==
  ASSUME TurnsPosted, PostsGo, chatTurn' = chatTurn
  PROVE  TurnsPosted'
  BY DEF TurnsPosted, PostsGo, Unserved

LEMMA SingleKept == ASSUME NEW s, Single(s), PostsGo PROVE Single(s)'
  BY DEF Single, PostsGo, Unserved, Twice, Has

LEMMA LogsKept ==
  ASSUME LogsEnd, PostsGo, events' = events,
         \A c \in Chats : StillSpeaks(c)' => StillSpeaks(c) /\ chatTurn'[c].turn = chatTurn[c].turn
  PROVE  LogsEnd'
  BY DEF LogsEnd, PostsGo, Has

LEMMA StoredKept ==
  ASSUME StoredOnce, PostsGo, transcript' = transcript,
         \A c \in Chats : chatTurn'[c].is = "running" =>
                            chatTurn[c].is = "running" /\ chatTurn'[c].turn = chatTurn[c].turn,
         \A i \in LoadIds : \/ loads'[i].answer.messages = <<>>
                            \/ loads'[i].answer.messages = loads[i].answer.messages
                            \/ \E c \in Chats : loads'[i].answer.messages = transcript[c]
  PROVE  StoredOnce'
<1>1. \A c \in Chats : Single(transcript[c])'
  <2> SUFFICES ASSUME NEW c \in Chats PROVE Single(transcript[c])'
    OBVIOUS
  <2> PICK s : s = transcript[c]
    OBVIOUS
  <2>1. Single(s)'
    BY SingleKept DEF StoredOnce
  <2>2. QED
    BY <2>1
<1>2. \A c \in Chats : chatTurn'[c].is = "running" => ~Has(transcript'[c], Reply(chatTurn'[c].turn))
  BY DEF StoredOnce
<1>3. \A i \in LoadIds : Single(loads[i].answer.messages)'
  <2> SUFFICES ASSUME NEW i \in LoadIds PROVE Single(loads[i].answer.messages)'
    OBVIOUS
  <2> PICK s : s = loads'[i].answer.messages
    OBVIOUS
  <2>1. Single(s)
    <3>1. Single(<<>>)
      BY DEF Single, Twice, Has
    <3>2. QED
      BY <3>1 DEF StoredOnce
  <2>2. Single(s)'
    BY <2>1, SingleKept
  <2>3. QED
    BY <2>2
<1>4. QED
  BY <1>1, <1>2, <1>3 DEF StoredOnce

LEMMA ShownKept ==
  ASSUME ShownOnce, PostsGo, shown' = shown,
         \A t \in Sends : Has(shown, Pending(t)) => posts'[t].at \notin {"idle", "over"}
  PROVE  ShownOnce'
  BY DEF ShownOnce, PostsGo, Unserved, Twice, Has

(* What a load brings is shown.                                            *)
LEMMA ShownLoaded == ASSUME NEW s, Single(s), PostsGo, shown' = s PROVE ShownOnce'
  BY SingleKept DEF ShownOnce, Single, Unserved, Twice, Has

(* A load that begins takes a free place.                                  *)
LEMMA LoadBegins ==
  ASSUME ChatTyped, MayLoad, NEW c \in Chats, NEW opens \in BOOLEAN, Load(c, opens)
  PROVE  \E i \in LoadIds : \E l \in Loads :
           /\ Free(i) /\ l # NoLoad
           /\ l.chat = c /\ l.opens = opens /\ l.at = "sent" /\ l.answer = NoAnswer
           /\ loads' = [loads EXCEPT ![i] = l]
<1> PICK l : l = [chat |-> c, opens |-> opens, at |-> "sent", answer |-> NoAnswer]
  OBVIOUS
<1>1. NoAnswer \in Answers
  BY DEF NoAnswer, Answers, States, SendIds
<1>2. l \in Loads /\ l.chat = c /\ l.opens = opens /\ l.at = "sent" /\ l.answer = NoAnswer
  BY <1>1 DEF Loads
<1>3. l # NoLoad
  BY <1>2 DEF NoLoad
<1> PICK i : i = CHOOSE j \in LoadIds : loads[j] = NoLoad
  OBVIOUS
<1>4. i \in LoadIds /\ Free(i)
  BY DEF MayLoad, Free
<1>5. loads' = [loads EXCEPT ![i] = l]
  BY DEF Load
<1>6. QED
  BY <1>2, <1>3, <1>4, <1>5

(* The turn of c goes on.                                                  *)
LEMMA TurnGoesOn ==
  ASSUME ChatTyped, TurnsPosted, NEW c \in Chats, NEW from, NEW to \in States, TurnGoes(c, from, to),
         from \notin {"idle", "interrupted"}
  PROVE  /\ chatTurn' \in [Chats -> [is : States, turn : SendIds]]
         /\ chatTurn[c].is = from /\ chatTurn'[c].is = to /\ chatTurn[c].turn \in Sends
         /\ \A d \in Chats : chatTurn'[d].turn = chatTurn[d].turn /\ (d # c => chatTurn'[d] = chatTurn[d])
         /\ chatTurn' = [chatTurn EXCEPT ![c].is = to]
         /\ \A d \in Chats : d # c => chatTurn[d].turn # chatTurn[c].turn
<1>1. /\ chatTurn \in [Chats -> [is : States, turn : SendIds]] /\ chatTurn[c].is = from
      /\ chatTurn' = [chatTurn EXCEPT ![c].is = to]
  BY DEF ChatTyped, TurnGoes
<1>2. \A d \in Chats : /\ chatTurn[d] \in [is : States, turn : SendIds]
                       /\ chatTurn'[d] = IF d = c THEN [chatTurn[c] EXCEPT !.is = to] ELSE chatTurn[d]
  BY <1>1
<1>3. /\ chatTurn' \in [Chats -> [is : States, turn : SendIds]] /\ chatTurn'[c].is = to
      /\ \A d \in Chats : chatTurn'[d].turn = chatTurn[d].turn /\ (d # c => chatTurn'[d] = chatTurn[d])
  BY <1>1, <1>2
<1>4. chatTurn[c].turn \in Sends /\ posts[chatTurn[c].turn].chat = c
  BY <1>1 DEF TurnsPosted
<1>5. \A d \in Chats : d # c => chatTurn[d].turn # chatTurn[c].turn
  BY <1>4 DEF TurnsPosted
<1>6. QED
  BY <1>1, <1>3, <1>4, <1>5

LEMMA ServerTracked ==
  ASSUME ChatTyped, OnTrack, UNCHANGED <<selected, shown, seen, following, posts, stops, loads, adrift>>,
         \A c \in Chats : /\ chatTurn'[c].turn = chatTurn[c].turn
                          /\ StillSpeaks(c)' => StillSpeaks(c)
                          /\ transcript'[c] = transcript[c] \/ StillSpeaks(c)
  PROVE  OnTrack'
<1>1. selected \in Chats \cup {NoChat}
  BY DEF ChatTyped
<1>2. selected # NoChat => /\ chatTurn'[selected].turn = chatTurn[selected].turn
                           /\ StillSpeaks(selected)' => StillSpeaks(selected)
                           /\ transcript'[selected] = transcript[selected] \/ StillSpeaks(selected)
  BY <1>1
<1>3. \A t \in Sends : PostKept(t) => PostKept(t)'
  BY <1>2 DEF PostKept, Out, Free, Streaming
<1>4. \A i \in LoadIds : LoadKept(i) => LoadKept(i)'
  BY <1>2 DEF LoadKept, Follows, AsStored, Free, Streaming
<1>5. StreamKept => StreamKept'
  BY <1>2 DEF StreamKept
<1>6. selected # NoChat /\ AsStored(shown) => AsStored(shown)'
  BY <1>2 DEF AsStored
<1>7. QED
  BY <1>3, <1>4, <1>5, <1>6 DEF OnTrack, Out, Free, Streaming, PageQuiet

LEMMA HasAppended == ASSUME NEW S, NEW s \in Seq(S), NEW e, NEW m
                     PROVE  Has(Append(s, e), m) <=> Has(s, m) \/ m = e
<1>1. DOMAIN s = 1..Len(s) /\ Len(s) \in Nat
  OBVIOUS
<1>2. /\ DOMAIN Append(s, e) = 1..(Len(s) + 1) /\ Append(s, e)[Len(s) + 1] = e
      /\ \A i \in 1..Len(s) : Append(s, e)[i] = s[i]
  OBVIOUS
<1>3. \A i \in 1..(Len(s) + 1) : i \in 1..Len(s) \/ i = Len(s) + 1
  BY <1>1
<1>4. \A i \in 1..Len(s) : i \in 1..(Len(s) + 1)
  BY <1>1
<1>5. Len(s) + 1 \in 1..(Len(s) + 1)
  BY <1>1
<1> HIDE DEF Has
<1>6. Has(Append(s, e), m) => Has(s, m) \/ m = e
  BY <1>1, <1>2, <1>3 DEF Has
<1>7. Has(s, m) => Has(Append(s, e), m)
  BY <1>1, <1>2, <1>4 DEF Has
<1>8. Has(Append(s, e), e)
  BY <1>2, <1>5 DEF Has
<1>9. QED
  BY <1>6, <1>7, <1>8

LEMMA TwiceAppended == ASSUME NEW S, NEW s \in Seq(S), NEW e, ~Twice(s), ~Has(s, e)
                       PROVE  ~Twice(Append(s, e))
<1>1. DOMAIN s = 1..Len(s) /\ Len(s) \in Nat
  OBVIOUS
<1>2. /\ DOMAIN Append(s, e) = 1..(Len(s) + 1) /\ Append(s, e)[Len(s) + 1] = e
      /\ \A i \in 1..Len(s) : Append(s, e)[i] = s[i]
  OBVIOUS
<1>3. \A i \in 1..(Len(s) + 1) : i \in 1..Len(s) \/ i = Len(s) + 1
  BY <1>1
<1>4. QED
  BY <1>1, <1>2, <1>3 DEF Twice, Has

(* A reply is stored, whole or in part.                                    *)
LEMMA StoreReplyStep ==
  ASSUME ChatInv, NEW c \in Chats, NEW to \in {"stored", "failing"},
         TurnGoes(c, "running", to), Replies(c), UNCHANGED events, UNCHANGEDClient
  PROVE  ChatInv'
<1>0. ChatTyped /\ TurnsPosted /\ TurnsKnown /\ LogsEnd /\ StoredOnce /\ ShownOnce /\ OnTrack
  BY DEF ChatInv
<1>1. TurnGoes(c, "running", to) /\ to \in States
  BY DEF States
<1>2. /\ chatTurn' \in [Chats -> [is : States, turn : SendIds]]
      /\ chatTurn[c].is = "running" /\ chatTurn'[c].is = to /\ chatTurn[c].turn \in Sends
      /\ \A d \in Chats : chatTurn'[d].turn = chatTurn[d].turn /\ (d # c => chatTurn'[d] = chatTurn[d])
      /\ \A d \in Chats : d # c => chatTurn[d].turn # chatTurn[c].turn
  BY <1>0, <1>1, TurnGoesOn
<1> PICK e : e = Reply(chatTurn[c].turn)
  OBVIOUS
<1>3. e \in Messages
  BY <1>2 DEF Reply, Messages
<1>4. /\ transcript' = [transcript EXCEPT ![c] = Append(@, e)]
      /\ UNCHANGED <<events, selected, shown, seen, following, posts, stops, loads, adrift>>
  BY DEF Replies, UNCHANGEDClient
<1>5. transcript \in [Chats -> Seq(Messages)] /\ transcript[c] \in Seq(Messages)
      /\ transcript'[c] = Append(transcript[c], e) /\ \A d \in Chats : d # c => transcript'[d] = transcript[d]
  BY <1>0, <1>4 DEF ChatTyped
<1>6. ChatTyped'
  BY <1>0, <1>2, <1>3, <1>4, <1>5 DEF ChatTyped
<1>7. TurnsPosted' /\ TurnsKnown' /\ LogsEnd' /\ ShownOnce'
  <2>1. TurnsPosted'
    BY <1>0, <1>2, <1>4 DEF TurnsPosted, Unserved
  <2>2. TurnsKnown'
    BY <1>0, <1>4 DEF TurnsKnown, Unserved
  <2>3. \A d \in Chats : StillSpeaks(d)' => StillSpeaks(d)
    BY <1>2 DEF StillSpeaks
  <2>4. LogsEnd'
    BY <1>0, <1>2, <1>4, <2>3 DEF LogsEnd, Unserved, Has
  <2>5. ShownOnce'
    BY <1>0, <1>4 DEF ShownOnce, Unserved, Has, Twice
  <2>6. QED
    BY <2>1, <2>2, <2>4, <2>5
<1>8. StoredOnce'
  <2>1. ~Has(transcript[c], e) /\ Single(transcript[c])
    BY <1>0, <1>2 DEF StoredOnce
  <2>2. ~Twice(Append(transcript[c], e))
    BY <1>5, <2>1, TwiceAppended DEF Single
  <2>3. \A m : Has(Append(transcript[c], e), m) <=> Has(transcript[c], m) \/ m = e
    BY <1>5, HasAppended
  <2>4. \A t \in Sends : e # Pending(t) /\ e # User(t) /\ (Unserved(t) => e # Reply(t))
    BY <1>0, <1>2 DEF Pending, User, Reply, TurnsPosted
  <2>5. Single(Append(transcript[c], e))
    BY <2>1, <2>2, <2>3, <2>4 DEF Single
  <2>6. \A s : Single(s) => Single(s)'
    BY <1>4 DEF Single, Unserved
  <2>7. \A d \in Chats : Single(transcript[d])'
    <3> SUFFICES ASSUME NEW d \in Chats PROVE Single(transcript[d])'
      OBVIOUS
    <3> PICK s : s = transcript'[d]
      OBVIOUS
    <3>1. Single(s)
      BY <1>0, <1>5, <2>5 DEF StoredOnce
    <3>2. Single(s)'
      BY <2>6, <3>1
    <3>3. QED
      BY <3>2
  <2>8. \A d \in Chats : chatTurn'[d].is = "running" => ~Has(transcript'[d], Reply(chatTurn'[d].turn))
    <3> SUFFICES ASSUME NEW d \in Chats, chatTurn'[d].is = "running"
                 PROVE  ~Has(transcript'[d], Reply(chatTurn'[d].turn))
      OBVIOUS
    <3>1. d # c
      BY <1>2
    <3>2. QED
      BY <1>0, <1>2, <1>5, <3>1 DEF StoredOnce
  <2>9. \A i \in LoadIds : Single(loads[i].answer.messages)'
    BY <1>0, <1>4 DEF StoredOnce, Single, Unserved
  <2>10. QED
    BY <2>7, <2>8, <2>9 DEF StoredOnce
<1>9. OnTrack'
  <2>1. \A d \in Chats : /\ chatTurn'[d].turn = chatTurn[d].turn
                         /\ StillSpeaks(d)' => StillSpeaks(d)
                         /\ transcript'[d] = transcript[d] \/ StillSpeaks(d)
    BY <1>2, <1>5 DEF StillSpeaks
  <2>2. QED
    BY <1>0, <1>4, <2>1, ServerTracked
<1>10. QED
  BY <1>6, <1>7, <1>8, <1>9 DEF ChatInv

(* The server announces or records; the transcripts stay.                  *)
LEMMA TurnMoves ==
  ASSUME ChatInv, NEW c \in Chats, NEW from, NEW to \in States, TurnGoes(c, from, to),
         from \notin {"idle", "interrupted"}, to \notin {"idle", "interrupted", "running"},
         (to \in {"stored", "told", "failing"} => from \in {"running", "stored", "told", "failing"}),
         UNCHANGED transcript, UNCHANGEDClient,
         events' = events
           \/ \E e \in {"assistant_message"} \cup Terminals :
                events' = [events EXCEPT ![chatTurn[c].turn] = Append(@, e)]
                /\ (to \in {"stored", "told", "failing"} => e \notin Terminals)
  PROVE  ChatInv'
<1>0. ChatTyped /\ TurnsPosted /\ TurnsKnown /\ LogsEnd /\ StoredOnce /\ ShownOnce /\ OnTrack
  BY DEF ChatInv
<1>2. /\ chatTurn' \in [Chats -> [is : States, turn : SendIds]]
      /\ chatTurn[c].is = from /\ chatTurn'[c].is = to /\ chatTurn[c].turn \in Sends
      /\ \A d \in Chats : chatTurn'[d].turn = chatTurn[d].turn /\ (d # c => chatTurn'[d] = chatTurn[d])
      /\ \A d \in Chats : d # c => chatTurn[d].turn # chatTurn[c].turn
  BY <1>0, TurnGoesOn
<1>3. UNCHANGED <<transcript, selected, shown, seen, following, posts, stops, loads, adrift>>
  BY DEF UNCHANGEDClient
<1> PICK t : t = chatTurn[c].turn
  OBVIOUS
<1>4. events' \in [Sends -> Seq({"assistant_message"} \cup Terminals)] /\ \A u \in Sends : u # t => events'[u] = events[u]
  <2>1. events \in [Sends -> Seq({"assistant_message"} \cup Terminals)] /\ t \in Sends
    BY <1>0, <1>2 DEF ChatTyped
  <2>2. CASE events' = events
    BY <2>1, <2>2
  <2>3. ASSUME NEW e \in {"assistant_message"} \cup Terminals, events' = [events EXCEPT ![t] = Append(@, e)]
        PROVE  /\ events' \in [Sends -> Seq({"assistant_message"} \cup Terminals)]
               /\ \A u \in Sends : u # t => events'[u] = events[u]
    <3>1. Append(events[t], e) \in Seq({"assistant_message"} \cup Terminals)
      BY <2>1
    <3>2. QED
      BY <2>1, <2>3, <3>1
  <2>4. QED
    BY <2>2, <2>3
<1>5. ChatTyped'
  BY <1>0, <1>2, <1>3, <1>4 DEF ChatTyped
<1>6. TurnsPosted' /\ TurnsKnown'
  BY <1>0, <1>2, <1>3 DEF TurnsPosted, TurnsKnown, Unserved
<1>7. PostsGo
  BY <1>3 DEF PostsGo, Unserved
<1>8. \A d \in Chats : chatTurn'[d].is = "running" => chatTurn[d].is = "running" /\ chatTurn'[d].turn = chatTurn[d].turn
  BY <1>2
<1>9. StoredOnce' /\ ShownOnce'
  <2>1. StoredOnce'
    BY <1>0, <1>3, <1>7, <1>8, StoredKept
  <2>2. ShownOnce'
    BY <1>0, <1>3 DEF ShownOnce, Unserved
  <2>3. QED
    BY <2>1, <2>2
<1>10. \A d \in Chats : StillSpeaks(d)' => StillSpeaks(d)
  BY <1>2 DEF StillSpeaks
<1>11. LogsEnd'
  <2>1. ASSUME NEW d \in Chats, StillSpeaks(d)', NEW e \in Terminals PROVE ~Has(events'[chatTurn'[d].turn], e)
    <3>1. StillSpeaks(d) /\ chatTurn'[d].turn = chatTurn[d].turn /\ ~Has(events[chatTurn[d].turn], e)
      BY <1>0, <1>2, <1>10, <2>1 DEF LogsEnd
    <3>2. chatTurn[d].turn \in Sends
      BY <1>0, <3>1 DEF TurnsPosted, StillSpeaks
    <3>3. CASE d # c
      BY <1>2, <1>4, <3>1, <3>2, <3>3
    <3>4. CASE d = c
      <4>1. to \in {"stored", "told", "failing"}
        BY <1>2, <2>1, <3>4 DEF StillSpeaks
      <4>2. CASE events' = events
        BY <3>1, <4>2
      <4>3. ASSUME NEW f \in {"assistant_message"} \cup Terminals, f \notin Terminals,
                   events' = [events EXCEPT ![t] = Append(@, f)]
            PROVE  ~Has(events'[t], e)
        <5>1. events[t] \in Seq({"assistant_message"} \cup Terminals) /\ events'[t] = Append(events[t], f)
          BY <1>0, <1>2, <4>3 DEF ChatTyped
        <5>2. Has(Append(events[t], f), e) <=> Has(events[t], e) \/ e = f
          BY <5>1, HasAppended
        <5>3. QED
          BY <3>1, <3>4, <4>3, <5>1, <5>2
      <4>4. QED
        BY <3>1, <3>4, <4>1, <4>2, <4>3
    <3>5. QED
      BY <3>3, <3>4
  <2>2. ASSUME NEW u \in Sends, Unserved(u)' PROVE events'[u] = <<>>
    <3>1. Unserved(u) /\ u # t
      BY <1>0, <1>2, <1>3, <2>2 DEF Unserved, TurnsPosted
    <3>2. QED
      BY <1>0, <1>4, <3>1 DEF LogsEnd
  <2>3. QED
    BY <2>1, <2>2 DEF LogsEnd
<1>12. OnTrack'
  BY <1>0, <1>2, <1>3, <1>10, ServerTracked
<1>13. QED
  BY <1>5, <1>6, <1>9, <1>11, <1>12 DEF ChatInv

LEMMA ServerMoves ==
  ASSUME ChatInv, NEW c \in Chats,
         StoreReply(c) \/ FailTurn(c) \/ TellReply(c) \/ TellEnd(c) \/ RecordEnd(c) \/ Forget(c)
  PROVE  ChatInv'
<1>1. CASE StoreReply(c)
  BY <1>1, StoreReplyStep DEF StoreReply
<1>2. CASE FailTurn(c)
  <2>1. TurnGoes(c, "running", "failing") /\ UNCHANGED events /\ UNCHANGEDClient
    BY <1>2 DEF FailTurn
  <2>2. CASE Replies(c)
    BY <2>1, <2>2, StoreReplyStep
  <2>3. CASE UNCHANGED transcript
    BY <2>1, <2>3, TurnMoves DEF States
  <2>4. QED
    BY <1>2, <2>2, <2>3 DEF FailTurn
<1>3. CASE TellReply(c)
  <2>1. TurnGoes(c, "stored", "told") /\ UNCHANGED transcript /\ UNCHANGEDClient
        /\ events' = [events EXCEPT ![chatTurn[c].turn] = Append(@, "assistant_message")]
    BY <1>3 DEF TellReply, Announce
  <2>2. "assistant_message" \notin Terminals /\ "told" \in States
    BY DEF Terminals, States
  <2>3. QED
    BY <2>1, <2>2, TurnMoves
<1>4. CASE TellEnd(c)
  <2>1. \E e \in Terminals : events' = [events EXCEPT ![chatTurn[c].turn] = Append(@, e)]
    BY <1>4 DEF TellEnd, Announce, Terminals
  <2>2. TurnGoes(c, "told", "ended") \/ TurnGoes(c, "failing", "ended")
    BY <1>4 DEF TellEnd
  <2>3. UNCHANGED transcript /\ UNCHANGEDClient
    BY <1>4 DEF TellEnd
  <2>4. QED
    BY <2>1, <2>2, <2>3, TurnMoves DEF States
<1>5. CASE RecordEnd(c)
  BY <1>5, TurnMoves DEF RecordEnd, States
<1>6. CASE Forget(c)
  BY <1>6, TurnMoves DEF Forget, States
<1>7. QED
  BY <1>1, <1>2, <1>3, <1>4, <1>5, <1>6

(* A POST is answered, or fails.                                           *)
LEMMA PostMoves ==
  ASSUME ChatTyped, NEW t \in Sends, NEW a \in {"served", "refused", "over"}, posts[t].at # "idle",
         posts' = [posts EXCEPT ![t].at = a]
  PROVE  /\ posts' \in [Sends -> [chat : Chats \cup {NoChat}, at : {"idle", "sent", "served", "refused", "over"}]]
         /\ posts'[t].at = a /\ \A u \in Sends : posts'[u].chat = posts[u].chat
         /\ \A u \in Sends : u # t => posts'[u] = posts[u]
         /\ PostsGo /\ ~(Unserved(t))'
<1>1. posts \in [Sends -> [chat : Chats \cup {NoChat}, at : {"idle", "sent", "served", "refused", "over"}]]
  BY DEF ChatTyped
<1>2. \A u \in Sends : posts'[u] = IF u = t THEN [posts[t] EXCEPT !.at = a] ELSE posts[u]
  BY <1>1
<1>3. /\ posts' \in [Sends -> [chat : Chats \cup {NoChat}, at : {"idle", "sent", "served", "refused", "over"}]]
      /\ posts'[t].at = a /\ \A u \in Sends : posts'[u].chat = posts[u].chat
      /\ \A u \in Sends : u # t => posts'[u] = posts[u]
  BY <1>1, <1>2
<1>4. PostsGo /\ ~(Unserved(t))'
  BY <1>3 DEF PostsGo, Unserved
<1>5. QED
  BY <1>3, <1>4

(* The message of a POST is stored.                                        *)
LEMMA MessageStored ==
  ASSUME ChatTyped, StoredOnce, NEW t \in Sends, Unserved(t), ~(Unserved(t))', PostsGo,
         NEW c \in Chats, transcript' = [transcript EXCEPT ![c] = Append(@, User(t))],
         UNCHANGED loads,
         \A d \in Chats : chatTurn'[d] = chatTurn[d]
                          \/ (d = c /\ chatTurn'[d].turn = t)
  PROVE  StoredOnce' /\ transcript' \in [Chats -> Seq(Messages)]
<1> PICK e : e = User(t)
  OBVIOUS
<1>1. e \in Messages /\ \A u \in Sends : e # Pending(u) /\ e # Reply(u) /\ (u # t => e # User(u))
  BY DEF User, Messages, Pending, Reply
<1>1a. \A u : e # Reply(u)
  BY DEF User, Reply
<1>2. /\ transcript \in [Chats -> Seq(Messages)] /\ transcript[c] \in Seq(Messages)
      /\ transcript'[c] = Append(transcript[c], e) /\ \A d \in Chats : d # c => transcript'[d] = transcript[d]
      /\ transcript' \in [Chats -> Seq(Messages)]
  <2>1. transcript \in [Chats -> Seq(Messages)] /\ Append(transcript[c], e) \in Seq(Messages)
    BY <1>1 DEF ChatTyped
  <2>2. transcript' = [transcript EXCEPT ![c] = Append(transcript[c], e)]
    OBVIOUS
  <2>3. QED
    BY <2>1, <2>2
<1>3. \A m : Has(Append(transcript[c], e), m) <=> Has(transcript[c], m) \/ m = e
  BY <1>2, HasAppended
<1>4. Single(transcript[c]) /\ ~Has(transcript[c], User(t)) /\ ~Has(transcript[c], Reply(t))
  BY DEF StoredOnce, Single
<1>5. ~Twice(Append(transcript[c], e))
  BY <1>2, <1>4, TwiceAppended DEF Single
<1>6. \A u \in Sends : Unserved(u)' => Unserved(u) /\ u # t
  BY DEF PostsGo
<1>7. Single(transcript[c])'
  <2> PICK s : s = Append(transcript[c], e)
    OBVIOUS
  <2>1. Single(s)'
    BY <1>1, <1>3, <1>4, <1>5, <1>6 DEF Single
  <2>2. QED
    BY <1>2, <2>1
<1>8. \A d \in Chats : Single(transcript[d])'
  <2> SUFFICES ASSUME NEW d \in Chats, d # c PROVE Single(transcript[d])'
    BY <1>7
  <2> PICK s : s = transcript[d]
    OBVIOUS
  <2>1. Single(s)'
    BY SingleKept DEF StoredOnce
  <2>2. QED
    BY <1>2, <2>1
<1>9. \A d \in Chats : chatTurn'[d].is = "running" => ~Has(transcript'[d], Reply(chatTurn'[d].turn))
  <2> SUFFICES ASSUME NEW d \in Chats, chatTurn'[d].is = "running"
               PROVE  ~Has(transcript'[d], Reply(chatTurn'[d].turn))
    OBVIOUS
  <2>1. CASE chatTurn'[d] = chatTurn[d]
    <3>1. ~Has(transcript[d], Reply(chatTurn[d].turn))
      BY <2>1 DEF StoredOnce
    <3>2. CASE d # c
      BY <1>2, <2>1, <3>1, <3>2
    <3>3. CASE d = c
      BY <1>1a, <1>2, <1>3, <2>1, <3>1, <3>3
    <3>4. QED
      BY <3>2, <3>3
  <2>2. CASE d = c /\ chatTurn'[d].turn = t
    BY <1>1a, <1>2, <1>3, <1>4, <2>2
  <2>3. QED
    BY <2>1, <2>2
<1>10. \A i \in LoadIds : Single(loads[i].answer.messages)'
  <2> SUFFICES ASSUME NEW i \in LoadIds PROVE Single(loads[i].answer.messages)'
    OBVIOUS
  <2> PICK s : s = loads[i].answer.messages
    OBVIOUS
  <2>1. Single(s)'
    BY SingleKept DEF StoredOnce
  <2>2. QED
    BY <2>1
<1>11. QED
  BY <1>2, <1>8, <1>9, <1>10 DEF StoredOnce

LEMMA ServePostStep == ASSUME ChatInv, NEW t \in Sends, ServePost(t) PROVE ChatInv'
<1>0. ChatTyped /\ TurnsPosted /\ TurnsKnown /\ LogsEnd /\ StoredOnce /\ ShownOnce /\ OnTrack
  BY DEF ChatInv
<1> PICK c : c = posts[t].chat
  OBVIOUS
<1>1. posts[t].at = "sent" /\ c \in Chats /\ UNCHANGED <<selected, shown, seen, following, stops, loads>>
  BY <1>0 DEF ServePost, TurnsKnown
<1> PICK a \in {"served", "refused"} :
      /\ posts' = [posts EXCEPT ![t].at = a]
      /\ \/ a = "refused" /\ UNCHANGED <<serverVars, adrift>>
         \/ /\ transcript' = [transcript EXCEPT ![c] = Append(@, User(t))] /\ UNCHANGED events
            /\ \/ /\ a = "served" /\ chatTurn' = [chatTurn EXCEPT ![c] = [is |-> "running", turn |-> t]]
                  /\ adrift' = adrift
               \/ a = "refused" /\ chatTurn' = chatTurn /\ adrift' = TRUE
  BY DEF ServePost
<1>2. /\ posts' \in [Sends -> [chat : Chats \cup {NoChat}, at : {"idle", "sent", "served", "refused", "over"}]]
      /\ posts'[t].at = a /\ \A u \in Sends : posts'[u].chat = posts[u].chat
      /\ \A u \in Sends : u # t => posts'[u] = posts[u]
      /\ PostsGo /\ ~(Unserved(t))'
  BY <1>0, <1>1, PostMoves
<1>3. Unserved(t)
  BY <1>1 DEF Unserved
<1>4. ShownOnce'
  BY <1>0, <1>1, <1>2, ShownKept DEF ShownOnce
<1>5. TurnsKnown'
  <2>1. \A u \in Sends : posts'[u].at # "idle" => posts[u].at # "idle"
    BY <1>1, <1>2
  <2>2. QED
    BY <1>0, <1>1, <1>2, <2>1 DEF TurnsKnown, PostsGo
<1>6. CASE UNCHANGED <<serverVars, adrift>> /\ a = "refused"
  <2>1. UNCHANGED <<transcript, chatTurn, events, adrift>>
    BY <1>6 DEF serverVars
  <2>2. ChatTyped'
    BY <1>0, <1>1, <1>2, <2>1 DEF ChatTyped
  <2>3. TurnsPosted' /\ LogsEnd' /\ StoredOnce'
    <3>1. \A d \in Chats : StillSpeaks(d)' => StillSpeaks(d) /\ chatTurn'[d].turn = chatTurn[d].turn
      BY <2>1 DEF StillSpeaks
    <3>2. TurnsPosted'
      BY <1>0, <1>2, <2>1, TurnsPostedKept
    <3>3. LogsEnd'
      BY <1>0, <1>2, <2>1, <3>1, LogsKept
    <3>4. /\ StoredOnce /\ PostsGo /\ transcript' = transcript
          /\ \A d \in Chats : chatTurn'[d].is = "running" =>
                              chatTurn[d].is = "running" /\ chatTurn'[d].turn = chatTurn[d].turn
          /\ \A i \in LoadIds : loads'[i].answer.messages = loads[i].answer.messages
      BY <1>0, <1>1, <1>2, <2>1
    <3>5. StoredOnce'
      BY <3>4, StoredKept
    <3>6. QED
      BY <3>2, <3>3, <3>5
  <2>4. OnTrack'
    <3> SUFFICES ASSUME ~adrift PROVE OnTrack'
      BY <2>1 DEF OnTrack
    <3>1. Out(t) /\ PostKept(t) /\ stops = {} /\ \A u \in Sends : Out(u) => u = t
      BY <1>0, <1>1 DEF OnTrack, Out, PostKept
    <3>2. \A u \in Sends : Out(u)' <=> Out(u)
      BY <1>1, <1>2, <1>6 DEF Out
    <3>3. PostKept(t)'
      BY <1>1, <1>2, <1>6, <2>1, <3>1, <3>2 DEF PostKept, Free, Streaming, StillSpeaks
    <3>4. \A u \in Sends : Out(u)' => PostKept(u)'
      BY <3>1, <3>2, <3>3
    <3>5. \A i \in LoadIds : loads[i] = NoLoad
      BY <3>1 DEF PostKept, Free
    <3>6. following = NoStream
      BY <3>1 DEF PostKept, Streaming
    <3>7. QED
      BY <1>1, <2>1, <3>1, <3>2, <3>4, <3>5, <3>6 DEF OnTrack, Free, Streaming, PageQuiet
  <2>5. QED
    BY <1>4, <1>5, <2>2, <2>3, <2>4 DEF ChatInv
<1>7. ASSUME transcript' = [transcript EXCEPT ![c] = Append(@, User(t))], UNCHANGED events,
             \/ /\ a = "served" /\ chatTurn' = [chatTurn EXCEPT ![c] = [is |-> "running", turn |-> t]]
                /\ adrift' = adrift
             \/ a = "refused" /\ chatTurn' = chatTurn /\ adrift' = TRUE
      PROVE  ChatInv'
  <2>1. /\ chatTurn' \in [Chats -> [is : States, turn : SendIds]]
        /\ \A d \in Chats : chatTurn'[d] = chatTurn[d] \/ (d = c /\ a = "served" /\ chatTurn'[d].turn = t)
        /\ a = "served" => chatTurn'[c].turn = t
    <3>1. chatTurn \in [Chats -> [is : States, turn : SendIds]]
      BY <1>0 DEF ChatTyped
    <3>2. [is |-> "running", turn |-> t] \in [is : States, turn : SendIds]
      BY DEF States, SendIds
    <3>3. CASE chatTurn' = chatTurn /\ a = "refused"
      BY <3>1, <3>3
    <3>4. CASE a = "served" /\ chatTurn' = [chatTurn EXCEPT ![c] = [is |-> "running", turn |-> t]]
      BY <1>1, <3>1, <3>2, <3>4
    <3>5. QED
      BY <1>7, <3>3, <3>4
  <2>2. StoredOnce' /\ transcript' \in [Chats -> Seq(Messages)]
    <3>1. /\ ChatTyped /\ StoredOnce /\ Unserved(t) /\ ~(Unserved(t))' /\ PostsGo /\ c \in Chats
          /\ transcript' = [transcript EXCEPT ![c] = Append(@, User(t))] /\ UNCHANGED loads
      BY <1>0, <1>1, <1>2, <1>3, <1>7
    <3>2. \A d \in Chats : chatTurn'[d] = chatTurn[d] \/ (d = c /\ chatTurn'[d].turn = t)
      BY <2>1
    <3>3. QED
      BY <3>1, <3>2, MessageStored
  <2>3. ChatTyped'
    <3>1. adrift' \in BOOLEAN
      BY <1>0, <1>7 DEF ChatTyped
    <3>2. QED
      BY <1>0, <1>1, <1>2, <1>7, <2>1, <2>2, <3>1 DEF ChatTyped
  <2>4. TurnsPosted'
    BY <1>0, <1>1, <1>2, <2>1 DEF TurnsPosted, PostsGo
  <2>5. LogsEnd'
    <3>1. ASSUME NEW d \in Chats, StillSpeaks(d)', NEW e \in Terminals PROVE ~Has(events'[chatTurn'[d].turn], e)
      <4>1. CASE chatTurn'[d] = chatTurn[d]
        BY <1>0, <1>7, <3>1, <4>1 DEF LogsEnd, StillSpeaks
      <4>2. CASE chatTurn'[d].turn = t
        <5>1. events[t] = <<>>
          BY <1>0, <1>3 DEF LogsEnd
        <5>2. QED
          BY <1>7, <4>2, <5>1 DEF Has
      <4>3. QED
        BY <2>1, <4>1, <4>2
    <3>2. \A u \in Sends : Unserved(u)' => events'[u] = <<>>
      BY <1>0, <1>2, <1>7 DEF LogsEnd, PostsGo
    <3>3. QED
      BY <3>1, <3>2 DEF LogsEnd
  <2>6. OnTrack'
    <3> SUFFICES ASSUME ~adrift' PROVE OnTrack'
      BY DEF OnTrack
    <3>1. ~adrift /\ a = "served" /\ chatTurn'[c].turn = t
      BY <1>7, <2>1
    <3>2. PostKept(t) /\ stops = {} /\ \A u \in Sends : Out(u) => u = t
      BY <1>0, <1>1, <3>1 DEF OnTrack, Out, PostKept
    <3>3. \A u \in Sends : Out(u)' <=> Out(u)
      BY <1>1, <1>2, <3>1 DEF Out
    <3>4. PostKept(t)'
      BY <1>1, <1>2, <3>1, <3>2, <3>3 DEF PostKept, Free, Streaming
    <3>5. \A u \in Sends : Out(u)' => PostKept(u)'
      BY <3>2, <3>3, <3>4
    <3>6. (\A i \in LoadIds : loads[i] = NoLoad) /\ following = NoStream
      BY <3>2 DEF PostKept, Free, Streaming
    <3>7. Out(t)'
      BY <1>2, <3>1 DEF Out
    <3>8. QED
      BY <1>1, <3>2, <3>5, <3>6, <3>7 DEF OnTrack, Free, Streaming, PageQuiet
  <2>7. QED
    BY <1>4, <1>5, <2>2, <2>3, <2>4, <2>5, <2>6 DEF ChatInv
<1>8. QED
  BY <1>6, <1>7

LEMMA ServerDiesStep == ASSUME ChatInv, ServerDies PROVE ChatInv'
<1>0. ChatTyped /\ TurnsPosted /\ TurnsKnown /\ LogsEnd /\ StoredOnce /\ ShownOnce /\ OnTrack
  BY DEF ChatInv
<1>1. /\ chatTurn' = [c \in Chats |-> IF Runs(c) THEN [chatTurn[c] EXCEPT !.is = "interrupted"]
                                      ELSE IF Kept(c) THEN [chatTurn[c] EXCEPT !.is = "over"] ELSE chatTurn[c]]
      /\ following' = NoStream /\ adrift' = TRUE
      /\ posts' = [t \in Sends |-> IF posts[t].at = "sent" THEN [posts[t] EXCEPT !.at = "refused"] ELSE posts[t]]
      /\ UNCHANGED <<transcript, events, selected, shown, seen, stops, loads>>
  BY DEF ServerDies
<1>2. \A c \in Chats : /\ chatTurn'[c] \in [is : States, turn : SendIds] /\ chatTurn'[c].turn = chatTurn[c].turn
                       /\ chatTurn'[c].is = IF Runs(c) THEN "interrupted" ELSE IF Kept(c) THEN "over"
                                            ELSE chatTurn[c].is
  <2> SUFFICES ASSUME NEW c \in Chats
               PROVE  /\ chatTurn'[c] \in [is : States, turn : SendIds] /\ chatTurn'[c].turn = chatTurn[c].turn
                      /\ chatTurn'[c].is = IF Runs(c) THEN "interrupted" ELSE IF Kept(c) THEN "over"
                                           ELSE chatTurn[c].is
    OBVIOUS
  <2>1. chatTurn[c] \in [is : States, turn : SendIds] /\ "interrupted" \in States /\ "over" \in States
    BY <1>0 DEF ChatTyped, States
  <2>2. chatTurn'[c] = IF Runs(c) THEN [chatTurn[c] EXCEPT !.is = "interrupted"]
                       ELSE IF Kept(c) THEN [chatTurn[c] EXCEPT !.is = "over"] ELSE chatTurn[c]
    BY <1>1
  <2>3. QED
    BY <2>1, <2>2
<1>3. \A t \in Sends : /\ posts'[t] \in [chat : Chats \cup {NoChat}, at : {"idle", "sent", "served", "refused", "over"}]
                       /\ posts'[t].chat = posts[t].chat
                       /\ posts'[t].at = IF posts[t].at = "sent" THEN "refused" ELSE posts[t].at
  BY <1>0, <1>1 DEF ChatTyped
<1>4. PostsGo
  BY <1>3 DEF PostsGo, Unserved
<1>5. ChatTyped'
  <2>1. NoStream \in [chat : Chats \cup {NoChat}, turn : SendIds, next : Nat \ {0}]
    BY DEF NoStream, SendIds
  <2>2. QED
    BY <1>0, <1>1, <1>2, <1>3, <2>1 DEF ChatTyped
<1>6. TurnsPosted'
  BY <1>0, <1>2, <1>3, <1>4 DEF TurnsPosted, PostsGo, Runs, Kept
<1>7. TurnsKnown'
  BY <1>0, <1>1, <1>3, <1>4, ChatAssumption DEF TurnsKnown, PostsGo, NoStream
<1>8. \A c \in Chats : ~(StillSpeaks(c)')
  BY <1>2 DEF StillSpeaks, Runs, Kept
<1>9. LogsEnd' /\ StoredOnce' /\ ShownOnce'
  <2>1. LogsEnd'
    BY <1>0, <1>1, <1>4, <1>8, LogsKept
  <2>2. \A c \in Chats : chatTurn'[c].is # "running"
    BY <1>2 DEF Runs, Kept
  <2>3. StoredOnce'
    BY <1>0, <1>1, <1>4, <2>2, StoredKept
  <2>4. ShownOnce'
    <3>1. \A t \in Sends : Has(shown, Pending(t)) => posts'[t].at \notin {"idle", "over"}
      BY <1>0, <1>3 DEF ShownOnce
    <3>2. QED
      BY <1>0, <1>1, <1>4, <3>1, ShownKept
  <2>5. QED
    BY <2>1, <2>3, <2>4
<1>10. OnTrack'
  BY <1>1 DEF OnTrack
<1>11. QED
  BY <1>5, <1>6, <1>7, <1>9, <1>10 DEF ChatInv

(* The page's steps leave what the server keeps.                           *)
LEMMA ServerStays ==
  ASSUME ChatInv, UNCHANGED serverVars, PostsGo,
         \A i \in LoadIds : \/ loads'[i].answer.messages = <<>>
                            \/ loads'[i].answer.messages = loads[i].answer.messages
                            \/ \E c \in Chats : loads'[i].answer.messages = transcript[c]
  PROVE  TurnsPosted' /\ LogsEnd' /\ StoredOnce'
<1>1. /\ UNCHANGED <<transcript, chatTurn, events>>
      /\ TurnsPosted /\ LogsEnd /\ StoredOnce
  BY DEF serverVars, ChatInv
<1>2. \A c \in Chats : StillSpeaks(c)' => StillSpeaks(c) /\ chatTurn'[c].turn = chatTurn[c].turn
  BY <1>1 DEF StillSpeaks
<1>3. \A c \in Chats : chatTurn'[c].is = "running" =>
                         chatTurn[c].is = "running" /\ chatTurn'[c].turn = chatTurn[c].turn
  BY <1>1
<1>4. TurnsPosted'
  BY <1>1, TurnsPostedKept
<1>5. LogsEnd'
  BY <1>1, <1>2, LogsKept
<1>6. StoredOnce'
  BY <1>1, <1>3, StoredKept
<1>7. QED
  BY <1>4, <1>5, <1>6

LEMMA NothingIsSingle == Single(<<>>)
  BY DEF Single, Twice, Has

LEMMA ServeLoadStep == ASSUME ChatInv, NEW i \in LoadIds, ServeLoad(i) PROVE ChatInv'
<1>0. ChatTyped /\ TurnsPosted /\ TurnsKnown /\ LogsEnd /\ StoredOnce /\ ShownOnce /\ OnTrack
  BY DEF ChatInv
<1> PICK c : c = loads[i].chat
  OBVIOUS
<1>1. loads[i].at = "sent" /\ UNCHANGED <<serverVars, selected, shown, seen, following, posts, stops, adrift>>
  BY DEF ServeLoad
<1>2. c \in Chats /\ ~Free(i)
  BY <1>0, <1>1 DEF TurnsKnown, Free, NoLoad
<1> PICK n : n = [messages |-> transcript[c], status |-> StatusOf(c), turn |-> chatTurn[c].turn]
  OBVIOUS
<1>3. n \in Answers /\ n.messages = transcript[c] /\ n.status = StatusOf(c) /\ n.turn = chatTurn[c].turn
  BY <1>0, <1>2 DEF Answers, StatusOf, States, ChatTyped
<1>4. loads \in [LoadIds -> Loads] /\ loads' = [loads EXCEPT ![i].at = "served", ![i].answer = n]
  BY <1>0 DEF ServeLoad, ChatTyped
<1>5. /\ loads' \in [LoadIds -> Loads] /\ loads'[i].at = "served" /\ loads'[i].answer = n
      /\ loads'[i].chat = c /\ loads'[i].opens = loads[i].opens
      /\ \A j \in LoadIds : j # i => loads'[j] = loads[j]
  <2>1. loads[i] \in Loads
    BY <1>4
  <2> PICK l : l = [loads[i] EXCEPT !.at = "served", !.answer = n]
    OBVIOUS
  <2>2. l \in Loads /\ l.at = "served" /\ l.answer = n /\ l.chat = c /\ l.opens = loads[i].opens
    BY <1>3, <2>1 DEF Loads
  <2>3. loads' = [loads EXCEPT ![i] = l]
    BY <1>4
  <2>4. QED
    BY <1>4, <2>2, <2>3
<1>6. PostsGo /\ UNCHANGED <<transcript, chatTurn, events>>
  BY <1>1 DEF PostsGo, Unserved, serverVars
<1>7. ChatTyped'
  BY <1>0, <1>1, <1>5, <1>6 DEF ChatTyped
<1>8. TurnsPosted' /\ LogsEnd' /\ StoredOnce'
  BY <1>1, <1>2, <1>3, <1>5, <1>6, ServerStays
<1>9. TurnsKnown'
  <2>1. \A j \in LoadIds : loads'[j].answer.turn \in Sends => ~Unserved(loads'[j].answer.turn)
    BY <1>0, <1>2, <1>3, <1>5 DEF TurnsKnown, TurnsPosted
  <2>2. \A j \in LoadIds : loads'[j] # NoLoad => loads'[j].chat \in Chats
    BY <1>0, <1>2, <1>5 DEF TurnsKnown
  <2>3. QED
    BY <1>0, <1>1, <2>1, <2>2 DEF TurnsKnown, Unserved
<1>10. ShownOnce'
  BY <1>0, <1>1 DEF ShownOnce, Unserved
<1>11. OnTrack'
  <2> SUFFICES ASSUME ~adrift PROVE OnTrack'
    BY <1>1 DEF OnTrack
  <2>1. LoadKept(i) /\ stops = {}
    BY <1>0, <1>2 DEF OnTrack
  <2>2. \A j \in LoadIds : Free(j)' <=> Free(j)
    <3>1. ~(Free(i))'
      <4>1. NoLoad.at = "free"
        BY DEF NoLoad
      <4>2. QED
        BY <1>5, <4>1 DEF Free
    <3>2. \A j \in LoadIds : j # i => (Free(j)' <=> Free(j))
      BY <1>5 DEF Free
    <3>3. QED
      BY <1>2, <3>1, <3>2
  <2>3. /\ c = selected /\ selected # NoChat /\ ~Streaming
        /\ \A j \in LoadIds : ~Free(j) => j = i
        /\ ~loads[i].opens => ~StillSpeaks(selected)
    BY <2>1 DEF LoadKept
  <2>5. n.status # "running" => ~StillSpeaks(c)
    BY <1>3 DEF StatusOf, Runs, StillSpeaks
  <2>6. LoadKept(i)'
    <3>1. loads'[i].answer.turn = chatTurn'[selected'].turn
      BY <1>1, <1>3, <1>5, <1>6, <2>3
    <3>2. ~(Follows(i))' => loads'[i].answer.messages = transcript'[selected'] /\ ~(StillSpeaks(selected))'
      BY <1>1, <1>3, <1>5, <1>6, <2>3, <2>5 DEF StillSpeaks, Follows
    <3>3. ~loads'[i].opens => ~(StillSpeaks(selected))'
      BY <1>1, <1>5, <1>6, <2>3 DEF StillSpeaks
    <3>4. ~(Streaming)' /\ loads'[i].chat = selected' /\ selected' # NoChat
      BY <1>1, <1>5, <2>3 DEF Streaming
    <3>5. QED
      BY <2>2, <2>3, <3>1, <3>2, <3>3, <3>4 DEF LoadKept, AsStored
  <2>7. \A t \in Sends : ~(Out(t))'
    BY <1>0, <1>1, <1>2 DEF OnTrack, PostKept, Out
  <2>8. \A j \in LoadIds : ~(Free(j))' => j = i
    BY <2>2, <2>3
  <2>9. ~(Streaming)' /\ ~(PageQuiet)' /\ stops' = {}
    BY <1>1, <1>2, <2>1, <2>2, <2>3 DEF Streaming, PageQuiet
  <2>10. QED
    BY <2>6, <2>7, <2>8, <2>9 DEF OnTrack
<1>12. QED
  BY <1>7, <1>8, <1>9, <1>10, <1>11 DEF ChatInv

(* A load is answered, and its place is free again.                        *)
LEMMA LoadAnswered ==
  ASSUME ChatTyped, NEW i \in LoadIds, Answered(i)
  PROVE  /\ loads' \in [LoadIds -> Loads] /\ loads'[i] = NoLoad
         /\ loads'[i].answer.messages = <<>> /\ loads'[i].answer.turn = NoSend
         /\ \A j \in LoadIds : j # i => loads'[j] = loads[j]
<1>1. NoAnswer \in Answers /\ NoAnswer.messages = <<>> /\ NoAnswer.turn = NoSend
  BY DEF NoAnswer, Answers, States, SendIds
<1>2. NoLoad \in Loads /\ NoLoad.answer = NoAnswer
  BY <1>1 DEF NoLoad, Loads
<1>3. loads \in [LoadIds -> Loads] /\ loads' = [loads EXCEPT ![i] = NoLoad]
  BY DEF ChatTyped, Answered
<1>4. QED
  BY <1>1, <1>2, <1>3

LEMMA ShowLoadedStep == ASSUME ChatInv, NEW i \in LoadIds, ShowLoaded(i) PROVE ChatInv'
<1>0. ChatTyped /\ TurnsPosted /\ TurnsKnown /\ LogsEnd /\ StoredOnce /\ ShownOnce /\ OnTrack
  BY DEF ChatInv
<1> PICK n : n = loads[i].answer
  OBVIOUS
<1>1. /\ loads[i].at = "served" /\ Answered(i) /\ shown' = n.messages /\ seen' = n.status
      /\ following' = IF loads[i].opens /\ n.status = "running"
                      THEN [chat |-> loads[i].chat, turn |-> n.turn, next |-> 1] ELSE following
      /\ UNCHANGED <<serverVars, selected, posts, stops, adrift>>
  BY DEF ShowLoaded
<1>2. loads[i] \in Loads /\ n \in Answers
  BY <1>0 DEF ChatTyped, Loads
<1>3. ~Free(i) /\ loads[i].chat \in Chats
  <2>1. NoLoad.at = "free"
    BY DEF NoLoad
  <2>2. QED
    BY <1>0, <1>1, <2>1 DEF TurnsKnown, Free
<1>4. /\ loads' \in [LoadIds -> Loads] /\ loads'[i] = NoLoad
      /\ loads'[i].answer.messages = <<>> /\ loads'[i].answer.turn = NoSend
      /\ \A j \in LoadIds : j # i => loads'[j] = loads[j]
  BY <1>0, <1>1, LoadAnswered
<1>5. PostsGo /\ UNCHANGED <<transcript, chatTurn, events>>
  BY <1>1 DEF PostsGo, Unserved, serverVars
<1> PICK f : f = [chat |-> loads[i].chat, turn |-> n.turn, next |-> 1]
  OBVIOUS
<1>6. /\ f \in [chat : Chats \cup {NoChat}, turn : SendIds, next : Nat \ {0}]
      /\ f.chat = loads[i].chat /\ f.turn = n.turn
  BY <1>2, <1>3 DEF Answers
<1>7. following' = f \/ following' = following
  BY <1>1
<1>8. ChatTyped'
  <2>1. shown' \in Seq(Messages) /\ seen' \in States
    BY <1>1, <1>2 DEF Answers
  <2>2. following' \in [chat : Chats \cup {NoChat}, turn : SendIds, next : Nat \ {0}]
    BY <1>0, <1>6, <1>7 DEF ChatTyped
  <2>3. QED
    BY <1>0, <1>1, <1>4, <1>5, <2>1, <2>2 DEF ChatTyped
<1>9. TurnsPosted' /\ LogsEnd' /\ StoredOnce'
  <2>1. \A j \in LoadIds : \/ loads'[j].answer.messages = <<>>
                           \/ loads'[j].answer.messages = loads[j].answer.messages
    BY <1>4
  <2>2. QED
    BY <1>1, <1>5, <2>1, ServerStays
<1>10. TurnsKnown'
  <2>1. following'.turn \in Sends => ~Unserved(following'.turn)
    BY <1>0, <1>6, <1>7 DEF TurnsKnown
  <2>2. following' # NoStream => following'.chat \in Chats
    BY <1>0, <1>3, <1>6, <1>7 DEF TurnsKnown
  <2>3. \A j \in LoadIds : /\ loads'[j].answer.turn \in Sends => ~Unserved(loads'[j].answer.turn)
                           /\ loads'[j] # NoLoad => loads'[j].chat \in Chats
    BY <1>0, <1>4, ChatAssumption DEF TurnsKnown
  <2>4. QED
    BY <1>0, <1>1, <2>1, <2>2, <2>3 DEF TurnsKnown, Unserved
<1>11. ShownOnce'
  <2>1. Single(n.messages)
    BY <1>0 DEF StoredOnce
  <2>2. QED
    BY <1>1, <1>5, <2>1, ShownLoaded
<1>12. OnTrack'
  <2> SUFFICES ASSUME ~adrift PROVE OnTrack'
    BY <1>1 DEF OnTrack
  <2>1. LoadKept(i) /\ stops = {}
    BY <1>0, <1>3 DEF OnTrack
  <2>2. /\ loads[i].chat = selected /\ selected # NoChat /\ ~Streaming
        /\ \A j \in LoadIds : ~Free(j) => j = i
        /\ n.turn = chatTurn[selected].turn
        /\ ~Follows(i) => AsStored(n.messages)
    BY <1>1, <2>1 DEF LoadKept
  <2>3. \A j \in LoadIds : Free(j)'
    BY <1>4, <2>2 DEF Free
  <2>4. \A t \in Sends : ~(Out(t))'
    BY <1>0, <1>1, <1>3 DEF OnTrack, PostKept, Out
  <2>5. CASE Follows(i)
    <3>1. following' = f
      BY <1>1, <2>5 DEF Follows
    <3>2. Streaming'
      <4>1. NoStream.chat = NoChat
        BY DEF NoStream
      <4>2. QED
        BY <1>6, <2>2, <3>1, <4>1 DEF Streaming
    <3>3. StreamKept'
      BY <1>1, <1>5, <1>6, <2>2, <3>1 DEF StreamKept
    <3>4. QED
      BY <1>1, <2>1, <2>3, <2>4, <3>2, <3>3 DEF OnTrack, PageQuiet
  <2>6. CASE ~Follows(i)
    <3>1. ~(Streaming)'
      BY <1>1, <2>2, <2>6 DEF Streaming, Follows
    <3>2. AsStored(shown)'
      BY <1>1, <1>5, <2>2, <2>6 DEF AsStored, StillSpeaks
    <3>3. QED
      BY <1>1, <2>1, <2>3, <2>4, <3>1, <3>2 DEF OnTrack
  <2>7. QED
    BY <2>5, <2>6
<1>13. QED
  BY <1>8, <1>9, <1>10, <1>11, <1>12 DEF ChatInv

LEMMA LoadFailsStep == ASSUME ChatInv, NEW i \in LoadIds, LoadFails(i) PROVE ChatInv'
<1>0. ChatTyped /\ TurnsPosted /\ TurnsKnown /\ LogsEnd /\ StoredOnce /\ ShownOnce /\ OnTrack
  BY DEF ChatInv
<1>1. /\ Answered(i) /\ shown' = <<>> /\ seen' = "idle" /\ adrift' = TRUE
      /\ UNCHANGED <<serverVars, selected, following, posts, stops>>
  BY DEF LoadFails
<1>2. /\ loads' \in [LoadIds -> Loads] /\ loads'[i] = NoLoad
      /\ loads'[i].answer.messages = <<>> /\ loads'[i].answer.turn = NoSend
      /\ \A j \in LoadIds : j # i => loads'[j] = loads[j]
  BY <1>0, <1>1, LoadAnswered
<1>3. PostsGo /\ UNCHANGED <<transcript, chatTurn, events>>
  BY <1>1 DEF PostsGo, Unserved, serverVars
<1>4. ChatTyped'
  BY <1>0, <1>1, <1>2, <1>3 DEF ChatTyped, States
<1>5. TurnsPosted' /\ LogsEnd' /\ StoredOnce'
  <2>1. \A j \in LoadIds : \/ loads'[j].answer.messages = <<>>
                           \/ loads'[j].answer.messages = loads[j].answer.messages
    BY <1>2
  <2>2. QED
    BY <1>1, <1>3, <2>1, ServerStays
<1>6. TurnsKnown'
  <2>1. \A j \in LoadIds : /\ loads'[j].answer.turn \in Sends => ~Unserved(loads'[j].answer.turn)
                           /\ loads'[j] # NoLoad => loads'[j].chat \in Chats
    BY <1>0, <1>2, ChatAssumption DEF TurnsKnown
  <2>2. QED
    BY <1>0, <1>1, <2>1 DEF TurnsKnown, Unserved
<1>7. ShownOnce'
  BY <1>1, <1>3, NothingIsSingle, ShownLoaded
<1>8. OnTrack'
  BY <1>1 DEF OnTrack
<1>9. QED
  BY <1>4, <1>5, <1>6, <1>7, <1>8 DEF ChatInv

(* A load begins; the server and the POSTs stay.                           *)
LEMMA LoadSent ==
  ASSUME ChatInv, MayLoad, NEW c \in Chats, NEW opens \in BOOLEAN, Load(c, opens),
         UNCHANGED serverVars, UNCHANGED posts,
         following' = NoStream \/ following' = following,
         NEW i, i \in LoadIds, NEW l \in Loads, Free(i), l # NoLoad, l.chat = c, l.answer = NoAnswer,
         loads' = [loads EXCEPT ![i] = l]
  PROVE  /\ loads' \in [LoadIds -> Loads] /\ loads'[i] = l /\ \A j \in LoadIds : j # i => loads'[j] = loads[j]
         /\ TurnsPosted' /\ LogsEnd' /\ StoredOnce' /\ TurnsKnown'
         /\ following' \in [chat : Chats \cup {NoChat}, turn : SendIds, next : Nat \ {0}]
<1>0. ChatTyped /\ TurnsKnown
  BY DEF ChatInv
<1>1. PostsGo
  BY DEF PostsGo, Unserved
<1>2. NoAnswer.messages = <<>> /\ NoAnswer.turn = NoSend
  BY DEF NoAnswer
<1>3. loads' \in [LoadIds -> Loads] /\ loads'[i] = l /\ \A j \in LoadIds : j # i => loads'[j] = loads[j]
  BY <1>0 DEF ChatTyped
<1>4. TurnsPosted' /\ LogsEnd' /\ StoredOnce'
  <2>1. \A j \in LoadIds : \/ loads'[j].answer.messages = <<>>
                           \/ loads'[j].answer.messages = loads[j].answer.messages
    BY <1>2, <1>3
  <2>2. QED
    BY <1>1, <2>1, ServerStays
<1>5. TurnsKnown'
  <2>1. \A j \in LoadIds : /\ loads'[j].answer.turn \in Sends => ~Unserved(loads'[j].answer.turn)
                           /\ loads'[j] # NoLoad => loads'[j].chat \in Chats
    BY <1>0, <1>2, <1>3, ChatAssumption DEF TurnsKnown
  <2>2. NoStream.turn = NoSend
    BY DEF NoStream
  <2>3. /\ following'.turn \in Sends => ~Unserved(following'.turn)
        /\ following' # NoStream => following'.chat \in Chats
    BY <1>0, <2>2, ChatAssumption DEF TurnsKnown
  <2>4. QED
    BY <1>0, <2>1, <2>3 DEF TurnsKnown, Unserved
<1>6. following' \in [chat : Chats \cup {NoChat}, turn : SendIds, next : Nat \ {0}]
  <2>1. NoStream \in [chat : Chats \cup {NoChat}, turn : SendIds, next : Nat \ {0}]
    BY DEF NoStream, SendIds
  <2>2. QED
    BY <1>0, <2>1 DEF ChatTyped
<1>7. QED
  BY <1>3, <1>4, <1>5, <1>6

LEMMA ShownStays == ASSUME ChatInv, UNCHANGED <<shown, posts>> PROVE ShownOnce'
  BY DEF ChatInv, ShownOnce, Unserved

LEMMA SelectStep == ASSUME ChatInv, NEW c \in Chats \cup {NoChat}, Select(c) PROVE ChatInv'
<1>0. ChatTyped /\ TurnsPosted /\ TurnsKnown /\ LogsEnd /\ StoredOnce /\ ShownOnce /\ OnTrack
  BY DEF ChatInv
<1>1. /\ c # selected /\ selected' = c /\ following' = NoStream /\ adrift' = Waiting
      /\ UNCHANGED <<serverVars, posts, stops>>
  BY DEF Select
<1>2. UNCHANGED <<transcript, chatTurn, events>> /\ PostsGo /\ adrift' \in BOOLEAN
  BY <1>1 DEF serverVars, PostsGo, Unserved, Waiting
<1>3. ~adrift' => stops' = {} /\ (\A t \in Sends : ~(Out(t))') /\ \A i \in LoadIds : Free(i)
  BY <1>1 DEF Waiting, Out, Free
<1>4. ~(Streaming)'
  BY <1>1 DEF Streaming
<1>5. CASE c = NoChat
  <2>1. shown' = <<>> /\ seen' = "idle" /\ loads' = loads
    BY <1>5 DEF Select
  <2>2. ChatTyped'
    <3>1. NoStream \in [chat : Chats \cup {NoChat}, turn : SendIds, next : Nat \ {0}]
      BY DEF NoStream, SendIds
    <3>2. QED
      BY <1>0, <1>1, <1>2, <2>1, <3>1 DEF ChatTyped, States
  <2>3. TurnsPosted' /\ LogsEnd' /\ StoredOnce'
    BY <1>1, <1>2, <2>1, ServerStays
  <2>4. TurnsKnown'
    <3>1. NoStream.turn = NoSend
      BY DEF NoStream
    <3>2. QED
      BY <1>0, <1>1, <2>1, <3>1, ChatAssumption DEF TurnsKnown, Unserved
  <2>5. ShownOnce'
    BY <1>2, <2>1, NothingIsSingle, ShownLoaded
  <2>6. OnTrack'
    <3>1. ~adrift' => \A i \in LoadIds : Free(i)'
      BY <1>3, <2>1 DEF Free
    <3>2. QED
      BY <1>1, <1>3, <1>4, <1>5, <3>1 DEF OnTrack
  <2>7. QED
    BY <2>2, <2>3, <2>4, <2>5, <2>6 DEF ChatInv
<1>6. CASE c # NoChat
  <2>1. c \in Chats /\ MayLoad /\ Load(c, TRUE) /\ UNCHANGED <<shown, seen>>
    BY <1>6 DEF Select
  <2> PICK i \in LoadIds, l \in Loads :
        /\ Free(i) /\ l # NoLoad
        /\ l.chat = c /\ l.opens = TRUE /\ l.at = "sent" /\ l.answer = NoAnswer
        /\ loads' = [loads EXCEPT ![i] = l]
    BY <1>0, <2>1, LoadBegins
  <2>2. /\ loads' \in [LoadIds -> Loads] /\ loads'[i] = l /\ \A j \in LoadIds : j # i => loads'[j] = loads[j]
        /\ TurnsPosted' /\ LogsEnd' /\ StoredOnce' /\ TurnsKnown'
        /\ following' \in [chat : Chats \cup {NoChat}, turn : SendIds, next : Nat \ {0}]
    BY <1>1, <2>1, LoadSent
  <2>3. ChatTyped'
    BY <1>0, <1>1, <1>2, <2>1, <2>2 DEF ChatTyped
  <2>4. ShownOnce'
    BY <1>1, <2>1, ShownStays
  <2>5. OnTrack'
    <3> SUFFICES ASSUME ~adrift' PROVE OnTrack'
      BY DEF OnTrack
    <3>1. \A j \in LoadIds : ~(Free(j))' <=> j = i
      BY <1>3, <2>2 DEF Free
    <3>2. LoadKept(i)'
      BY <1>1, <1>4, <1>6, <2>2, <3>1 DEF LoadKept
    <3>3. ~(PageQuiet)'
      BY <3>1 DEF PageQuiet
    <3>4. \A j \in LoadIds : ~(Free(j))' => j = i
      BY <3>1
    <3>5. QED
      BY <1>3, <1>4, <3>2, <3>3, <3>4 DEF OnTrack
  <2>6. QED
    BY <2>2, <2>3, <2>4, <2>5 DEF ChatInv
<1>7. QED
  BY <1>5, <1>6

(* The event that ends a turn is read after the turn's last message was    *)
(* stored, though its status may still be "running".                       *)
LEMMA EndIsHeardLate ==
  ASSUME ChatInv, HasEvent, NextEvent \in Terminals, StreamKept
  PROVE  ~StillSpeaks(selected)
<1>0. ChatTyped /\ TurnsPosted /\ LogsEnd
  BY DEF ChatInv
<1>1. selected \in Chats /\ following.turn = chatTurn[selected].turn
  BY <1>0 DEF ChatTyped, StreamKept
<1> SUFFICES ASSUME StillSpeaks(selected) PROVE FALSE
  OBVIOUS
<1>2. chatTurn[selected].turn \in Sends
  BY <1>0, <1>1 DEF TurnsPosted, StillSpeaks
<1> PICK s : s = events[following.turn]
  OBVIOUS
<1>3. s \in Seq({"assistant_message"} \cup Terminals) /\ following.next \in Nat \ {0}
  BY <1>0, <1>1, <1>2 DEF ChatTyped
<1>4. following.next <= Len(s) /\ s[following.next] \in Terminals
  BY DEF HasEvent, NextEvent
<1>5. following.next \in DOMAIN s
  BY <1>3, <1>4
<1>6. Has(s, s[following.next])
  BY <1>5 DEF Has
<1>7. QED
  BY <1>0, <1>1, <1>4, <1>6 DEF LogsEnd

LEMMA HearEndStep == ASSUME ChatInv, HearEnd PROVE ChatInv'
<1>0. ChatTyped /\ TurnsPosted /\ TurnsKnown /\ LogsEnd /\ StoredOnce /\ ShownOnce /\ OnTrack
  BY DEF ChatInv
<1> PICK c : c = following.chat
  OBVIOUS
<1>1. /\ HasEvent /\ NextEvent \in Terminals /\ MayLoad /\ Load(c, FALSE) /\ following' = NoStream
      /\ UNCHANGED <<serverVars, selected, shown, seen, posts, stops, adrift>>
  BY DEF HearEnd, Terminals
<1>2. Streaming /\ c \in Chats
  BY <1>0, <1>1 DEF HasEvent, Streaming, TurnsKnown
<1> PICK i \in LoadIds, l \in Loads :
      /\ Free(i) /\ l # NoLoad
      /\ l.chat = c /\ l.opens = FALSE /\ l.at = "sent" /\ l.answer = NoAnswer
      /\ loads' = [loads EXCEPT ![i] = l]
  BY <1>0, <1>1, <1>2, LoadBegins
<1>3. /\ loads' \in [LoadIds -> Loads] /\ loads'[i] = l /\ \A j \in LoadIds : j # i => loads'[j] = loads[j]
      /\ TurnsPosted' /\ LogsEnd' /\ StoredOnce' /\ TurnsKnown'
      /\ following' \in [chat : Chats \cup {NoChat}, turn : SendIds, next : Nat \ {0}]
  BY <1>1, <1>2, LoadSent
<1>4. UNCHANGED <<transcript, chatTurn, events>>
  BY <1>1 DEF serverVars
<1>5. ChatTyped'
  BY <1>0, <1>1, <1>3, <1>4 DEF ChatTyped
<1>6. ShownOnce'
  BY <1>1, ShownStays
<1>7. OnTrack'
  <2> SUFFICES ASSUME ~adrift PROVE OnTrack'
    BY <1>1 DEF OnTrack
  <2>1. /\ StreamKept /\ stops = {} /\ \A t \in Sends : ~Out(t)
        /\ \A j \in LoadIds : Free(j)
    BY <1>0, <1>2 DEF OnTrack, PostKept, LoadKept
  <2>2. ~StillSpeaks(selected)
    BY <1>1, <2>1, EndIsHeardLate
  <2>3. c = selected /\ selected # NoChat
    BY <2>1 DEF StreamKept
  <2>4. \A j \in LoadIds : ~(Free(j))' <=> j = i
    BY <1>3, <2>1 DEF Free
  <2>5. ~(Streaming)'
    BY <1>1 DEF Streaming
  <2>6. LoadKept(i)'
    <3>2. ~(StillSpeaks(selected))'
      BY <1>1, <1>4, <2>2 DEF StillSpeaks
    <3>3. QED
      BY <1>1, <1>3, <2>3, <2>4, <2>5, <3>2 DEF LoadKept
  <2>7. ~(PageQuiet)'
    BY <2>4 DEF PageQuiet
  <2>8. \A t \in Sends : ~(Out(t))'
    BY <1>1, <2>1 DEF Out
  <2>9. \A j \in LoadIds : ~(Free(j))' => LoadKept(j)'
    BY <2>4, <2>6
  <2>10. QED
    BY <1>1, <2>1, <2>5, <2>7, <2>8, <2>9 DEF OnTrack
<1>8. QED
  BY <1>3, <1>5, <1>6, <1>7 DEF ChatInv

LEMMA StopAnsweredStep == ASSUME ChatInv, NEW c \in Chats, StopAnswered(c) PROVE ChatInv'
<1>0. ChatTyped /\ TurnsPosted /\ TurnsKnown /\ LogsEnd /\ StoredOnce /\ ShownOnce /\ OnTrack
  BY DEF ChatInv
<1>1. /\ c \in stops /\ MayLoad /\ stops' = stops \ {c} /\ Load(c, FALSE)
      /\ UNCHANGED <<serverVars, selected, shown, seen, following, posts, adrift>>
  BY DEF StopAnswered
<1> PICK i \in LoadIds, l \in Loads :
      /\ Free(i) /\ l # NoLoad
      /\ l.chat = c /\ l.opens = FALSE /\ l.at = "sent" /\ l.answer = NoAnswer
      /\ loads' = [loads EXCEPT ![i] = l]
  BY <1>0, <1>1, LoadBegins
<1>2. /\ loads' \in [LoadIds -> Loads]
      /\ TurnsPosted' /\ LogsEnd' /\ StoredOnce' /\ TurnsKnown'
  BY <1>1, LoadSent
<1>3. UNCHANGED <<transcript, chatTurn, events>>
  BY <1>1 DEF serverVars
<1>4. ChatTyped'
  BY <1>0, <1>1, <1>2, <1>3 DEF ChatTyped
<1>5. ShownOnce'
  BY <1>1, ShownStays
<1>6. OnTrack'
  BY <1>0, <1>1 DEF OnTrack
<1>7. QED
  BY <1>2, <1>4, <1>5, <1>6 DEF ChatInv

(* The stream is lost, or closed by the user.                              *)
LEMMA StreamCloses ==
  ASSUME ChatInv, following' = NoStream, adrift' = TRUE, stops' \subseteq Chats,
         UNCHANGED <<serverVars, selected, shown, seen, posts, loads>>
  PROVE  ChatInv'
<1>0. ChatTyped /\ TurnsKnown
  BY DEF ChatInv
<1>1. UNCHANGED <<transcript, chatTurn, events>> /\ PostsGo
  BY DEF serverVars, PostsGo, Unserved
<1>2. NoStream \in [chat : Chats \cup {NoChat}, turn : SendIds, next : Nat \ {0}] /\ NoStream.turn = NoSend
  BY DEF NoStream, SendIds
<1>3. ChatTyped'
  BY <1>0, <1>1, <1>2 DEF ChatTyped
<1>4. TurnsPosted' /\ LogsEnd' /\ StoredOnce'
  BY <1>1, ServerStays
<1>5. TurnsKnown'
  BY <1>0, <1>2, ChatAssumption DEF TurnsKnown, Unserved
<1>6. ShownOnce'
  BY ShownStays
<1>7. OnTrack'
  BY DEF OnTrack
<1>8. QED
  BY <1>3, <1>4, <1>5, <1>6, <1>7 DEF ChatInv

(* A POST begins; nothing else moves but what the page shows.              *)
LEMMA PostBegins ==
  ASSUME ChatInv, NEW t \in Sends, posts[t].at = "idle", selected # NoChat,
         posts' = [posts EXCEPT ![t] = [chat |-> selected, at |-> "sent"]],
         UNCHANGED <<serverVars, selected, seen, following, stops, loads>>
  PROVE  /\ posts' \in [Sends -> [chat : Chats \cup {NoChat}, at : {"idle", "sent", "served", "refused", "over"}]]
         /\ posts'[t].chat = selected /\ posts'[t].at = "sent"
         /\ \A u \in Sends : u # t => posts'[u] = posts[u]
         /\ \A u \in Sends : Unserved(u)' <=> Unserved(u)
         /\ UNCHANGED <<transcript, chatTurn, events>>
         /\ TurnsPosted' /\ TurnsKnown' /\ LogsEnd' /\ StoredOnce'
<1>0. ChatTyped /\ TurnsPosted /\ TurnsKnown /\ LogsEnd /\ StoredOnce
  BY DEF ChatInv
<1> PICK p : p = [chat |-> selected, at |-> "sent"]
  OBVIOUS
<1>1. /\ p \in [chat : Chats \cup {NoChat}, at : {"idle", "sent", "served", "refused", "over"}]
      /\ p.chat = selected /\ p.at = "sent"
  BY <1>0 DEF ChatTyped
<1>2. /\ posts' \in [Sends -> [chat : Chats \cup {NoChat}, at : {"idle", "sent", "served", "refused", "over"}]]
      /\ posts'[t] = p /\ \A u \in Sends : u # t => posts'[u] = posts[u]
  BY <1>0, <1>1 DEF ChatTyped
<1>3. (\A u \in Sends : Unserved(u)' <=> Unserved(u)) /\ PostsGo
  BY <1>1, <1>2 DEF Unserved, PostsGo
<1>4. UNCHANGED <<transcript, chatTurn, events>>
  BY DEF serverVars
<1>5. TurnsPosted' /\ LogsEnd' /\ StoredOnce'
  BY <1>3, ServerStays
<1>6. TurnsKnown'
  <2>1. selected \in Chats
    BY <1>0 DEF ChatTyped
  <2>2. \A u \in Sends : posts'[u].at # "idle" => posts'[u].chat \in Chats
    BY <1>0, <1>1, <1>2, <2>1 DEF TurnsKnown
  <2>3. QED
    BY <1>0, <1>3, <2>2 DEF TurnsKnown
<1>7. QED
  BY <1>1, <1>2, <1>3, <1>4, <1>5, <1>6

(* What is on its way while nothing else is.                               *)
LEMMA PostTracked ==
  ASSUME ChatInv, NEW t \in Sends, posts'[t].chat = selected, posts'[t].at = "sent", selected # NoChat,
         \A u \in Sends : u # t => posts'[u] = posts[u],
         UNCHANGED <<transcript, chatTurn, selected, following, stops, loads>>,
         adrift' = FALSE, ~adrift, ~Waiting, ~Streaming,
         shown' = shown \/ shown' = Append(shown, Pending(t))
  PROVE  OnTrack'
<1>0. OnTrack
  BY DEF ChatInv
<1>1. stops = {} /\ (\A u \in Sends : ~Out(u)) /\ \A i \in LoadIds : Free(i)
  BY DEF Waiting, Out, Free
<1>2. AsStored(shown)
  BY <1>0, <1>1 DEF OnTrack, PageQuiet
<1>3. (\A i \in LoadIds : Free(i)') /\ ~(Streaming)'
  BY <1>1 DEF Free, Streaming
<1>4. \A u \in Sends : Out(u)' => u = t
  BY <1>1 DEF Out
<1>5. /\ ~(StillSpeaks(selected))'
      /\ shown' = transcript'[selected'] \/ shown' = Append(transcript'[selected'], Pending(t))
  BY <1>2 DEF AsStored, StillSpeaks
<1>6. PostKept(t)'
  BY <1>3, <1>4, <1>5 DEF PostKept
<1>7. Out(t)'
  BY DEF Out
<1>8. QED
  BY <1>1, <1>3, <1>4, <1>6, <1>7 DEF OnTrack, PageQuiet

LEMMA SendStep == ASSUME ChatInv, NEW t \in Sends, Send(t) PROVE ChatInv'
<1>0. ChatTyped /\ ShownOnce
  BY DEF ChatInv
<1> PICK e : e = Pending(t)
  OBVIOUS
<1>1. /\ posts[t].at = "idle" /\ selected # NoChat /\ ~Streaming
      /\ posts' = [posts EXCEPT ![t] = [chat |-> selected, at |-> "sent"]]
      /\ shown' = Append(shown, e) /\ adrift' = (adrift \/ Waiting)
      /\ UNCHANGED <<serverVars, selected, seen, following, stops, loads>>
  BY DEF Send
<1>2. /\ posts' \in [Sends -> [chat : Chats \cup {NoChat}, at : {"idle", "sent", "served", "refused", "over"}]]
      /\ posts'[t].chat = selected /\ posts'[t].at = "sent"
      /\ \A u \in Sends : u # t => posts'[u] = posts[u]
      /\ \A u \in Sends : Unserved(u)' <=> Unserved(u)
      /\ UNCHANGED <<transcript, chatTurn, events>>
      /\ TurnsPosted' /\ TurnsKnown' /\ LogsEnd' /\ StoredOnce'
  BY <1>1, PostBegins
<1>3. /\ e \in Messages /\ \A u \in Sends : e # User(u) /\ e # Reply(u) /\ (u # t => e # Pending(u))
  BY DEF Pending, Messages, User, Reply
<1>4. shown \in Seq(Messages) /\ shown' \in Seq(Messages)
  BY <1>0, <1>1, <1>3 DEF ChatTyped
<1>5. ChatTyped'
  <2>1. adrift' \in BOOLEAN
    BY <1>1 DEF Waiting
  <2>2. QED
    BY <1>0, <1>1, <1>2, <1>4, <2>1 DEF ChatTyped
<1>6. ShownOnce'
  <2>1. ~Has(shown, e) /\ ~Twice(shown) /\ ~Has(shown, User(t)) /\ ~Has(shown, Reply(t))
    BY <1>0, <1>1 DEF ShownOnce, Unserved
  <2>2. ~Twice(Append(shown, e))
    BY <1>4, <2>1, TwiceAppended
  <2>3. \A m : Has(Append(shown, e), m) <=> Has(shown, m) \/ m = e
    BY <1>4, HasAppended
  <2>4. \A u \in Sends : /\ Unserved(u)' => ~Has(shown', User(u)) /\ ~Has(shown', Reply(u))
                         /\ Has(shown', Pending(u)) => posts'[u].at \notin {"idle", "over"} /\ ~Has(shown', User(u))
    <3> SUFFICES ASSUME NEW u \in Sends
                 PROVE  /\ Unserved(u)' => ~Has(shown', User(u)) /\ ~Has(shown', Reply(u))
                        /\ Has(shown', Pending(u)) => posts'[u].at \notin {"idle", "over"} /\ ~Has(shown', User(u))
      OBVIOUS
    <3>1. /\ Has(shown', User(u)) <=> Has(shown, User(u))
          /\ Has(shown', Reply(u)) <=> Has(shown, Reply(u))
          /\ Has(shown', Pending(u)) => Has(shown, Pending(u)) \/ u = t
      BY <1>1, <1>3, <2>3
    <3>2. Unserved(u)' => ~Has(shown', User(u)) /\ ~Has(shown', Reply(u))
      BY <1>0, <1>2, <3>1 DEF ShownOnce
    <3>3. Has(shown', Pending(u)) => posts'[u].at \notin {"idle", "over"} /\ ~Has(shown', User(u))
      BY <1>0, <1>2, <2>1, <3>1 DEF ShownOnce
    <3>4. QED
      BY <3>2, <3>3
  <2>5. QED
    BY <1>1, <2>2, <2>4 DEF ShownOnce
<1>7. OnTrack'
  <2>1. CASE adrift'
    BY <2>1 DEF OnTrack
  <2>2. CASE ~adrift'
    <3>1. ~adrift /\ ~Waiting /\ adrift' = FALSE
      BY <1>1, <1>5, <2>2 DEF ChatTyped
    <3>2. QED
      BY <1>1, <1>2, <3>1, PostTracked
  <2>3. QED
    BY <2>1, <2>2
<1>8. QED
  BY <1>2, <1>5, <1>6, <1>7 DEF ChatInv

LEMMA RetryStep == ASSUME ChatInv, NEW t \in Sends, Retry(t) PROVE ChatInv'
<1>0. ChatTyped /\ ShownOnce
  BY DEF ChatInv
<1>1. /\ posts[t].at = "idle" /\ selected # NoChat
      /\ posts' = [posts EXCEPT ![t] = [chat |-> selected, at |-> "sent"]]
      /\ adrift' = (adrift \/ Waiting \/ Streaming)
      /\ UNCHANGED <<serverVars, selected, shown, seen, following, stops, loads>>
  BY DEF Retry
<1>2. /\ posts' \in [Sends -> [chat : Chats \cup {NoChat}, at : {"idle", "sent", "served", "refused", "over"}]]
      /\ posts'[t].chat = selected /\ posts'[t].at = "sent"
      /\ \A u \in Sends : u # t => posts'[u] = posts[u]
      /\ \A u \in Sends : Unserved(u)' <=> Unserved(u)
      /\ UNCHANGED <<transcript, chatTurn, events>>
      /\ TurnsPosted' /\ TurnsKnown' /\ LogsEnd' /\ StoredOnce'
  BY <1>1, PostBegins
<1>3. ChatTyped'
  <2>1. adrift' \in BOOLEAN
    BY <1>1 DEF Waiting
  <2>2. QED
    BY <1>0, <1>1, <1>2, <2>1 DEF ChatTyped
<1>4. ShownOnce'
  <2>1. \A u \in Sends : Has(shown, Pending(u)) => posts'[u].at \notin {"idle", "over"}
    BY <1>0, <1>2 DEF ShownOnce
  <2>2. QED
    BY <1>0, <1>1, <1>2, <2>1, ShownKept DEF PostsGo, Unserved
<1>5. OnTrack'
  <2>1. CASE adrift'
    BY <2>1 DEF OnTrack
  <2>2. CASE ~adrift'
    <3>1. ~adrift /\ ~Waiting /\ ~Streaming /\ adrift' = FALSE
      BY <1>1, <1>3, <2>2 DEF ChatTyped
    <3>2. QED
      BY <1>1, <1>2, <3>1, PostTracked
  <2>3. QED
    BY <2>1, <2>2
<1>6. QED
  BY <1>2, <1>3, <1>4, <1>5 DEF ChatInv

LEMMA HearReplyStep == ASSUME ChatInv, HearReply PROVE ChatInv'
<1>0. ChatTyped /\ TurnsPosted /\ TurnsKnown /\ LogsEnd /\ StoredOnce /\ ShownOnce /\ OnTrack
  BY DEF ChatInv
<1> PICK e : e = Reply(following.turn)
  OBVIOUS
<1>1. /\ Streaming
      /\ shown' = IF Has(shown, e) THEN shown ELSE Append(shown, e)
      /\ following' = [following EXCEPT !.next = @ + 1]
      /\ UNCHANGED <<serverVars, selected, seen, posts, stops, loads, adrift>>
  BY DEF HearReply, HasEvent, Has
<1>2. UNCHANGED <<transcript, chatTurn, events>> /\ PostsGo
  BY <1>1 DEF serverVars, PostsGo, Unserved
<1>3. /\ following' \in [chat : Chats \cup {NoChat}, turn : SendIds, next : Nat \ {0}]
      /\ following'.chat = following.chat /\ following'.turn = following.turn
  <2>1. following \in [chat : Chats \cup {NoChat}, turn : SendIds, next : Nat \ {0}]
    BY <1>0 DEF ChatTyped
  <2>2. following.next + 1 \in Nat \ {0}
    BY <2>1
  <2>3. QED
    BY <1>1, <2>1, <2>2
<1>4. /\ e \in Messages
      /\ \A u \in Sends : e # User(u) /\ e # Pending(u) /\ (u # following.turn => e # Reply(u))
  BY <1>0 DEF ChatTyped, Reply, Messages, SendIds, User, Pending
<1>5. ChatTyped'
  <2>1. shown' \in Seq(Messages)
    BY <1>0, <1>1, <1>4 DEF ChatTyped
  <2>2. QED
    BY <1>0, <1>1, <1>2, <1>3, <2>1 DEF ChatTyped
<1>6. TurnsPosted' /\ LogsEnd' /\ StoredOnce'
  BY <1>1, <1>2, ServerStays
<1>7. following.chat \in Chats
  BY <1>0, <1>1 DEF TurnsKnown, Streaming
<1>8. TurnsKnown'
  BY <1>0, <1>1, <1>3, <1>7 DEF TurnsKnown, Unserved
<1>9. ShownOnce'
  <2>1. CASE Has(shown, e)
    BY <1>1, <2>1, ShownStays
  <2>2. CASE ~Has(shown, e)
    <3>1. shown \in Seq(Messages) /\ shown' = Append(shown, e)
      BY <1>0, <1>1, <2>2 DEF ChatTyped
    <3>2. ~Twice(Append(shown, e))
      BY <1>0, <2>2, <3>1, TwiceAppended DEF ShownOnce
    <3>3. \A m : Has(Append(shown, e), m) <=> Has(shown, m) \/ m = e
      BY <3>1, HasAppended
    <3>4. \A u \in Sends : Unserved(u) => e # Reply(u)
      BY <1>0, <1>4 DEF TurnsKnown
    <3>5. \A u \in Sends : /\ Has(shown', User(u)) <=> Has(shown, User(u))
                           /\ Has(shown', Pending(u)) <=> Has(shown, Pending(u))
                           /\ Unserved(u) => (Has(shown', Reply(u)) <=> Has(shown, Reply(u)))
      BY <1>4, <3>1, <3>3, <3>4
    <3>6. QED
      BY <1>0, <1>1, <3>1, <3>2, <3>5 DEF ShownOnce, Unserved
  <2>3. QED
    BY <2>1, <2>2
<1>10. OnTrack'
  <2> SUFFICES ASSUME ~adrift PROVE OnTrack'
    BY <1>1 DEF OnTrack
  <2>1. StreamKept /\ stops = {} /\ (\A t \in Sends : ~Out(t)) /\ \A i \in LoadIds : Free(i)
    BY <1>0, <1>1 DEF OnTrack, PostKept, LoadKept
  <2>2. Streaming'
    <3>1. NoStream.chat = NoChat
      BY DEF NoStream
    <3>2. QED
      BY <1>3, <1>7, <3>1, ChatAssumption DEF Streaming
  <2>3. StreamKept'
    BY <1>1, <1>2, <1>3, <2>1 DEF StreamKept
  <2>4. (\A t \in Sends : ~(Out(t))') /\ \A i \in LoadIds : Free(i)'
    BY <1>1, <2>1 DEF Out, Free
  <2>5. QED
    BY <1>1, <2>1, <2>2, <2>3, <2>4 DEF OnTrack, PageQuiet
<1>11. QED
  BY <1>5, <1>6, <1>8, <1>9, <1>10 DEF ChatInv

(* The one message like it leaves the list.                                *)
LEMMA FirstRemoved ==
  ASSUME NEW S, NEW s \in Seq(S), NEW e, NEW k \in 1..Len(s), s[k] = e, ~Twice(s)
  PROVE  RemoveFirst(s, e) = RemoveAt(s, k)
<1> DEFINE I == {i \in 1..Len(s) : s[i] = e}
<1>1. DOMAIN s = 1..Len(s) /\ Len(s) \in Nat
  OBVIOUS
<1>2. I = {k}
  BY <1>1 DEF Twice
<1>3. (CHOOSE x \in {k} : \A y \in {k} : x =< y) = k
  BY <1>1
<1>4. SelectInSeq(s, LAMBDA v : v = e) = k
  BY <1>2, <1>3 DEF SelectInSeq, Min
<1>5. QED
  BY <1>4 DEF RemoveFirst

LEMMA Concatenated ==
  ASSUME NEW S, NEW a \in Seq(S), NEW b \in Seq(S), NEW r, r = a \o b
  PROVE  /\ r \in Seq(S) /\ Len(r) = Len(a) + Len(b)
         /\ \A i \in 1..Len(a) : r[i] = a[i]
         /\ \A i \in (Len(a) + 1)..(Len(a) + Len(b)) : r[i] = b[i - Len(a)]
  OBVIOUS

LEMMA RemovedAt ==
  ASSUME NEW S, NEW s \in Seq(S), NEW k \in 1..Len(s)
  PROVE  /\ RemoveAt(s, k) \in Seq(S) /\ Len(RemoveAt(s, k)) = Len(s) - 1
         /\ \A i \in 1..(Len(s) - 1) : RemoveAt(s, k)[i] = IF i < k THEN s[i] ELSE s[i + 1]
<1>1. Len(s) \in Nat /\ k \in Nat /\ 1 <= k /\ k <= Len(s)
  OBVIOUS
<1>a. PICK a : a = SubSeq(s, 1, k - 1)
  OBVIOUS
<1>b. PICK b : b = SubSeq(s, k + 1, Len(s))
  OBVIOUS
<1>2. a \in Seq(S) /\ Len(a) = k - 1 /\ \A i \in 1..(k - 1) : a[i] = s[i]
  <2>1. 1 \in Nat /\ k - 1 \in Nat /\ \A i \in 1..(k - 1) : s[i] \in S
    BY <1>1
  <2>2. a \in Seq(S)
    BY <1>a, <1>b, <1>1, <2>1
  <2>3. Len(a) = k - 1
    BY <1>a, <1>b, <1>1, <2>1
  <2>4. \A i \in 1..(k - 1) : a[i] = s[i]
    BY <1>a, <1>b, <1>1, <2>1
  <2>5. QED
    BY <2>2, <2>3, <2>4
<1>3. b \in Seq(S) /\ Len(b) = Len(s) - k /\ \A i \in 1..(Len(s) - k) : b[i] = s[k + i]
  <2>1. \A i \in (k + 1)..Len(s) : s[i] \in S
    BY <1>1
  <2>2. b \in Seq(S)
    BY <1>a, <1>b, <1>1, <2>1
  <2>3. Len(b) = Len(s) - k
    BY <1>a, <1>b, <1>1, <2>1
  <2>4. ASSUME NEW i \in 1..(Len(s) - k) PROVE b[i] = s[k + i]
    <3>1. k + 1 \in Nat /\ Len(s) \in Nat /\ i \in 1..(Len(s) - (k + 1) + 1)
      BY <1>1
    <3>2. b[i] = s[(k + 1) + i - 1]
      BY <1>b, <3>1
    <3>3. (k + 1) + i - 1 = k + i
      BY <1>1
    <3>4. QED
      BY <3>2, <3>3
  <2>5. QED
    BY <2>2, <2>3, <2>4
<1>4. RemoveAt(s, k) = a \o b
  BY <1>a, <1>b DEF RemoveAt
<1>r. PICK r : r = a \o b
  OBVIOUS
<1>5. /\ r \in Seq(S) /\ Len(r) = Len(a) + Len(b)
      /\ \A i \in 1..Len(a) : r[i] = a[i]
      /\ \A i \in (Len(a) + 1)..(Len(a) + Len(b)) : r[i] = b[i - Len(a)]
  <2>1. a \in Seq(S) /\ b \in Seq(S)
    BY <1>2, <1>3
  <2>2. QED
    BY <1>r, <2>1, Concatenated
<1>6. Len(a) + 1 = k /\ Len(a) + Len(b) = Len(s) - 1
  BY <1>1, <1>2, <1>3
<1>7. \A i \in 1..(Len(s) - 1) : i < k => r[i] = s[i]
  BY <1>1, <1>2, <1>5, <1>6
<1>8. ASSUME NEW i \in 1..(Len(s) - 1), ~(i < k) PROVE r[i] = s[i + 1]
  <2>1. i - Len(a) \in 1..(Len(s) - k) /\ k + (i - Len(a)) = i + 1 /\ i \in (Len(a) + 1)..(Len(a) + Len(b))
    BY <1>1, <1>6, <1>8
  <2>2. r[i] = b[i - Len(a)]
    BY <1>5, <2>1
  <2>3. QED
    BY <1>3, <2>1, <2>2
<1>9. QED
  BY <1>r, <1>4, <1>5, <1>6, <1>7, <1>8

(* What is left has no message twice, and not the one that left.           *)
LEMMA LeftOnce ==
  ASSUME NEW S, NEW s \in Seq(S), NEW e, ~Twice(s)
  PROVE  LET r == RemoveFirst(s, e) IN
         r \in Seq(S) /\ ~Twice(r) /\ ~Has(r, e) /\ \A m : Has(r, m) => Has(s, m)
<1>1. DOMAIN s = 1..Len(s) /\ Len(s) \in Nat
  OBVIOUS
<1>r. PICK r : r = RemoveFirst(s, e)
  OBVIOUS
<1>2. CASE ~Has(s, e)
  <2>1. r = s
    BY <1>r, <1>1, <1>2 DEF RemoveFirst, Has
  <2>2. QED
    BY <1>r, <1>2, <2>1
<1>3. CASE Has(s, e)
  <2> PICK k \in 1..Len(s) : s[k] = e
    BY <1>1, <1>3 DEF Has
  <2>1. r = RemoveAt(s, k)
    BY <1>r, FirstRemoved
  <2>2. /\ r \in Seq(S) /\ Len(r) = Len(s) - 1
        /\ \A i \in 1..(Len(s) - 1) : r[i] = IF i < k THEN s[i] ELSE s[i + 1]
    BY <2>1, RemovedAt
  <2>3. DOMAIN r = 1..(Len(s) - 1) /\ k \in Nat
    BY <1>1, <2>2
  <2>4. \A i \in 1..(Len(s) - 1) : i \in 1..Len(s) /\ i + 1 \in 1..Len(s) /\ i \in Nat
    BY <1>1
  <2>5. \A i \in 1..(Len(s) - 1) : \E j \in 1..Len(s) : r[i] = s[j] /\ j # k /\ j = IF i < k THEN i ELSE i + 1
    <3> SUFFICES ASSUME NEW i \in 1..(Len(s) - 1)
                 PROVE  \E j \in 1..Len(s) : r[i] = s[j] /\ j # k /\ j = IF i < k THEN i ELSE i + 1
      OBVIOUS
    <3>1. CASE i < k
      BY <2>2, <2>3, <2>4, <3>1
    <3>2. CASE ~(i < k)
      <4>1. i + 1 # k /\ i + 1 \in 1..Len(s) /\ r[i] = s[i + 1]
        BY <2>2, <2>3, <2>4, <3>2
      <4>2. QED
        BY <3>2, <4>1
    <3>3. QED
      BY <3>1, <3>2
  <2>6. \A i, j \in 1..(Len(s) - 1) :
          (IF i < k THEN i ELSE i + 1) = (IF j < k THEN j ELSE j + 1) => i = j
    BY <1>1, <2>3
  <2>7. ~Twice(r)
    <3> SUFFICES ASSUME NEW i \in 1..(Len(s) - 1), NEW j \in 1..(Len(s) - 1), r[i] = r[j] PROVE i = j
      BY <2>3 DEF Twice
    <3> PICK a \in 1..Len(s) : r[i] = s[a] /\ a = IF i < k THEN i ELSE i + 1
      BY <2>5
    <3> PICK b \in 1..Len(s) : r[j] = s[b] /\ b = IF j < k THEN j ELSE j + 1
      BY <2>5
    <3>1. a = b
      BY <1>1 DEF Twice
    <3>2. QED
      BY <2>6, <3>1
  <2>8. ~Has(r, e)
    <3> SUFFICES ASSUME NEW i \in 1..(Len(s) - 1), r[i] = e PROVE FALSE
      BY <2>3 DEF Has
    <3> PICK a \in 1..Len(s) : r[i] = s[a] /\ a # k
      BY <2>5
    <3>1. QED
      BY <1>1 DEF Twice
  <2>9. \A m : Has(r, m) => Has(s, m)
    BY <1>1, <2>3, <2>5 DEF Has
  <2>10. QED
    BY <1>r, <2>2, <2>7, <2>8, <2>9
<1>4. QED
  BY <1>2, <1>3

(* What was appended leaves what was there.                                *)
LEMMA AppendedLeaves ==
  ASSUME NEW S, NEW s \in Seq(S), NEW e \in S, ~Has(s, e), ~Twice(s)
  PROVE  RemoveFirst(s, e) = s /\ RemoveFirst(Append(s, e), e) = s
<1>1. DOMAIN s = 1..Len(s) /\ Len(s) \in Nat
  OBVIOUS
<1>2. RemoveFirst(s, e) = s
  BY <1>1 DEF RemoveFirst, Has
<1>a. PICK a : a = Append(s, e)
  OBVIOUS
<1>3. /\ a \in Seq(S) /\ Len(a) = Len(s) + 1 /\ a[Len(s) + 1] = e
      /\ \A i \in 1..Len(s) : a[i] = s[i]
  BY <1>a
<1>4. ~Twice(a)
  BY <1>a, TwiceAppended
<1>k. PICK k : k = Len(s) + 1
  OBVIOUS
<1>5. k \in 1..Len(a) /\ a[k] = e
  BY <1>k, <1>1, <1>3
<1>r. PICK r : r = RemoveAt(a, k)
  OBVIOUS
<1>6. RemoveFirst(a, e) = r
  BY <1>r, <1>3, <1>4, <1>5, FirstRemoved
<1>7. /\ r \in Seq(S) /\ Len(r) = Len(a) - 1
      /\ \A i \in 1..(Len(a) - 1) : r[i] = IF i < k THEN a[i] ELSE a[i + 1]
  BY <1>r, <1>3, <1>5, RemovedAt
<1>8. Len(r) = Len(s) /\ \A i \in 1..Len(s) : r[i] = s[i]
  BY <1>k, <1>1, <1>3, <1>7
<1>9. r = s
  BY <1>7, <1>8
<1>10. QED
  BY <1>a, <1>2, <1>6, <1>9

LEMMA KnownStays ==
  ASSUME TurnsKnown, PostsGo, UNCHANGED <<following, loads>>,
         \A u \in Sends : posts'[u].at # "idle" => posts'[u].chat \in Chats
  PROVE  TurnsKnown'
<1>1. \A u \in Sends : ~Unserved(u) => ~(Unserved(u))'
  BY DEF PostsGo
<1>2. following'.turn \in Sends => ~(Unserved(following.turn))'
  BY <1>1 DEF TurnsKnown
<1>3. \A i \in LoadIds : loads'[i].answer.turn \in Sends => ~(Unserved(loads[i].answer.turn))'
  BY <1>1 DEF TurnsKnown
<1>4. QED
  BY <1>2, <1>3 DEF TurnsKnown

LEMMA RefusedStep == ASSUME ChatInv, NEW t \in Sends, Refused(t) PROVE ChatInv'
<1>0. ChatTyped /\ TurnsPosted /\ TurnsKnown /\ LogsEnd /\ StoredOnce /\ ShownOnce /\ OnTrack
  BY DEF ChatInv
<1> PICK e : e = Pending(t)
  OBVIOUS
<1>1. /\ posts[t].at = "refused" /\ posts' = [posts EXCEPT ![t].at = "over"]
      /\ shown' = RemoveFirst(shown, e)
      /\ UNCHANGED <<serverVars, selected, seen, following, stops, loads, adrift>>
  BY DEF Refused
<1>2. /\ posts' \in [Sends -> [chat : Chats \cup {NoChat}, at : {"idle", "sent", "served", "refused", "over"}]]
      /\ posts'[t].at = "over" /\ \A u \in Sends : posts'[u].chat = posts[u].chat
      /\ \A u \in Sends : u # t => posts'[u] = posts[u]
      /\ PostsGo /\ ~(Unserved(t))'
  BY <1>0, <1>1, PostMoves
<1>3. UNCHANGED <<transcript, chatTurn, events>>
  BY <1>1 DEF serverVars
<1>4. shown \in Seq(Messages) /\ ~Twice(shown)
  BY <1>0 DEF ChatTyped, ShownOnce
<1>5. shown' \in Seq(Messages) /\ ~Twice(shown') /\ ~Has(shown', e) /\ \A m : Has(shown', m) => Has(shown, m)
  BY <1>1, <1>4, LeftOnce
<1>6. ChatTyped'
  BY <1>0, <1>1, <1>2, <1>3, <1>5 DEF ChatTyped
<1>7. TurnsPosted' /\ LogsEnd' /\ StoredOnce'
  BY <1>1, <1>2, ServerStays
<1>8. TurnsKnown'
  <2>1. \A u \in Sends : posts'[u].at # "idle" => posts'[u].chat \in Chats
    BY <1>0, <1>1, <1>2 DEF TurnsKnown
  <2>2. QED
    BY <1>0, <1>1, <1>2, <2>1, KnownStays
<1>9. ShownOnce'
  <2>1. \A u \in Sends : Unserved(u)' => Unserved(u)
    BY <1>2 DEF PostsGo
  <2>2. \A u \in Sends : Has(shown', Pending(u)) => posts'[u].at \notin {"idle", "over"} /\ ~Has(shown', User(u))
    BY <1>0, <1>2, <1>5 DEF ShownOnce
  <2>3. \A u \in Sends : Unserved(u)' => ~Has(shown', User(u)) /\ ~Has(shown', Reply(u))
    BY <1>0, <1>5, <2>1 DEF ShownOnce
  <2>4. QED
    BY <1>5, <2>2, <2>3 DEF ShownOnce
<1>10. OnTrack'
  <2> SUFFICES ASSUME ~adrift PROVE OnTrack'
    BY <1>1 DEF OnTrack
  <2>1. PostKept(t) /\ stops = {}
    BY <1>0, <1>1 DEF OnTrack, Out
  <2>2. /\ selected # NoChat /\ (\A u \in Sends : Out(u) => u = t) /\ (\A i \in LoadIds : Free(i)) /\ ~Streaming
        /\ ~StillSpeaks(selected)
        /\ shown = transcript[selected] \/ shown = Append(transcript[selected], e)
    BY <1>1, <2>1 DEF PostKept
  <2>3. selected \in Chats /\ transcript[selected] \in Seq(Messages) /\ e \in Messages
    BY <1>0, <2>2 DEF ChatTyped, Pending, Messages
  <2>4. ~Has(transcript[selected], e) /\ ~Twice(transcript[selected])
    BY <1>0, <2>3 DEF StoredOnce, Single
  <2>5. shown' = transcript[selected]
    <3> PICK s : s = transcript[selected]
      OBVIOUS
    <3>1. s \in Seq(Messages) /\ e \in Messages /\ ~Has(s, e) /\ ~Twice(s)
      BY <2>3, <2>4
    <3>2. RemoveFirst(s, e) = s /\ RemoveFirst(Append(s, e), e) = s
      BY <3>1, AppendedLeaves
    <3>3. QED
      BY <1>1, <2>2, <3>2
  <2>6. \A u \in Sends : ~(Out(u))'
    BY <1>2, <2>2 DEF Out
  <2>7. (\A i \in LoadIds : Free(i)') /\ ~(Streaming)'
    BY <1>1, <2>2 DEF Free, Streaming
  <2>8. AsStored(shown)'
    BY <1>1, <1>3, <2>2, <2>5 DEF AsStored, StillSpeaks
  <2>9. QED
    BY <1>1, <2>1, <2>6, <2>7, <2>8 DEF OnTrack
<1>11. QED
  BY <1>6, <1>7, <1>8, <1>9, <1>10 DEF ChatInv

LEMMA AcceptedStep == ASSUME ChatInv, NEW t \in Sends, Accepted(t) PROVE ChatInv'
<1>0. ChatTyped /\ TurnsPosted /\ TurnsKnown /\ LogsEnd /\ StoredOnce /\ ShownOnce /\ OnTrack
  BY DEF ChatInv
<1> PICK e : e = Pending(t)
  OBVIOUS
<1> PICK f : f = [chat |-> posts[t].chat, turn |-> t, next |-> 1]
  OBVIOUS
<1>1. /\ posts[t].at = "served" /\ posts' = [posts EXCEPT ![t].at = "over"]
      /\ shown' = [i \in DOMAIN shown |-> IF shown[i] = e THEN User(t) ELSE shown[i]]
      /\ following' = f
      /\ UNCHANGED <<serverVars, selected, seen, stops, loads, adrift>>
  BY DEF Accepted, Replaced
<1>2. /\ posts' \in [Sends -> [chat : Chats \cup {NoChat}, at : {"idle", "sent", "served", "refused", "over"}]]
      /\ posts'[t].at = "over" /\ \A u \in Sends : posts'[u].chat = posts[u].chat
      /\ \A u \in Sends : u # t => posts'[u] = posts[u]
      /\ PostsGo /\ ~(Unserved(t))'
  BY <1>0, <1>1, PostMoves
<1>3. UNCHANGED <<transcript, chatTurn, events>>
  BY <1>1 DEF serverVars
<1>4. /\ shown \in Seq(Messages) /\ ~Twice(shown) /\ User(t) \in Messages
      /\ Has(shown, e) => ~Has(shown, User(t))
  BY <1>0 DEF ChatTyped, ShownOnce, User, Messages
<1>5. /\ DOMAIN shown' = DOMAIN shown
      /\ \A i \in DOMAIN shown : shown'[i] = IF shown[i] = e THEN User(t) ELSE shown[i]
  BY <1>1
<1>6. shown' \in Seq(Messages)
  <2>1. DOMAIN shown = 1..Len(shown) /\ Len(shown) \in Nat /\ \A i \in 1..Len(shown) : shown[i] \in Messages
    BY <1>4
  <2>2. \A i \in 1..Len(shown) : (IF shown[i] = e THEN User(t) ELSE shown[i]) \in Messages
    BY <1>4, <2>1
  <2>3. QED
    BY <1>1, <2>1, <2>2
<1>7. posts[t].chat \in Chats
  BY <1>0, <1>1 DEF TurnsKnown
<1>8. f \in [chat : Chats \cup {NoChat}, turn : SendIds, next : Nat \ {0}] /\ f.chat = posts[t].chat /\ f.turn = t
  BY <1>7 DEF SendIds
<1>9. ChatTyped'
  BY <1>0, <1>1, <1>2, <1>3, <1>6, <1>8 DEF ChatTyped
<1>10. TurnsPosted' /\ LogsEnd' /\ StoredOnce'
  BY <1>1, <1>2, ServerStays
<1>11. TurnsKnown'
  <2>1. \A u \in Sends : posts'[u].at # "idle" => posts'[u].chat \in Chats
    BY <1>0, <1>1, <1>2 DEF TurnsKnown
  <2>2. QED
    BY <1>0, <1>1, <1>2, <1>7, <1>8, <2>1 DEF TurnsKnown, PostsGo
<1>12. ShownOnce'
  <2>1. ~Twice(shown')
    BY <1>4, <1>5 DEF Twice, Has
  <2>2. e # User(t) /\ \A u \in Sends : User(t) # Pending(u) /\ User(t) # Reply(u) /\ (u # t => User(t) # User(u))
    BY DEF Pending, User, Reply
  <2>3. \A m : Has(shown', m) => m = User(t) \/ (Has(shown, m) /\ m # e)
    BY <1>5 DEF Has
  <2>4. \A u \in Sends : Unserved(u)' => Unserved(u) /\ u # t
    BY <1>2 DEF PostsGo
  <2>5. \A u \in Sends : Unserved(u)' => ~Has(shown', User(u)) /\ ~Has(shown', Reply(u))
    BY <1>0, <2>2, <2>3, <2>4 DEF ShownOnce
  <2>6. \A u \in Sends : Has(shown', Pending(u)) => posts'[u].at \notin {"idle", "over"} /\ ~Has(shown', User(u))
    <3> SUFFICES ASSUME NEW u \in Sends, Has(shown', Pending(u))
                 PROVE  posts'[u].at \notin {"idle", "over"} /\ ~Has(shown', User(u))
      OBVIOUS
    <3>1. Has(shown, Pending(u)) /\ u # t
      BY <2>2, <2>3
    <3>2. posts[u].at \notin {"idle", "over"} /\ ~Has(shown, User(u)) /\ posts'[u] = posts[u]
      BY <1>0, <1>2, <3>1 DEF ShownOnce
    <3>3. ~Has(shown', User(u))
      BY <2>2, <2>3, <3>1, <3>2
    <3>4. QED
      BY <3>2, <3>3
  <2>7. QED
    BY <2>1, <2>5, <2>6 DEF ShownOnce
<1>13. OnTrack'
  <2> SUFFICES ASSUME ~adrift PROVE OnTrack'
    BY <1>1 DEF OnTrack
  <2>1. PostKept(t) /\ stops = {}
    BY <1>0, <1>1 DEF OnTrack, Out
  <2>2. /\ posts[t].chat = selected /\ selected # NoChat
        /\ (\A u \in Sends : Out(u) => u = t) /\ \A i \in LoadIds : Free(i)
        /\ chatTurn[selected].turn = t
    BY <1>1, <2>1 DEF PostKept
  <2>3. (\A u \in Sends : ~(Out(u))') /\ \A i \in LoadIds : Free(i)'
    BY <1>1, <1>2, <2>2 DEF Out, Free
  <2>4. Streaming'
    <3>1. NoStream.chat = NoChat
      BY DEF NoStream
    <3>2. QED
      BY <1>1, <1>7, <1>8, <3>1, ChatAssumption DEF Streaming
  <2>5. StreamKept'
    BY <1>1, <1>3, <1>8, <2>2 DEF StreamKept
  <2>6. QED
    BY <1>1, <2>1, <2>3, <2>4, <2>5 DEF OnTrack, PageQuiet
<1>14. QED
  BY <1>9, <1>10, <1>11, <1>12, <1>13 DEF ChatInv

LEMMA ChatBegins == ChatInit => ChatInv
<1> SUFFICES ASSUME ChatInit PROVE ChatInv
  OBVIOUS
<1>1. /\ transcript = [c \in Chats |-> IF c \in Cut THEN <<User(NoSend)>> ELSE <<>>]
      /\ chatTurn = [c \in Chats |-> [is |-> IF c \in Cut THEN "interrupted" ELSE "idle", turn |-> NoSend]]
      /\ events = [t \in Sends |-> <<>>]
      /\ selected = NoChat /\ shown = <<>> /\ seen = "idle" /\ following = NoStream
      /\ posts = [t \in Sends |-> [chat |-> NoChat, at |-> "idle"]]
      /\ stops = {} /\ loads = [i \in LoadIds |-> NoLoad] /\ adrift = FALSE
  BY DEF ChatInit
<1>2. User(NoSend) \in Messages /\ \A t \in Sends : User(NoSend) # User(t) /\ User(NoSend) # Reply(t) /\ User(NoSend) # Pending(t)
  BY ChatAssumption DEF User, Reply, Pending, Messages
<1>3. NoAnswer \in Answers /\ NoAnswer.messages = <<>> /\ NoAnswer.turn = NoSend
  BY DEF NoAnswer, Answers, States, SendIds
<1>4. NoLoad \in Loads /\ NoLoad.answer = NoAnswer
  BY <1>3 DEF NoLoad, Loads
<1>5. /\ NoStream \in [chat : Chats \cup {NoChat}, turn : SendIds, next : Nat \ {0}]
      /\ NoStream.turn = NoSend
  BY DEF NoStream, SendIds
<1>6. \A c \in Chats : /\ chatTurn[c] \in [is : States, turn : SendIds] /\ chatTurn[c].turn = NoSend
                       /\ chatTurn[c].is \in {"idle", "interrupted"}
  BY <1>1 DEF States, SendIds
<1>7. \A t \in Sends : /\ posts[t] \in [chat : Chats \cup {NoChat}, at : {"idle", "sent", "served", "refused", "over"}]
                       /\ posts[t].at = "idle"
  BY <1>1
<1>8. \A c \in Chats : transcript[c] = <<>> \/ transcript[c] = <<User(NoSend)>>
  BY <1>1
<1>9. ChatTyped
  <2>1. \A c \in Chats : transcript[c] \in Seq(Messages)
    <3>m. PICK m : m = User(NoSend)
      OBVIOUS
    <3>1. m \in Messages
      BY <3>m, <1>2
    <3>2. <<m>> \in Seq(Messages) /\ <<>> \in Seq(Messages)
      BY <3>1
    <3>3. QED
      BY <3>m, <1>8, <3>2
  <2>2. transcript \in [Chats -> Seq(Messages)]
    BY <1>1, <2>1
  <2>3. chatTurn \in [Chats -> [is : States, turn : SendIds]]
    BY <1>1, <1>6
  <2>4. posts \in [Sends -> [chat : Chats \cup {NoChat}, at : {"idle", "sent", "served", "refused", "over"}]]
    BY <1>1, <1>7
  <2>5. /\ events \in [Sends -> Seq({"assistant_message"} \cup Terminals)] /\ loads \in [LoadIds -> Loads]
        /\ shown \in Seq(Messages) /\ seen \in States
    BY <1>1, <1>4 DEF States
  <2>6. QED
    BY <1>1, <1>5, <2>2, <2>3, <2>4, <2>5 DEF ChatTyped
<1>10. TurnsPosted /\ TurnsKnown
  BY <1>1, <1>3, <1>4, <1>5, <1>6, <1>7, ChatAssumption DEF TurnsPosted, TurnsKnown
<1>11. LogsEnd
  <2>1. \A c \in Chats : ~StillSpeaks(c)
    BY <1>6 DEF StillSpeaks
  <2>2. QED
    BY <1>1, <2>1 DEF LogsEnd
<1>12. StoredOnce
  <2>1. Single(<<User(NoSend)>>)
    <3> PICK m : m = User(NoSend)
      OBVIOUS
    <3>1. DOMAIN <<m>> = {1} /\ <<m>>[1] = m
      OBVIOUS
    <3>2. ~Twice(<<m>>)
      BY <3>1 DEF Twice
    <3>3. \A n : Has(<<m>>, n) <=> n = m
      BY <3>1 DEF Has
    <3>4. QED
      BY <1>2, <3>2, <3>3 DEF Single
  <2>2. \A c \in Chats : Single(transcript[c])
    BY <1>8, <2>1, NothingIsSingle
  <2>3. \A c \in Chats : chatTurn[c].is # "running"
    BY <1>6
  <2>4. \A i \in LoadIds : Single(loads[i].answer.messages)
    BY <1>1, <1>3, <1>4, NothingIsSingle
  <2>5. QED
    BY <2>2, <2>3, <2>4 DEF StoredOnce
<1>13. ShownOnce
  BY <1>1 DEF ShownOnce, Twice, Has
<1>14. OnTrack
  BY <1>1, <1>7 DEF OnTrack, Out, Free, Streaming
<1>15. QED
  BY <1>9, <1>10, <1>11, <1>12, <1>13, <1>14 DEF ChatInv

LEMMA ChatStep == ChatInv /\ [ChatNext]_chatVars => ChatInv'
<1> SUFFICES ASSUME ChatInv, [ChatNext]_chatVars PROVE ChatInv'
  OBVIOUS
<1>1. ASSUME NEW c \in Chats, \/ StoreReply(c) \/ FailTurn(c) \/ TellReply(c) \/ TellEnd(c)
                              \/ RecordEnd(c) \/ Forget(c) \/ StopAnswered(c)
      PROVE  ChatInv'
  BY <1>1, ServerMoves, StopAnsweredStep
<1>2. ASSUME NEW c \in Chats \cup {NoChat}, Select(c) PROVE ChatInv'
  BY <1>2, SelectStep
<1>3. ASSUME NEW t \in Sends, ServePost(t) \/ Send(t) \/ Retry(t) \/ Accepted(t) \/ Refused(t) PROVE ChatInv'
  BY <1>3, ServePostStep, SendStep, RetryStep, AcceptedStep, RefusedStep
<1>4. ASSUME NEW i \in LoadIds, ServeLoad(i) \/ ShowLoaded(i) \/ LoadFails(i) PROVE ChatInv'
  BY <1>4, ServeLoadStep, ShowLoadedStep, LoadFailsStep
<1>5. CASE HearReply \/ HearEnd \/ ServerDies
  BY <1>5, HearReplyStep, HearEndStep, ServerDiesStep
<1>6. CASE LoseStream
  <2>1. stops \subseteq Chats
    BY DEF ChatInv, ChatTyped
  <2>2. QED
    BY <1>6, <2>1, StreamCloses DEF LoseStream
<1>7. CASE Stop
  <2>1. stops' \subseteq Chats
    BY <1>7 DEF Stop, ChatInv, ChatTyped
  <2>2. QED
    BY <1>7, <2>1, StreamCloses DEF Stop
<1>8. CASE UNCHANGED chatVars
  <2>1. UNCHANGED <<transcript, chatTurn, events, selected, shown, seen, following, posts, stops, loads, adrift>>
    BY <1>8 DEF chatVars, serverVars
  <2>2. ChatTyped'
    BY <2>1 DEF ChatInv, ChatTyped
  <2>3. PostsGo /\ UNCHANGED serverVars
    BY <2>1 DEF PostsGo, Unserved, serverVars
  <2>4. TurnsPosted' /\ LogsEnd' /\ StoredOnce'
    BY <2>1, <2>3, ServerStays
  <2>5. TurnsKnown' /\ ShownOnce'
    BY <2>1, ShownStays DEF ChatInv, TurnsKnown, Unserved
  <2>6. OnTrack'
    <3>1. \A c \in Chats : /\ chatTurn'[c].turn = chatTurn[c].turn
                           /\ StillSpeaks(c)' => StillSpeaks(c)
                           /\ transcript'[c] = transcript[c] \/ StillSpeaks(c)
      BY <2>1 DEF StillSpeaks
    <3>2. QED
      BY <2>1, <3>1, ServerTracked DEF ChatInv
  <2>7. QED
    BY <2>2, <2>4, <2>5, <2>6 DEF ChatInv
<1>9. QED
  BY <1>1, <1>2, <1>3, <1>4, <1>5, <1>6, <1>7, <1>8 DEF ChatNext

(* The page of a chat shows no message twice, and with nothing under way   *)
(* what is stored, as long as it has not lost track (ChatStream.vue).      *)
THEOREM ChatShown == ChatSpec => []ChatIsComplete
<1>1. ChatInit => ChatInv
  BY ChatBegins
<1>2. ChatInv /\ [ChatNext]_chatVars => ChatInv'
  BY ChatStep
<1>3. ChatInv => ChatIsComplete
  BY ChatInvShows
<1>4. QED
  BY <1>1, <1>2, <1>3, PTL DEF ChatSpec

-----------------------------------------------------------------------------
(* StepPage: the sessions of a step are shown                              *)

(* What is in a sequence, of two, and of the empty one.                     *)
LEMMA ElementsLemma ==
  ASSUME NEW T, NEW s \in Seq(T)
  PROVE  /\ Elements(s) \subseteq T /\ (Elements(s) = {} <=> s = <<>>)
         /\ s # <<>> => s[1] \in Elements(s)
         /\ \A x \in T : <<x>> \in Seq(T) /\ Elements(<<x>>) = {x} /\ <<x>>[1] = x
         /\ \A x \in T : /\ <<x>> \o s \in Seq(T) /\ Elements(<<x>> \o s) = {x} \cup Elements(s)
                         /\ <<>> \o s = s /\ <<x>> \o (<<>> \o s) = <<x>> \o s
<1>1. Len(s) \in Nat /\ DOMAIN s = 1..Len(s) /\ s \in [1..Len(s) -> T] /\ (s # <<>> => Len(s) \in Nat \ {0})
  BY LenProperties, EmptySeq
<1>2. Elements(s) \subseteq T /\ (s # <<>> => s[1] \in Elements(s)) /\ Elements(<<>>) = {}
  BY <1>1 DEF Elements
<1>3. ASSUME NEW x \in T
      PROVE  /\ <<x>> \in Seq(T) /\ Elements(<<x>>) = {x} /\ <<x>>[1] = x
             /\ <<x>> \o s \in Seq(T) /\ Elements(<<x>> \o s) = {x} \cup Elements(s)
  <2>1. <<x>> \in Seq(T) /\ Len(<<x>>) = 1 /\ <<x>>[1] = x /\ DOMAIN <<x>> = 1..1
    OBVIOUS
  <2>2. Elements(<<x>>) = {x}
    BY <2>1 DEF Elements
  <2>3. /\ <<x>> \o s \in Seq(T) /\ Len(<<x>> \o s) = 1 + Len(s)
        /\ \A i \in 1..(1 + Len(s)) : (<<x>> \o s)[i] = IF i <= 1 THEN <<x>>[i] ELSE s[i - 1]
    BY <2>1, ConcatProperties
  <2> DEFINE t == <<x>> \o s
  <2>4. DOMAIN t = 1..(1 + Len(s)) /\ t[1] = x /\ \A i \in 1..Len(s) : t[i + 1] = s[i]
    <3>1. DOMAIN t = 1..(1 + Len(s))
      BY <2>3, LenProperties
    <3>2. 1 \in 1..(1 + Len(s)) /\ \A i \in 1..Len(s) : i + 1 \in 1..(1 + Len(s)) /\ ~(i + 1 <= 1) /\ (i + 1) - 1 = i
      BY <1>1
    <3>3. QED
      BY <2>1, <2>3, <3>1, <3>2
  <2> HIDE DEF t
  <2>5. {t[i] : i \in DOMAIN t} = {x} \cup {s[i] : i \in DOMAIN s}
    <3>1. \A i \in 1..(1 + Len(s)) : i = 1 \/ (i - 1 \in 1..Len(s) /\ (i - 1) + 1 = i)
      BY <1>1
    <3>2. \A i \in DOMAIN t : t[i] = x \/ \E j \in DOMAIN s : t[i] = s[j]
      <4> TAKE i \in DOMAIN t
      <4>1. CASE i = 1
        BY <2>4, <4>1
      <4>2. CASE i # 1
        <5>1. i - 1 \in 1..Len(s) /\ (i - 1) + 1 = i
          BY <2>4, <3>1, <4>2
        <5>2. t[i] = s[i - 1]
          BY <2>4, <5>1
        <5>3. QED
          BY <1>1, <5>1, <5>2
      <4>3. QED
        BY <4>1, <4>2
    <3>3. 1 \in DOMAIN t /\ \A i \in DOMAIN s : i + 1 \in DOMAIN t
      BY <1>1, <2>4
    <3>4. QED
      BY <1>1, <2>4, <3>2, <3>3
  <2>6. QED
    BY <2>1, <2>2, <2>3, <2>5 DEF Elements, t
<1>4. <<>> \o s = s
  BY ConcatEmptySeq
<1>5. QED
  BY <1>2, <1>3, <1>4

(* What is left without an element, as a function of how far one looked.    *)
Removals(T, s, x) ==
  {rest \in [0..Len(s) -> Seq(T)] :
     /\ rest[0] = <<>>
     /\ \A n \in 1..Len(s) : rest[n] = IF s[n] = x THEN rest[n - 1] ELSE Append(rest[n - 1], s[n])
     /\ Without(s, x) = rest[Len(s)]}
LEMMA WithoutLemma ==
  ASSUME NEW T, NEW s \in Seq(T), NEW x
  PROVE  Removals(T, s, x) # {}
<1> DEFINE N == Len(s)
           Q == Seq(T)
           Grow(n, r) == IF s[n] = x THEN r ELSE Append(r, s[n])
           Body(f) == [n \in 0..N |-> IF n = 0 THEN <<>> ELSE Grow(n, f[n - 1])]
           rest == CHOOSE f : f = Body(f)
<1>1. N \in Nat /\ <<>> \in Q /\ \A n \in 1..N, r \in Q : Grow(n, r) \in Q
  <2>1. N \in Nat /\ \A n \in 1..N : s[n] \in T
    BY LenProperties, ElementOfSeq
  <2>2. QED
    BY <2>1
<1>2. Without(s, x) = rest[N]
  BY DEF Without
<1> HIDE DEF N, Q, Grow
<1> DEFINE step == [n \in 1..N |-> [r \in Q |-> Grow(n, r)]]
<1>3. step \in [1..N -> [Q -> Q]] /\ \A n \in 1..N, r \in Q : step[n][r] = Grow(n, r)
  BY <1>1
<1>4. PICK g \in [0..N -> Q] : g[0] = <<>> /\ \A n \in 1..N : g[n] = step[n][g[n - 1]]
  <2> HIDE DEF step
  <2>1. N \in Nat /\ <<>> \in Q /\ step \in [1..N -> [Q -> Q]]
    BY <1>1, <1>3
  <2>2. Counted(N, Q, <<>>, step) # {}
    BY <2>1, CountUpDefines
  <2>3. QED
    BY <2>2 DEF Counted
<1> HIDE DEF step
<1>5. \A n \in 1..N : g[n] = Grow(n, g[n - 1])
  <2> SUFFICES ASSUME NEW n \in 1..N PROVE g[n] = Grow(n, g[n - 1])
    OBVIOUS
  <2>1. n - 1 \in 0..N
    BY <1>1
  <2>2. g[n - 1] \in Q
    BY <2>1
  <2>3. QED
    BY <1>3, <1>4, <2>2
<1>6. g = Body(g)
  <2>1. \A n \in 0..N : g[n] = IF n = 0 THEN <<>> ELSE Grow(n, g[n - 1])
    BY <1>1, <1>4, <1>5
  <2>2. QED
    BY <2>1
<1>7. rest = Body(rest)
  <2> HIDE DEF Body
  <2>1. QED
    BY <1>6
<1> HIDE DEF rest
<1>8. rest = [n \in 0..N |-> rest[n]] /\ \A n \in 0..N : rest[n] = IF n = 0 THEN <<>> ELSE Grow(n, rest[n - 1])
  BY <1>7
<1>9. 0 \in 0..N /\ \A n \in 1..N : n \in 0..N /\ n # 0
  BY <1>1
<1>10. rest[0] = <<>> /\ \A n \in 1..N : rest[n] = Grow(n, rest[n - 1])
  BY <1>8, <1>9
<1>11. \A n \in 0..N : rest[n] \in Q
  <2> DEFINE S == {n \in 0..N : rest[n] \in Q}
  <2>1. 0 \in S
    BY <1>1, <1>9, <1>10
  <2>2. \A n \in 1..N : n - 1 \in S => n \in S
    BY <1>1, <1>9, <1>10
  <2> HIDE DEF S
  <2>3. \A n \in 0..N : n \in S
    BY <1>1, <2>1, <2>2, CountUp
  <2>4. QED
    BY <2>3 DEF S
<1>12. rest \in [0..N -> Q]
  BY <1>8, <1>11
<1>13. QED
  BY <1>2, <1>10, <1>12 DEF N, Q, Grow, Removals

(* Deleting a session takes it from the list, wherever it is.               *)
LEMMA WithoutIsWithout ==
  ASSUME NEW T, NEW s \in Seq(T), NEW x
  PROVE  Without(s, x) \in Seq(T) /\ Elements(Without(s, x)) = Elements(s) \ {x}
<1>1. PICK rest \in [0..Len(s) -> Seq(T)] :
        /\ rest[0] = <<>>
        /\ \A n \in 1..Len(s) : rest[n] = IF s[n] = x THEN rest[n - 1] ELSE Append(rest[n - 1], s[n])
        /\ Without(s, x) = rest[Len(s)]
  <2>1. Removals(T, s, x) # {}
    BY WithoutLemma
  <2>2. QED
    BY <2>1 DEF Removals
<1>2. Len(s) \in Nat /\ DOMAIN s = 1..Len(s) /\ \A n \in 1..Len(s) : s[n] \in T
  BY LenProperties, ElementOfSeq
<1> DEFINE Seen(n) == {s[i] : i \in 1..n}
           S == {n \in 0..Len(s) : Elements(rest[n]) = Seen(n) \ {x}}
<1>3. 0 \in S
  BY <1>1, <1>2 DEF Elements
<1>4. ASSUME NEW n \in 1..Len(s), n - 1 \in S PROVE n \in S
  <2>1. n - 1 \in 0..Len(s) /\ n \in 0..Len(s) /\ 1..n = (1..(n - 1)) \cup {n}
    BY <1>2
  <2>2. Seen(n) = Seen(n - 1) \cup {s[n]}
    BY <2>1
  <2>3. rest[n - 1] \in Seq(T) /\ Elements(rest[n - 1]) = Seen(n - 1) \ {x}
    BY <1>4, <2>1
  <2> HIDE DEF Seen
  <2>4. CASE s[n] = x
    BY <1>1, <2>1, <2>2, <2>3, <2>4
  <2>5. CASE s[n] # x
    <3>1. rest[n] = Append(rest[n - 1], s[n])
      BY <1>1, <2>5
    <3>2. Elements(rest[n]) = Elements(rest[n - 1]) \cup {s[n]}
      <4> DEFINE r == rest[n - 1]
                 q == rest[n]
      <4>1. /\ Len(r) \in Nat /\ DOMAIN r = 1..Len(r) /\ DOMAIN q = 1..(Len(r) + 1)
            /\ q[Len(r) + 1] = s[n] /\ \A i \in 1..Len(r) : q[i] = r[i]
        BY <1>2, <2>3, <3>1
      <4> HIDE DEF q, r
      <4>2. 1..(Len(r) + 1) = (1..Len(r)) \cup {Len(r) + 1}
        BY <4>1
      <4>3. {q[i] : i \in DOMAIN q} = {r[i] : i \in DOMAIN r} \cup {s[n]}
        BY <4>1, <4>2
      <4>4. QED
        BY <4>3 DEF q, r, Elements
    <3>3. QED
      BY <2>1, <2>2, <2>3, <2>5, <3>2
  <2>6. QED
    BY <2>4, <2>5
<1> HIDE DEF S
<1>5. \A n \in 0..Len(s) : n \in S
  BY <1>2, <1>3, <1>4, CountUp
<1>6. Len(s) \in 0..Len(s)
  BY <1>2
<1>7. Elements(rest[Len(s)]) = Seen(Len(s)) \ {x}
  BY <1>5, <1>6 DEF S
<1>8. QED
  BY <1>1, <1>2, <1>6, <1>7 DEF Elements

(* A session put in front stays there when another one is deleted.          *)
LEMMA WithoutSparesFirst ==
  ASSUME NEW T, NEW s \in Seq(T), NEW x, NEW y \in T, x # y
  PROVE  Without(<<y>> \o s, x) = <<y>> \o Without(s, x)
<1> DEFINE t == <<y>> \o s
<1>1. Len(s) \in Nat /\ \A n \in 1..Len(s) : s[n] \in T
  BY LenProperties, ElementOfSeq
<1>2. /\ t \in Seq(T) /\ Len(t) = Len(s) + 1 /\ t[1] = y /\ \A n \in 1..Len(s) : t[n + 1] = s[n]
  BY <1>1
<1>3. PICK rest \in [0..Len(s) -> Seq(T)] :
        /\ rest[0] = <<>>
        /\ \A n \in 1..Len(s) : rest[n] = IF s[n] = x THEN rest[n - 1] ELSE Append(rest[n - 1], s[n])
        /\ Without(s, x) = rest[Len(s)]
  <2>1. Removals(T, s, x) # {}
    BY WithoutLemma
  <2>2. QED
    BY <2>1 DEF Removals
<1> HIDE DEF t
<1>4. PICK left \in [0..Len(t) -> Seq(T)] :
        /\ left[0] = <<>>
        /\ \A n \in 1..Len(t) : left[n] = IF t[n] = x THEN left[n - 1] ELSE Append(left[n - 1], t[n])
        /\ Without(t, x) = left[Len(t)]
  <2>1. Removals(T, t, x) # {}
    BY <1>2, WithoutLemma
  <2>2. QED
    BY <2>1 DEF Removals
<1> DEFINE S == {n \in 0..Len(s) : left[n + 1] = <<y>> \o rest[n]}
<1>5. 0 \in S
  <2>1. 1 \in 1..Len(t) /\ 1 - 1 = 0 /\ 0 + 1 = 1
    BY <1>1, <1>2
  <2>2. left[1] = Append(<<>>, y)
    BY <1>2, <1>4, <2>1
  <2>3. Append(<<>>, y) = <<y>> /\ <<y>> \o <<>> = <<y>>
    OBVIOUS
  <2>4. left[0 + 1] = <<y>> \o rest[0] /\ 0 \in 0..Len(s)
    BY <1>1, <1>3, <2>1, <2>2, <2>3
  <2>5. QED
    BY <2>4
<1>6. ASSUME NEW n \in 1..Len(s), n - 1 \in S PROVE n \in S
  <2>1. n \in 0..Len(s) /\ n - 1 \in 0..Len(s) /\ n + 1 \in 1..Len(t) /\ (n + 1) - 1 = n /\ (n - 1) + 1 = n
    BY <1>1, <1>2
  <2>2. left[n] = <<y>> \o rest[n - 1] /\ rest[n - 1] \in Seq(T)
    BY <1>6, <2>1
  <2>3. left[n + 1] = IF s[n] = x THEN left[n] ELSE Append(left[n], s[n])
    BY <1>2, <1>4, <2>1
  <2>4. Append(<<y>> \o rest[n - 1], s[n]) = <<y>> \o Append(rest[n - 1], s[n])
    <3> DEFINE r == rest[n - 1]
    <3> HIDE DEF r
    <3>1. r \in Seq(T) /\ s[n] \in T
      BY <1>1, <2>2 DEF r
    <3>2. Append(<<y>> \o r, s[n]) = <<y>> \o Append(r, s[n])
      BY <3>1
    <3>3. QED
      BY <3>2 DEF r
  <2>5. QED
    BY <1>3, <2>1, <2>2, <2>3, <2>4
<1> HIDE DEF S
<1>7. \A n \in 0..Len(s) : n \in S
  BY <1>1, <1>5, <1>6, CountUp
<1>8. Len(s) \in 0..Len(s)
  BY <1>1
<1>9. left[Len(s) + 1] = <<y>> \o rest[Len(s)]
  BY <1>7, <1>8 DEF S
<1>10. QED
  BY <1>2, <1>3, <1>4, <1>9 DEF t

(* What a page names and lists is of its step; a creation that was served   *)
(* brings one session, and any other none.                                  *)
Belongs(p, b) ==
  /\ p.session # 0 => b[p.session] = p.step
  /\ \A x \in Elements(p.listed) \cup Elements(p.load.answer) \cup Elements(p.post.answer) : b[x] = p.step
  /\ IF p.post.at = "served" THEN \E x \in Ids : p.post.answer = <<x>> ELSE p.post.answer = <<>>
GoodPages(ps, b) == ps \in Seq(PageRecord) /\ ps # <<>> /\ \A v \in 1..Len(ps) : Belongs(ps[v], b)
GoodStore(st, b) == st \in [PageSteps -> {0} \cup Ids] /\ \A s \in PageSteps : st[s] # 0 => b[st[s]] = s
KeptBelong == \A s \in PageSteps, x \in Ids : x \in Elements(kept[s]) => born[x] = s

LEMMA PageFields ==
  ASSUME NEW p \in PageRecord
  PROVE  /\ p.step \in PageSteps /\ p.session \in {0} \cup Ids /\ p.target \in {0} \cup Ids
         /\ p.ensure \in BOOLEAN /\ p.asked \in BOOLEAN
         /\ p.listed \in Seq(Ids) /\ p.load.answer \in Seq(Ids) /\ p.post.answer \in Seq(Ids) /\ p.removal.answer = <<>>
         /\ p.load.at \in {"idle", "states", "sent", "served"} /\ p.post.at \in {"idle", "sent", "served"}
         /\ p.removal.at \in {"idle", "sent", "served", "refused"}
  BY DEF PageRecord

LEMMA EmptyList == <<>> \in Seq(Ids) /\ Elements(<<>>) = {}
<1>1. <<>> \in Seq(Ids)
  OBVIOUS
<1>2. QED
  BY <1>1, ElementsLemma

LEMMA PagesAreRecords ==
  ASSUME NEW b, NEW ps, GoodPages(ps, b)
  PROVE  /\ Len(ps) \in Nat \ {0} /\ DOMAIN ps = 1..Len(ps) /\ Len(ps) \in 1..Len(ps)
         /\ \A v \in 1..Len(ps) : ps[v] \in PageRecord /\ Belongs(ps[v], b)
<1>1. ps \in Seq(PageRecord) /\ ps # <<>>
  BY DEF GoodPages
<1>2. Len(ps) \in Nat \ {0} /\ DOMAIN ps = 1..Len(ps) /\ \A v \in 1..Len(ps) : ps[v] \in PageRecord
  BY <1>1, EmptySeq, LenProperties, ElementOfSeq
<1>3. QED
  BY <1>2 DEF GoodPages

(* One page changes.                                                        *)
LEMMA PagePut ==
  ASSUME NEW b, NEW ps, GoodPages(ps, b), NEW v \in 1..Len(ps), NEW r \in PageRecord, Belongs(r, b),
         NEW qs, qs = [ps EXCEPT ![v] = r]
  PROVE  GoodPages(qs, b) /\ Len(qs) = Len(ps) /\ qs[v] = r /\ \A u \in 1..Len(ps) : u # v => qs[u] = ps[u]
<1>1. ps \in Seq(PageRecord) /\ Len(ps) \in Nat \ {0}
  BY PagesAreRecords DEF GoodPages
<1>2. qs \in Seq(PageRecord) /\ Len(qs) = Len(ps) /\ \A u \in 1..Len(ps) : qs[u] = IF u = v THEN r ELSE ps[u]
  BY <1>1, ExceptSeq
<1>3. qs # <<>>
  BY <1>1, <1>2, EmptySeq
<1>4. \A u \in 1..Len(qs) : Belongs(qs[u], b)
  BY <1>2 DEF GoodPages
<1>5. QED
  BY <1>2, <1>3, <1>4 DEF GoodPages

(* A page is mounted.                                                       *)
LEMMA PageMounted ==
  ASSUME NEW b, NEW ps, GoodPages(ps, b), NEW s \in PageSteps, NEW x \in {0} \cup Ids, x # 0 => b[x] = s,
         NEW qs, qs = Append(ps, Mounted(s, x))
  PROVE  /\ GoodPages(qs, b) /\ Len(qs) = Len(ps) + 1 /\ qs[Len(qs)] = Mounted(s, x)
         /\ Mounted(s, x).step = s /\ \A u \in 1..Len(ps) : qs[u] = ps[u]
<1> DEFINE m == Mounted(s, x)
<1>1. m \in PageRecord /\ m.step = s /\ m.session = x /\ m.listed = <<>> /\ m.load.answer = <<>> /\ m.post = Idle
  BY EmptyList DEF Mounted, PageRecord, Idle
<1>2. Belongs(m, b)
  BY <1>1, EmptyList DEF Belongs, Idle
<1> HIDE DEF m
<1>3. ps \in Seq(PageRecord) /\ Len(ps) \in Nat \ {0}
  BY PagesAreRecords DEF GoodPages
<1>4. qs = Append(ps, m)
  BY DEF m
<1>5. /\ qs \in Seq(PageRecord) /\ Len(qs) = Len(ps) + 1 /\ qs[Len(ps) + 1] = m
      /\ \A u \in 1..Len(ps) : qs[u] = ps[u]
  BY <1>1, <1>3, <1>4
<1>6. qs # <<>>
  BY <1>3, <1>5, EmptySeq
<1>7. \A u \in 1..Len(qs) : u = Len(ps) + 1 \/ u \in 1..Len(ps)
  BY <1>3, <1>5
<1>8. \A u \in 1..Len(qs) : Belongs(qs[u], b)
  BY <1>2, <1>5, <1>7 DEF GoodPages
<1>9. QED
  BY <1>1, <1>5, <1>6, <1>8 DEF GoodPages, m

(* What a page opens belongs to its step, wherever the user is.             *)
LEMMA SessionPut ==
  ASSUME NEW b, NEW p \in PageRecord, Belongs(p, b), NEW x \in {0} \cup Ids, x # 0 => b[x] = p.step,
         NEW r, r = [p EXCEPT !.session = x]
  PROVE  r \in PageRecord /\ Belongs(r, b) /\ r.step = p.step
<1>1. /\ r \in PageRecord /\ r.step = p.step /\ r.session = x
      /\ r.listed = p.listed /\ r.load = p.load /\ r.post = p.post
  BY DEF PageRecord
<1>2. QED
  BY <1>1 DEF Belongs

LEMMA ReplaceLemma ==
  ASSUME NEW b, NEW ps, GoodPages(ps, b), NEW v \in 1..Len(ps), NEW x \in {0} \cup Ids, x # 0 => b[x] = ps[v].step,
         NEW qs, qs = Replace(ps, v, x)
  PROVE  /\ GoodPages(qs, b) /\ v \in 1..Len(qs) /\ Len(qs) = Len(Replace(ps, v, 0))
         /\ qs[v].step = ps[v].step /\ qs[Len(qs)].step = ps[v].step
         /\ ps[Len(ps)].step = ps[v].step => Len(qs) = Len(ps)
         /\ v = Len(ps) => qs = [ps EXCEPT ![v] = [ps[v] EXCEPT !.session = x]]
<1> DEFINE n == Len(ps)
<1>1. /\ n \in Nat \ {0} /\ DOMAIN ps = 1..n /\ n \in 1..n
      /\ \A u \in 1..n : ps[u] \in PageRecord /\ Belongs(ps[u], b) /\ ps[u].step \in PageSteps
  BY PagesAreRecords, PageFields
<1>2. CASE ps[n].step = ps[v].step
  <2> DEFINE r(y) == [ps[n] EXCEPT !.session = y]
  <2>1. r(x) \in PageRecord /\ Belongs(r(x), b) /\ r(x).step = ps[n].step
    <3>1. ps[n] \in PageRecord /\ Belongs(ps[n], b) /\ (x # 0 => b[x] = ps[n].step)
      BY <1>1, <1>2
    <3> HIDE DEF n
    <3>2. QED
      BY <3>1, SessionPut
  <2>2. qs = [ps EXCEPT ![n] = r(x)] /\ Replace(ps, v, 0) = [ps EXCEPT ![n] = r(0)]
    BY <1>2 DEF Replace
  <2> HIDE DEF r
  <2>3. GoodPages(qs, b) /\ Len(qs) = n /\ qs[n] = r(x) /\ \A u \in 1..n : u # n => qs[u] = ps[u]
    BY <1>1, <2>1, <2>2, PagePut
  <2>4. Len(Replace(ps, v, 0)) = n
    BY <1>1, <2>2
  <2>5. QED
    BY <1>1, <1>2, <2>1, <2>2, <2>3, <2>4 DEF r
<1>3. CASE ps[n].step # ps[v].step
  <2>1. qs = Append(ps, Mounted(ps[v].step, x)) /\ Replace(ps, v, 0) = Append(ps, Mounted(ps[v].step, 0))
    BY <1>3 DEF Replace
  <2>2. /\ GoodPages(qs, b) /\ Len(qs) = n + 1 /\ qs[Len(qs)] = Mounted(ps[v].step, x)
        /\ Mounted(ps[v].step, x).step = ps[v].step /\ \A u \in 1..n : qs[u] = ps[u]
    <3>1. ps[v].step \in PageSteps
      BY <1>1
    <3>2. GoodPages(qs, b)
      <4> DEFINE s == ps[v].step
                 w == Append(ps, Mounted(s, x))
      <4>1. s \in PageSteps /\ (x # 0 => b[x] = s) /\ w = Append(ps, Mounted(s, x)) /\ qs = w
        BY <2>1, <3>1
      <4> HIDE DEF s, w
      <4>2. GoodPages(w, b)
        BY <4>1, PageMounted
      <4>3. QED
        BY <4>1, <4>2
    <3>3. Len(qs) = Len(ps) + 1
      BY <2>1, <3>1, PageMounted
    <3>4. qs[Len(qs)] = Mounted(ps[v].step, x)
      BY <2>1, <3>1, PageMounted
    <3>5. Mounted(ps[v].step, x).step = ps[v].step
      BY <2>1, <3>1, PageMounted
    <3>6. \A u \in 1..Len(ps) : qs[u] = ps[u]
      BY <2>1, <3>1, PageMounted
    <3>7. QED
      BY <3>2, <3>3, <3>4, <3>5, <3>6
  <2>3. Len(Replace(ps, v, 0)) = n + 1
    <3> DEFINE q == Replace(ps, v, 0)
    <3>1. ps[v].step \in PageSteps /\ 0 \in {0} \cup Ids /\ q = Append(ps, Mounted(ps[v].step, 0))
      BY <1>1, <2>1
    <3> HIDE DEF q
    <3>2. Len(q) = Len(ps) + 1
      BY <3>1, PageMounted
    <3>3. QED
      BY <3>2 DEF q
  <2>4. v \in 1..Len(qs) /\ v # n
    <3>1. n \in Nat /\ v \in 1..n /\ Len(qs) = n + 1
      BY <1>1, <2>2
    <3> HIDE DEF n
    <3>2. v \in 1..Len(qs)
      BY <3>1
    <3>3. QED
      BY <1>3, <3>2
  <2>5. QED
    BY <1>3, <2>2, <2>3, <2>4
<1>4. QED
  BY <1>2, <1>3

(* ensureActiveSession opens a session of the page's step or asks for one.  *)
Sending(post) == IF post = Idle THEN [Idle EXCEPT !.at = "sent"] ELSE post
Ensured(ps, v) ==
  \/ ps[v].session # 0 /\ pages' = ps /\ stored' = stored
  \/ /\ ps[v].session = 0 /\ ps[v].listed # <<>>
     /\ \E y \in Elements(ps[v].listed) :
          /\ pages' = [ps EXCEPT ![v] = [ps[v] EXCEPT !.session = y]]
          /\ stored' = [stored EXCEPT ![ps[v].step] = y]
  \/ /\ ps[v].session = 0 /\ ps[v].listed = <<>> /\ stored' = stored
     /\ pages' = [ps EXCEPT ![v] = [ps[v] EXCEPT !.post = Sending(@)]]
LEMMA EnsureLemma ==
  ASSUME GoodStore(stored, born), NEW ps, GoodPages(ps, born), NEW v \in 1..Len(ps),
         Len(Replace(ps, v, 0)) <= MaxVisits, Len(ps) <= MaxVisits, Ensure(ps, v)
  PROVE  /\ GoodPages(pages', born) /\ GoodStore(stored', born) /\ Len(pages') <= MaxVisits
         /\ v = Len(ps) => Ensured(ps, v)
<1> DEFINE p == ps[v]
           pick == IF stored[p.step] \in Elements(p.listed) THEN stored[p.step] ELSE p.listed[1]
<1>1. p \in PageRecord /\ Belongs(p, born) /\ v \in DOMAIN ps
  BY PagesAreRecords
<1>2. p.step \in PageSteps /\ p.listed \in Seq(Ids) /\ p.post.at \in {"idle", "sent", "served"} /\ p.post.answer \in Seq(Ids)
  BY <1>1, PageFields
<1>3. CASE p.session # 0
  <2>1. pages' = ps /\ stored' = stored
    BY <1>3 DEF Ensure
  <2>2. QED
    BY <1>3, <2>1 DEF Ensured
<1>4. CASE p.session = 0 /\ p.listed # <<>>
  <2>1. pages' = Replace(ps, v, pick) /\ stored' = [stored EXCEPT ![p.step] = pick]
    BY <1>4 DEF Ensure
  <2>2. pick \in Elements(p.listed) /\ Elements(p.listed) \subseteq Ids
    BY <1>2, <1>4, ElementsLemma
  <2> HIDE DEF pick
  <2>3. born[pick] = p.step /\ pick \in {0} \cup Ids
    BY <1>1, <2>2 DEF Belongs
  <2>4. /\ GoodPages(pages', born) /\ Len(pages') = Len(Replace(ps, v, 0))
        /\ v = Len(ps) => pages' = [ps EXCEPT ![v] = [ps[v] EXCEPT !.session = pick]]
    BY <2>1, <2>3, ReplaceLemma
  <2>5. GoodStore(stored', born)
    BY <1>2, <2>1, <2>3 DEF GoodStore
  <2>6. QED
    BY <1>4, <2>1, <2>2, <2>4, <2>5 DEF Ensured
<1>5. CASE p.session = 0 /\ p.listed = <<>>
  <2> DEFINE r == [p EXCEPT !.post = Sending(@)]
  <2>1. stored' = stored /\ pages' = [ps EXCEPT ![v] = r]
    BY <1>5 DEF Ensure, Sending
  <2>2. /\ r \in PageRecord /\ r.step = p.step /\ r.session = p.session /\ r.listed = p.listed /\ r.load = p.load
        /\ r.post = Sending(p.post)
    BY <1>1, EmptyList DEF PageRecord, Sending, Idle
  <2>3. r.post = p.post \/ (r.post.at = "sent" /\ r.post.answer = <<>>)
    BY <2>2 DEF Sending, Idle
  <2> HIDE DEF r
  <2>4. Belongs(r, born)
    <3>1. CASE r.post = p.post
      BY <1>1, <2>2, <3>1 DEF Belongs
    <3>2. CASE r.post.at = "sent" /\ r.post.answer = <<>>
      BY <1>1, <2>2, <3>2, EmptyList DEF Belongs
    <3>3. QED
      BY <2>3, <3>1, <3>2
  <2>5. GoodPages(pages', born) /\ Len(pages') = Len(ps)
    <3>1. r \in PageRecord /\ Belongs(r, born) /\ pages' = [ps EXCEPT ![v] = r]
      BY <2>1, <2>2, <2>4
    <3>2. GoodPages(pages', born)
      BY <3>1, PagePut
    <3>3. Len(pages') = Len(ps)
      BY <3>1, PagePut
    <3>4. QED
      BY <3>2, <3>3
  <2>6. QED
    BY <1>5, <2>1, <2>5 DEF r, Ensured
<1>6. QED
  BY <1>3, <1>4, <1>5

(* Nobody left a busy page, no request failed, no load crossed a creation   *)
(* or a deletion.                                                           *)
PageCalm == ~doings.hasty /\ ~doings.failed /\ ~doings.crossed
(* The session a creation brings, and the list once a deletion is shown.    *)
Posted(p) == IF p.post.at = "served" THEN p.post.answer ELSE <<>>
Left(p) == IF p.removal.at = "served" THEN Without(p.listed, p.target) ELSE p.listed
(* Of a page that is shown, of the sessions `has` of its step, and of the    *)
(* one remembered: where the page is, and what it shows there.              *)
LoadingIsAlone(p, has) ==
  p.load # Idle => /\ p.post = Idle /\ p.removal = Idle
                   /\ p.ensure => p.session = 0 /\ p.listed = <<>>
                   /\ ~p.ensure => p.session # 0
                   /\ p.load.at = "served" => p.load.answer = has
ListIsKept(p, has) == p.load = Idle \/ ~p.ensure => has = Posted(p) \o Left(p)
SessionIsListed(p, last) == p.session # 0 => p.session \in Elements(p.listed) /\ last = p.session
SessionIsMade(p, has) ==
  /\ p.session = 0 => p.load # Idle \/ p.post # Idle
  /\ p.post.at = "sent" /\ ~p.asked => p.listed = <<>> /\ has = <<>>
PostedIsNew(p) == p.post.at = "served" => \E x \in Ids : p.post.answer = <<x>> /\ x \notin Elements(p.listed)
DeletedIsListed(p) == p.removal # Idle => p.target \in Elements(p.listed)
CalmPage(p, has, last) ==
  /\ LoadingIsAlone(p, has) /\ ListIsKept(p, has) /\ SessionIsListed(p, last)
  /\ SessionIsMade(p, has) /\ PostedIsNew(p) /\ DeletedIsListed(p)
CalmShown == CalmPage(pages[Shown], kept[pages[Shown].step], stored[pages[Shown].step])
CalmPages == PageCalm => ~doings.spare /\ (\A v \in 1..Shown : v # Shown => ~Busy(v)) /\ CalmShown
StepPageInv ==
  PageTypeOK /\ GoodPages(pages, born) /\ GoodStore(stored, born) /\ KeptBelong /\ CalmPages

LEMMA ShownPages ==
  ASSUME StepPageInv
  PROVE  /\ Shown \in Nat \ {0} /\ DOMAIN pages = 1..Shown /\ Shown \in 1..Shown /\ Shown <= MaxVisits
         /\ \A v \in 1..Shown : pages[v] \in PageRecord /\ Belongs(pages[v], born) /\ pages[v].step \in PageSteps
<1>1. GoodPages(pages, born) /\ Len(pages) \in 1..MaxVisits
  BY DEF StepPageInv, PageTypeOK, Shown
<1>2. /\ Len(pages) \in Nat \ {0} /\ DOMAIN pages = 1..Len(pages) /\ Len(pages) \in 1..Len(pages)
      /\ \A v \in 1..Len(pages) : pages[v] \in PageRecord /\ Belongs(pages[v], born)
  BY <1>1, PagesAreRecords
<1>3. QED
  BY <1>1, <1>2, PageFields, StepPageAssumption DEF Shown

LEMMA BusyIsShown ==
  ASSUME StepPageInv, PageCalm, NEW v \in 1..Shown, Busy(v)
  PROVE  v = Shown /\ CalmShown /\ ~doings.spare
  BY DEF StepPageInv, CalmPages

(* A page is changed by what was asked on it, and the rest of what there is *)
(* stays sound.                                                             *)
Untouched == UNCHANGED <<kept, born, stored>>
LEMMA PageChanged ==
  ASSUME StepPageInv, NEW v \in 1..Shown, NEW r \in PageRecord, Belongs(r, born'), r.step = pages[v].step,
         pages' = [pages EXCEPT ![v] = r], GoodPages(pages, born'), born' \in [Ids -> PageSteps \cup {"none"}],
         kept' \in [PageSteps -> Seq(Ids)], KeptBelong', GoodStore(stored', born'),
         doings' \in [clicks : 0..MaxClicks, hasty : BOOLEAN, failed : BOOLEAN, crossed : BOOLEAN, spare : BOOLEAN],
         PageCalm' => /\ PageCalm /\ v = Shown /\ ~doings'.spare
                      /\ CalmPage(r, kept'[r.step], stored'[r.step])
  PROVE  StepPageInv'
<1>1. GoodPages(pages, born') /\ v \in 1..Len(pages)
  BY DEF Shown
<1>2. GoodPages(pages', born')
  BY <1>1, PagePut
<1>3. Len(pages') = Len(pages)
  BY <1>1, PagePut
<1>4. pages'[v] = r
  BY <1>1, PagePut
<1>5. \A u \in 1..Len(pages) : u # v => pages'[u] = pages[u]
  BY <1>1, PagePut
<1>6. PageTypeOK'
  BY <1>2, <1>3 DEF StepPageInv, PageTypeOK, GoodPages, GoodStore, Shown
<1>7. CalmPages'
  <2> SUFFICES ASSUME PageCalm' PROVE ~doings'.spare /\ (\A u \in 1..Shown' : u # Shown' => ~Busy(u)') /\ CalmShown'
    BY DEF CalmPages
  <2>1. v = Shown /\ Shown' = Shown /\ \A u \in 1..Shown : u # v => ~Busy(u)
    BY <1>3 DEF StepPageInv, CalmPages, Shown
  <2>2. \A u \in 1..Shown' : u # Shown' => ~Busy(u)'
    BY <1>5, <2>1 DEF Busy, Shown
  <2>3. CalmShown'
    BY <1>4, <2>1 DEF CalmShown
  <2>4. QED
    BY <2>2, <2>3
<1>8. QED
  BY <1>2, <1>6, <1>7 DEF StepPageInv

(* The same, of an action that touches nothing but its page and doings.     *)
LEMMA PageAlone ==
  ASSUME StepPageInv, NEW v \in 1..Shown, NEW r \in PageRecord, Belongs(r, born), r.step = pages[v].step,
         pages' = [pages EXCEPT ![v] = r], Untouched,
         doings' \in [clicks : 0..MaxClicks, hasty : BOOLEAN, failed : BOOLEAN, crossed : BOOLEAN, spare : BOOLEAN],
         PageCalm' => /\ PageCalm /\ v = Shown /\ ~doings'.spare
                      /\ CalmPage(r, kept[r.step], stored[r.step])
  PROVE  StepPageInv'
<1>1. /\ kept' \in [PageSteps -> Seq(Ids)] /\ KeptBelong' /\ GoodStore(stored', born') /\ UNCHANGED <<kept, born, stored>>
      /\ Belongs(r, born') /\ GoodPages(pages, born') /\ born' \in [Ids -> PageSteps \cup {"none"}]
  BY DEF StepPageInv, PageTypeOK, KeptBelong, Untouched
<1>2. QED
  BY <1>1, PageChanged

LEMMA Initially == PageInit => StepPageInv
<1> SUFFICES ASSUME PageInit PROVE StepPageInv
  OBVIOUS
<1> DEFINE s0 == CHOOSE s \in PageSteps : TRUE
           m == Mounted(s0, 0)
<1>1. s0 \in PageSteps
  BY StepPageAssumption
<1>2. /\ m \in PageRecord /\ m.step = s0 /\ m.session = 0 /\ m.listed = <<>> /\ m.load.answer = <<>> /\ m.load # Idle
      /\ m.post = Idle /\ m.removal = Idle /\ m.load.at = "states" /\ m.ensure = TRUE
  BY <1>1, EmptyList DEF Mounted, PageRecord, Idle
<1>3. pages = <<m>>
  BY DEF PageInit
<1> HIDE DEF s0, m
<1>4. pages \in Seq(PageRecord) /\ Len(pages) = 1 /\ pages[1] = m /\ pages # <<>>
  BY <1>2, <1>3
<1>5. Belongs(m, born)
  BY <1>2, EmptyList DEF Belongs, Idle
<1>6. \A v \in 1..Len(pages) : v = 1
  BY <1>4
<1>7. GoodPages(pages, born)
  BY <1>4, <1>5, <1>6 DEF GoodPages
<1>8. 1 \in Ids /\ 0 \in {0} \cup Ids
  BY StepPageAssumption DEF Ids
<1>9. <<>> \in Seq(Ids) /\ <<1>> \in Seq(Ids) /\ Elements(<<>>) = {} /\ Elements(<<1>>) = {1}
  BY <1>8, ElementsLemma, EmptyList
<1>10. born \in [Ids -> PageSteps \cup {"none"}]
  BY DEF PageInit, Ids
<1>11. KeptBelong
  <2> SUFFICES ASSUME NEW s \in PageSteps, NEW x \in Ids, x \in Elements(kept[s]) PROVE born[x] = s
    BY DEF KeptBelong
  <2>1. kept[s] # <<>> /\ x = 1
    <3>1. kept[s] = <<>> \/ kept[s] = <<1>>
      BY DEF PageInit
    <3>2. QED
      BY <1>9, <3>1
  <2>2. born[x] = CHOOSE t \in PageSteps : kept[t] # <<>>
    BY <2>1 DEF PageInit, Ids
  <2>3. \A t \in PageSteps : kept[t] # <<>> => t = s
    BY <2>1 DEF PageInit
  <2>4. QED
    BY <2>1, <2>2, <2>3
<1>12. stored = [s \in PageSteps |-> 0] /\ doings = [clicks |-> 0, hasty |-> FALSE, failed |-> FALSE, crossed |-> FALSE, spare |-> FALSE]
  BY DEF PageInit
<1>13. GoodStore(stored, born)
  BY <1>8, <1>12 DEF GoodStore
<1>14. PageTypeOK
  <2>1. kept \in [PageSteps -> Seq(Ids)]
    BY <1>9 DEF PageInit
  <2>2. QED
    BY <1>4, <1>10, <1>12, <1>13, <2>1, StepPageAssumption DEF PageTypeOK, Shown, GoodStore
<1>15. CalmPages
  <2>1. CalmPage(m, kept[m.step], stored[m.step])
    BY <1>2 DEF CalmPage, LoadingIsAlone, ListIsKept, SessionIsListed, SessionIsMade, PostedIsNew, DeletedIsListed, Idle
  <2>2. Shown = 1 /\ pages[Shown] = m
    BY <1>4 DEF Shown
  <2>3. QED
    BY <1>12, <2>1, <2>2 DEF CalmPages, CalmShown
<1>16. QED
  BY <1>7, <1>11, <1>13, <1>14, <1>15 DEF StepPageInv

LEMMA DoingsTyped ==
  ASSUME StepPageInv
  PROVE  /\ \A c \in BOOLEAN : Click(c) =>
              doings' \in [clicks : 0..MaxClicks, hasty : BOOLEAN, failed : BOOLEAN, crossed : BOOLEAN, spare : BOOLEAN]
         /\ doings' = doings \/ (\E f \in BOOLEAN : doings' = [doings EXCEPT !.failed = f]) =>
              doings' \in [clicks : 0..MaxClicks, hasty : BOOLEAN, failed : BOOLEAN, crossed : BOOLEAN, spare : BOOLEAN]
<1>1. doings \in [clicks : 0..MaxClicks, hasty : BOOLEAN, failed : BOOLEAN, crossed : BOOLEAN, spare : BOOLEAN]
  BY DEF StepPageInv, PageTypeOK
<1>2. ASSUME NEW c \in BOOLEAN, Click(c)
      PROVE  doings' \in [clicks : 0..MaxClicks, hasty : BOOLEAN, failed : BOOLEAN, crossed : BOOLEAN, spare : BOOLEAN]
  <2>1. doings.clicks + 1 \in 0..MaxClicks /\ (doings.crossed \/ c) \in BOOLEAN
    BY <1>1, <1>2, StepPageAssumption DEF Click
  <2>2. doings' = [doings EXCEPT !.clicks = doings.clicks + 1, !.crossed = doings.crossed \/ c]
    BY <1>2 DEF Click
  <2>3. QED
    BY <1>1, <2>1, <2>2
<1>3. ASSUME NEW f \in BOOLEAN, doings' = [doings EXCEPT !.failed = f]
      PROVE  doings' \in [clicks : 0..MaxClicks, hasty : BOOLEAN, failed : BOOLEAN, crossed : BOOLEAN, spare : BOOLEAN]
  BY <1>1, <1>3
<1>4. QED
  BY <1>1, <1>2, <1>3

(* The user asks for a new session.                                         *)
LEMMA CreateIsAsked ==
  ASSUME StepPageInv, CreateSession
  PROVE  StepPageInv'
<1> DEFINE p == pages[Shown]
           r == [p EXCEPT !.post = [@ EXCEPT !.at = "sent"], !.asked = TRUE]
<1>1. /\ Shown \in 1..Shown /\ Shown \in DOMAIN pages /\ p \in PageRecord /\ Belongs(p, born) /\ p.step \in PageSteps
      /\ doings \in [clicks : 0..MaxClicks, hasty : BOOLEAN, failed : BOOLEAN, crossed : BOOLEAN, spare : BOOLEAN]
  BY ShownPages DEF StepPageInv, PageTypeOK
<1>2. p.post = Idle /\ pages' = [pages EXCEPT ![Shown] = r]
  BY <1>1 DEF CreateSession, PageRecord
<1>3. Untouched /\ doings' \in [clicks : 0..MaxClicks, hasty : BOOLEAN, failed : BOOLEAN, crossed : BOOLEAN, spare : BOOLEAN]
  BY <1>1, DoingsTyped DEF CreateSession, Untouched, Busy
<1>4. PageCalm' => PageCalm /\ doings'.spare = doings.spare /\ p.load = Idle
  BY <1>1 DEF CreateSession, Click, PageCalm, Busy
<1>5. /\ r \in PageRecord
      /\ r.step = p.step /\ r.session = p.session /\ r.listed = p.listed
      /\ r.ensure = p.ensure /\ r.asked = TRUE /\ r.target = p.target
      /\ r.load = p.load /\ r.post = [Idle EXCEPT !.at = "sent"] /\ r.removal = p.removal
  BY <1>1, <1>2, EmptyList, PageFields DEF PageRecord, Idle
<1> HIDE DEF r
<1>6. Belongs(r, born)
  BY <1>1, <1>2, <1>5, EmptyList DEF Belongs, Idle
<1>7. ASSUME PageCalm'
      PROVE  PageCalm /\ Shown = Shown /\ ~doings'.spare /\ CalmPage(r, kept[r.step], stored[r.step])
  <2>1. Shown = Shown /\ CalmPage(p, kept[p.step], stored[p.step]) /\ ~doings.spare
    BY <1>1, <1>2, <1>4, <1>7, BusyIsShown DEF StepPageInv, CalmPages, CalmShown, Busy, Idle
  <2> HIDE DEF p
  <2>2. LoadingIsAlone(r, kept[r.step])
    BY <1>2, <1>4, <1>5, <1>7, <2>1 DEF CalmPage, LoadingIsAlone, SessionIsMade, Idle
  <2>3. ListIsKept(r, kept[r.step])
    <3>1. Posted(r) = Posted(p) /\ Left(r) = Left(p)
      BY <1>2, <1>4, <1>5, <1>7 DEF Posted, Left, Idle
    <3>2. (r.load = Idle \/ ~r.ensure) => (p.load = Idle \/ ~p.ensure)
      BY <1>2, <1>4, <1>5, <1>7 DEF Idle
    <3>3. QED
      BY <1>5, <2>1, <3>1, <3>2 DEF CalmPage, ListIsKept
  <2>4. SessionIsListed(r, stored[r.step])
    BY <1>2, <1>4, <1>5, <1>7, <2>1 DEF CalmPage, SessionIsListed, LoadingIsAlone, Idle
  <2>5. SessionIsMade(r, kept[r.step])
    BY <1>2, <1>4, <1>5, <1>7, <2>1 DEF CalmPage, SessionIsMade, LoadingIsAlone, Idle
  <2>6. PostedIsNew(r)
    BY <1>2, <1>4, <1>5, <1>7, <2>1 DEF CalmPage, PostedIsNew, Idle
  <2>7. DeletedIsListed(r)
    BY <1>2, <1>4, <1>5, <1>7, <2>1 DEF CalmPage, DeletedIsListed, LoadingIsAlone, Idle
  <2>8. QED
    BY <1>4, <1>7, <2>1, <2>2, <2>3, <2>4, <2>5, <2>6, <2>7 DEF CalmPage
<1>8. QED
  BY <1>1, <1>2, <1>3, <1>5, <1>6, <1>7, PageAlone

(* The user deletes a session.                                              *)
LEMMA DeletionIsAsked ==
  ASSUME StepPageInv, NEW x \in Ids, ConfirmDeleteSession(x)
  PROVE  StepPageInv'
<1> DEFINE p == pages[Shown]
           r == [p EXCEPT !.removal = [@ EXCEPT !.at = "sent"], !.target = x]
<1>1. /\ Shown \in 1..Shown /\ Shown \in DOMAIN pages /\ p \in PageRecord /\ Belongs(p, born) /\ p.step \in PageSteps
      /\ doings \in [clicks : 0..MaxClicks, hasty : BOOLEAN, failed : BOOLEAN, crossed : BOOLEAN, spare : BOOLEAN]
  BY ShownPages DEF StepPageInv, PageTypeOK
<1>2. p.removal = Idle /\ x \in Elements(p.listed) /\ pages' = [pages EXCEPT ![Shown] = r]
  BY <1>1 DEF ConfirmDeleteSession, PageRecord
<1>3. Untouched /\ doings' \in [clicks : 0..MaxClicks, hasty : BOOLEAN, failed : BOOLEAN, crossed : BOOLEAN, spare : BOOLEAN]
  BY <1>1, DoingsTyped DEF ConfirmDeleteSession, Untouched, Busy
<1>4. PageCalm' => PageCalm /\ doings'.spare = doings.spare /\ p.load = Idle
  BY <1>1 DEF ConfirmDeleteSession, Click, PageCalm, Busy
<1>5. /\ r \in PageRecord
      /\ r.step = p.step /\ r.session = p.session /\ r.listed = p.listed
      /\ r.ensure = p.ensure /\ r.asked = p.asked /\ r.target = x
      /\ r.load = p.load /\ r.post = p.post /\ r.removal = [Idle EXCEPT !.at = "sent"]
  BY <1>1, <1>2, EmptyList, PageFields DEF PageRecord, Idle
<1> HIDE DEF r
<1>6. Belongs(r, born)
  BY <1>1, <1>2, <1>5, EmptyList DEF Belongs, Idle
<1>7. ASSUME PageCalm'
      PROVE  PageCalm /\ Shown = Shown /\ ~doings'.spare /\ CalmPage(r, kept[r.step], stored[r.step])
  <2>1. Shown = Shown /\ CalmPage(p, kept[p.step], stored[p.step]) /\ ~doings.spare
    BY <1>1, <1>2, <1>4, <1>7, BusyIsShown DEF StepPageInv, CalmPages, CalmShown, Busy, Idle
  <2> HIDE DEF p
  <2>2. LoadingIsAlone(r, kept[r.step])
    BY <1>2, <1>4, <1>5, <1>7, <2>1 DEF CalmPage, LoadingIsAlone, SessionIsMade, Idle
  <2>3. ListIsKept(r, kept[r.step])
    <3>1. Posted(r) = Posted(p) /\ Left(r) = Left(p)
      BY <1>2, <1>4, <1>5, <1>7 DEF Posted, Left, Idle
    <3>2. (r.load = Idle \/ ~r.ensure) => (p.load = Idle \/ ~p.ensure)
      BY <1>2, <1>4, <1>5, <1>7 DEF Idle
    <3>3. QED
      BY <1>5, <2>1, <3>1, <3>2 DEF CalmPage, ListIsKept
  <2>4. SessionIsListed(r, stored[r.step])
    BY <1>2, <1>4, <1>5, <1>7, <2>1 DEF CalmPage, SessionIsListed, LoadingIsAlone, Idle
  <2>5. SessionIsMade(r, kept[r.step])
    BY <1>2, <1>4, <1>5, <1>7, <2>1 DEF CalmPage, SessionIsMade, LoadingIsAlone, Idle
  <2>6. PostedIsNew(r)
    BY <1>2, <1>4, <1>5, <1>7, <2>1 DEF CalmPage, PostedIsNew, Idle
  <2>7. DeletedIsListed(r)
    BY <1>2, <1>4, <1>5, <1>7, <2>1 DEF CalmPage, DeletedIsListed, LoadingIsAlone, Idle
  <2>8. QED
    BY <1>4, <1>7, <2>1, <2>2, <2>3, <2>4, <2>5, <2>6, <2>7 DEF CalmPage
<1>8. QED
  BY <1>1, <1>2, <1>3, <1>5, <1>6, <1>7, PageAlone

(* A turn has ended, and the list is loaded again.                          *)
LEMMA ReloadIsAsked ==
  ASSUME StepPageInv, OnTurnCompleted
  PROVE  StepPageInv'
<1> DEFINE p == pages[Shown]
           r == [p EXCEPT !.load = [@ EXCEPT !.at = "sent"], !.ensure = FALSE]
<1>1. /\ Shown \in 1..Shown /\ Shown \in DOMAIN pages /\ p \in PageRecord /\ Belongs(p, born) /\ p.step \in PageSteps
      /\ doings \in [clicks : 0..MaxClicks, hasty : BOOLEAN, failed : BOOLEAN, crossed : BOOLEAN, spare : BOOLEAN]
  BY ShownPages DEF StepPageInv, PageTypeOK
<1>2. p.load = Idle /\ p.session # 0 /\ pages' = [pages EXCEPT ![Shown] = r]
  BY <1>1 DEF OnTurnCompleted, PageRecord
<1>3. Untouched /\ doings' \in [clicks : 0..MaxClicks, hasty : BOOLEAN, failed : BOOLEAN, crossed : BOOLEAN, spare : BOOLEAN]
  BY <1>1, DoingsTyped DEF OnTurnCompleted, Untouched, Busy
<1>4. PageCalm' => PageCalm /\ doings'.spare = doings.spare /\ p.post = Idle /\ p.removal = Idle
  BY <1>1 DEF OnTurnCompleted, Click, PageCalm, Busy
<1>5. /\ r \in PageRecord
      /\ r.step = p.step /\ r.session = p.session /\ r.listed = p.listed
      /\ r.ensure = FALSE /\ r.asked = p.asked /\ r.target = p.target
      /\ r.load = [Idle EXCEPT !.at = "sent"] /\ r.post = p.post /\ r.removal = p.removal
  BY <1>1, <1>2, EmptyList, PageFields DEF PageRecord, Idle
<1> HIDE DEF r
<1>6. Belongs(r, born)
  BY <1>1, <1>2, <1>5, EmptyList DEF Belongs, Idle
<1>7. ASSUME PageCalm'
      PROVE  PageCalm /\ Shown = Shown /\ ~doings'.spare /\ CalmPage(r, kept[r.step], stored[r.step])
  <2>1. Shown = Shown /\ CalmPage(p, kept[p.step], stored[p.step]) /\ ~doings.spare
    BY <1>1, <1>2, <1>4, <1>7, BusyIsShown DEF StepPageInv, CalmPages, CalmShown, Busy, Idle
  <2> HIDE DEF p
  <2>2. LoadingIsAlone(r, kept[r.step])
    BY <1>2, <1>4, <1>5, <1>7, <2>1 DEF CalmPage, LoadingIsAlone, SessionIsMade, Idle
  <2>3. ListIsKept(r, kept[r.step])
    <3>1. Posted(r) = Posted(p) /\ Left(r) = Left(p)
      BY <1>2, <1>4, <1>5, <1>7 DEF Posted, Left, Idle
    <3>2. (r.load = Idle \/ ~r.ensure) => (p.load = Idle \/ ~p.ensure)
      BY <1>2, <1>4, <1>5, <1>7 DEF Idle
    <3>3. QED
      BY <1>5, <2>1, <3>1, <3>2 DEF CalmPage, ListIsKept
  <2>4. SessionIsListed(r, stored[r.step])
    BY <1>2, <1>4, <1>5, <1>7, <2>1 DEF CalmPage, SessionIsListed, LoadingIsAlone, Idle
  <2>5. SessionIsMade(r, kept[r.step])
    BY <1>2, <1>4, <1>5, <1>7, <2>1 DEF CalmPage, SessionIsMade, LoadingIsAlone, Idle
  <2>6. PostedIsNew(r)
    BY <1>2, <1>4, <1>5, <1>7, <2>1 DEF CalmPage, PostedIsNew, Idle
  <2>7. DeletedIsListed(r)
    BY <1>2, <1>4, <1>5, <1>7, <2>1 DEF CalmPage, DeletedIsListed, LoadingIsAlone, Idle
  <2>8. QED
    BY <1>4, <1>7, <2>1, <2>2, <2>3, <2>4, <2>5, <2>6, <2>7 DEF CalmPage
<1>8. QED
  BY <1>1, <1>2, <1>3, <1>5, <1>6, <1>7, PageAlone

(* The list is asked for.                                                   *)
LEMMA ListIsAsked ==
  ASSUME StepPageInv, NEW v \in 1..Shown, LoadSessions(v)
  PROVE  StepPageInv'
<1> DEFINE p == pages[v]
           r == [p EXCEPT !.load = [@ EXCEPT !.at = "sent"]]
<1>1. /\ v \in 1..Shown /\ v \in DOMAIN pages /\ p \in PageRecord /\ Belongs(p, born) /\ p.step \in PageSteps
      /\ doings \in [clicks : 0..MaxClicks, hasty : BOOLEAN, failed : BOOLEAN, crossed : BOOLEAN, spare : BOOLEAN]
  BY ShownPages DEF StepPageInv, PageTypeOK
<1>2. p.load.at = "states" /\ pages' = [pages EXCEPT ![v] = r]
  BY <1>1 DEF LoadSessions, PageRecord
<1>3. Untouched /\ doings' \in [clicks : 0..MaxClicks, hasty : BOOLEAN, failed : BOOLEAN, crossed : BOOLEAN, spare : BOOLEAN]
  BY <1>1, DoingsTyped DEF LoadSessions, Untouched, Busy
<1>4. PageCalm' => PageCalm /\ doings'.spare = doings.spare
  BY <1>1 DEF LoadSessions, Click, PageCalm, Busy
<1>5. /\ r \in PageRecord
      /\ r.step = p.step /\ r.session = p.session /\ r.listed = p.listed
      /\ r.ensure = p.ensure /\ r.asked = p.asked /\ r.target = p.target
      /\ r.load = [p.load EXCEPT !.at = "sent"] /\ r.post = p.post /\ r.removal = p.removal
  BY <1>1, <1>2, EmptyList, PageFields DEF PageRecord, Idle
<1> HIDE DEF r
<1>6. Belongs(r, born)
  BY <1>1, <1>2, <1>5, EmptyList DEF Belongs, Idle
<1>7. ASSUME PageCalm'
      PROVE  PageCalm /\ v = Shown /\ ~doings'.spare /\ CalmPage(r, kept[r.step], stored[r.step])
  <2>1. v = Shown /\ CalmPage(p, kept[p.step], stored[p.step]) /\ ~doings.spare
    BY <1>1, <1>2, <1>4, <1>7, BusyIsShown DEF StepPageInv, CalmPages, CalmShown, Busy, Idle
  <2> HIDE DEF p
  <2>2. LoadingIsAlone(r, kept[r.step])
    BY <1>2, <1>4, <1>5, <1>7, <2>1 DEF CalmPage, LoadingIsAlone, SessionIsMade, Idle
  <2>3. ListIsKept(r, kept[r.step])
    <3>1. Posted(r) = Posted(p) /\ Left(r) = Left(p)
      BY <1>2, <1>4, <1>5, <1>7 DEF Posted, Left, Idle
    <3>2. (r.load = Idle \/ ~r.ensure) => (p.load = Idle \/ ~p.ensure)
      BY <1>2, <1>4, <1>5, <1>7 DEF Idle
    <3>3. QED
      BY <1>5, <2>1, <3>1, <3>2 DEF CalmPage, ListIsKept
  <2>4. SessionIsListed(r, stored[r.step])
    BY <1>2, <1>4, <1>5, <1>7, <2>1 DEF CalmPage, SessionIsListed, LoadingIsAlone, Idle
  <2>5. SessionIsMade(r, kept[r.step])
    BY <1>2, <1>4, <1>5, <1>7, <2>1 DEF CalmPage, SessionIsMade, LoadingIsAlone, Idle
  <2>6. PostedIsNew(r)
    BY <1>2, <1>4, <1>5, <1>7, <2>1 DEF CalmPage, PostedIsNew, Idle
  <2>7. DeletedIsListed(r)
    BY <1>2, <1>4, <1>5, <1>7, <2>1 DEF CalmPage, DeletedIsListed, LoadingIsAlone, Idle
  <2>8. QED
    BY <1>4, <1>7, <2>1, <2>2, <2>3, <2>4, <2>5, <2>6, <2>7 DEF CalmPage
<1>8. QED
  BY <1>1, <1>2, <1>3, <1>5, <1>6, <1>7, PageAlone

(* The list is served.                                                      *)
LEMMA ListIsServed ==
  ASSUME StepPageInv, NEW v \in 1..Shown, ListSessions(v)
  PROVE  StepPageInv'
<1> DEFINE p == pages[v]
           r == [p EXCEPT !.load = [at |-> "served", answer |-> kept[p.step]]]
<1>1. /\ v \in 1..Shown /\ v \in DOMAIN pages /\ p \in PageRecord /\ Belongs(p, born) /\ p.step \in PageSteps
      /\ doings \in [clicks : 0..MaxClicks, hasty : BOOLEAN, failed : BOOLEAN, crossed : BOOLEAN, spare : BOOLEAN]
  BY ShownPages DEF StepPageInv, PageTypeOK
<1>2. p.load.at = "sent" /\ kept[p.step] \in Seq(Ids) /\ (\A x \in Elements(kept[p.step]) : born[x] = p.step) /\ pages' = [pages EXCEPT ![v] = r]
  <2>1. kept[p.step] \in Seq(Ids) /\ \A x \in Elements(kept[p.step]) : born[x] = p.step
    <3>1. kept[p.step] \in Seq(Ids)
      BY <1>1 DEF StepPageInv, PageTypeOK
    <3>2. Elements(kept[p.step]) \subseteq Ids
      BY <3>1, ElementsLemma
    <3>3. QED
      BY <1>1, <3>1, <3>2 DEF StepPageInv, KeptBelong
  <2>2. p.load.at = "sent" /\ pages' = [pages EXCEPT ![v] = r]
    BY <1>1 DEF ListSessions, PageRecord
  <2>3. QED
    BY <2>1, <2>2
<1>3. Untouched /\ doings' \in [clicks : 0..MaxClicks, hasty : BOOLEAN, failed : BOOLEAN, crossed : BOOLEAN, spare : BOOLEAN]
  BY <1>1, DoingsTyped DEF ListSessions, Untouched, Busy
<1>4. PageCalm' => PageCalm /\ doings'.spare = doings.spare
  BY <1>1 DEF ListSessions, Click, PageCalm, Busy
<1>5. /\ r \in PageRecord
      /\ r.step = p.step /\ r.session = p.session /\ r.listed = p.listed
      /\ r.ensure = p.ensure /\ r.asked = p.asked /\ r.target = p.target
      /\ r.load = [at |-> "served", answer |-> kept[p.step]] /\ r.post = p.post /\ r.removal = p.removal
  BY <1>1, <1>2, EmptyList, PageFields DEF PageRecord, Idle
<1> HIDE DEF r
<1>6. Belongs(r, born)
  BY <1>1, <1>2, <1>5, EmptyList DEF Belongs, Idle
<1>7. ASSUME PageCalm'
      PROVE  PageCalm /\ v = Shown /\ ~doings'.spare /\ CalmPage(r, kept[r.step], stored[r.step])
  <2>1. v = Shown /\ CalmPage(p, kept[p.step], stored[p.step]) /\ ~doings.spare
    BY <1>1, <1>2, <1>4, <1>7, BusyIsShown DEF StepPageInv, CalmPages, CalmShown, Busy, Idle
  <2> HIDE DEF p
  <2>2. LoadingIsAlone(r, kept[r.step])
    BY <1>2, <1>4, <1>5, <1>7, <2>1 DEF CalmPage, LoadingIsAlone, SessionIsMade, Idle
  <2>3. ListIsKept(r, kept[r.step])
    <3>1. Posted(r) = Posted(p) /\ Left(r) = Left(p)
      BY <1>2, <1>4, <1>5, <1>7 DEF Posted, Left, Idle
    <3>2. (r.load = Idle \/ ~r.ensure) => (p.load = Idle \/ ~p.ensure)
      BY <1>2, <1>4, <1>5, <1>7 DEF Idle
    <3>3. QED
      BY <1>5, <2>1, <3>1, <3>2 DEF CalmPage, ListIsKept
  <2>4. SessionIsListed(r, stored[r.step])
    BY <1>2, <1>4, <1>5, <1>7, <2>1 DEF CalmPage, SessionIsListed, LoadingIsAlone, Idle
  <2>5. SessionIsMade(r, kept[r.step])
    BY <1>2, <1>4, <1>5, <1>7, <2>1 DEF CalmPage, SessionIsMade, LoadingIsAlone, Idle
  <2>6. PostedIsNew(r)
    BY <1>2, <1>4, <1>5, <1>7, <2>1 DEF CalmPage, PostedIsNew, Idle
  <2>7. DeletedIsListed(r)
    BY <1>2, <1>4, <1>5, <1>7, <2>1 DEF CalmPage, DeletedIsListed, LoadingIsAlone, Idle
  <2>8. QED
    BY <1>4, <1>7, <2>1, <2>2, <2>3, <2>4, <2>5, <2>6, <2>7 DEF CalmPage
<1>8. QED
  BY <1>1, <1>2, <1>3, <1>5, <1>6, <1>7, PageAlone

(* The list could not be loaded.                                            *)
LEMMA ListFailed ==
  ASSUME StepPageInv, NEW v \in 1..Shown, ListFails(v)
  PROVE  StepPageInv'
<1> DEFINE p == pages[v]
           r == [p EXCEPT !.load = Idle]
<1>1. /\ v \in 1..Shown /\ v \in DOMAIN pages /\ p \in PageRecord /\ Belongs(p, born) /\ p.step \in PageSteps
      /\ doings \in [clicks : 0..MaxClicks, hasty : BOOLEAN, failed : BOOLEAN, crossed : BOOLEAN, spare : BOOLEAN]
  BY ShownPages DEF StepPageInv, PageTypeOK
<1>2. TRUE /\ pages' = [pages EXCEPT ![v] = r]
  BY <1>1 DEF ListFails, PageRecord
<1>3. Untouched /\ doings' \in [clicks : 0..MaxClicks, hasty : BOOLEAN, failed : BOOLEAN, crossed : BOOLEAN, spare : BOOLEAN]
  BY <1>1, DoingsTyped DEF ListFails, Untouched, Busy
<1>4. PageCalm' => FALSE
  BY <1>1 DEF ListFails, Click, PageCalm, Busy
<1>5. /\ r \in PageRecord
      /\ r.step = p.step /\ r.session = p.session /\ r.listed = p.listed
      /\ r.ensure = p.ensure /\ r.asked = p.asked /\ r.target = p.target
      /\ r.load = Idle /\ r.post = p.post /\ r.removal = p.removal
  BY <1>1, <1>2, EmptyList, PageFields DEF PageRecord, Idle
<1> HIDE DEF r
<1>6. Belongs(r, born)
  BY <1>1, <1>2, <1>5, EmptyList DEF Belongs, Idle
<1>7. ASSUME PageCalm'
      PROVE  PageCalm /\ v = Shown /\ ~doings'.spare /\ CalmPage(r, kept[r.step], stored[r.step])
  <2>1. v = Shown /\ CalmPage(p, kept[p.step], stored[p.step]) /\ ~doings.spare
    BY <1>1, <1>2, <1>4, <1>7, BusyIsShown DEF StepPageInv, CalmPages, CalmShown, Busy, Idle
  <2> HIDE DEF p
  <2>2. LoadingIsAlone(r, kept[r.step])
    BY <1>2, <1>4, <1>5, <1>7, <2>1 DEF CalmPage, LoadingIsAlone, SessionIsMade, Idle
  <2>3. ListIsKept(r, kept[r.step])
    <3>1. Posted(r) = Posted(p) /\ Left(r) = Left(p)
      BY <1>2, <1>4, <1>5, <1>7 DEF Posted, Left, Idle
    <3>2. (r.load = Idle \/ ~r.ensure) => (p.load = Idle \/ ~p.ensure)
      BY <1>2, <1>4, <1>5, <1>7 DEF Idle
    <3>3. QED
      BY <1>5, <2>1, <3>1, <3>2 DEF CalmPage, ListIsKept
  <2>4. SessionIsListed(r, stored[r.step])
    BY <1>2, <1>4, <1>5, <1>7, <2>1 DEF CalmPage, SessionIsListed, LoadingIsAlone, Idle
  <2>5. SessionIsMade(r, kept[r.step])
    BY <1>2, <1>4, <1>5, <1>7, <2>1 DEF CalmPage, SessionIsMade, LoadingIsAlone, Idle
  <2>6. PostedIsNew(r)
    BY <1>2, <1>4, <1>5, <1>7, <2>1 DEF CalmPage, PostedIsNew, Idle
  <2>7. DeletedIsListed(r)
    BY <1>2, <1>4, <1>5, <1>7, <2>1 DEF CalmPage, DeletedIsListed, LoadingIsAlone, Idle
  <2>8. QED
    BY <1>4, <1>7, <2>1, <2>2, <2>3, <2>4, <2>5, <2>6, <2>7 DEF CalmPage
<1>8. QED
  BY <1>1, <1>2, <1>3, <1>5, <1>6, <1>7, PageAlone

(* No session could be created.                                             *)
LEMMA CreationFailed ==
  ASSUME StepPageInv, NEW v \in 1..Shown, CreateFails(v)
  PROVE  StepPageInv'
<1> DEFINE p == pages[v]
           r == [p EXCEPT !.post = Idle, !.asked = FALSE]
<1>1. /\ v \in 1..Shown /\ v \in DOMAIN pages /\ p \in PageRecord /\ Belongs(p, born) /\ p.step \in PageSteps
      /\ doings \in [clicks : 0..MaxClicks, hasty : BOOLEAN, failed : BOOLEAN, crossed : BOOLEAN, spare : BOOLEAN]
  BY ShownPages DEF StepPageInv, PageTypeOK
<1>2. TRUE /\ pages' = [pages EXCEPT ![v] = r]
  BY <1>1 DEF CreateFails, PageRecord
<1>3. Untouched /\ doings' \in [clicks : 0..MaxClicks, hasty : BOOLEAN, failed : BOOLEAN, crossed : BOOLEAN, spare : BOOLEAN]
  BY <1>1, DoingsTyped DEF CreateFails, Untouched, Busy
<1>4. PageCalm' => FALSE
  BY <1>1 DEF CreateFails, Click, PageCalm, Busy
<1>5. /\ r \in PageRecord
      /\ r.step = p.step /\ r.session = p.session /\ r.listed = p.listed
      /\ r.ensure = p.ensure /\ r.asked = FALSE /\ r.target = p.target
      /\ r.load = p.load /\ r.post = Idle /\ r.removal = p.removal
  BY <1>1, <1>2, EmptyList, PageFields DEF PageRecord, Idle
<1> HIDE DEF r
<1>6. Belongs(r, born)
  BY <1>1, <1>2, <1>5, EmptyList DEF Belongs, Idle
<1>7. ASSUME PageCalm'
      PROVE  PageCalm /\ v = Shown /\ ~doings'.spare /\ CalmPage(r, kept[r.step], stored[r.step])
  <2>1. v = Shown /\ CalmPage(p, kept[p.step], stored[p.step]) /\ ~doings.spare
    BY <1>1, <1>2, <1>4, <1>7, BusyIsShown DEF StepPageInv, CalmPages, CalmShown, Busy, Idle
  <2> HIDE DEF p
  <2>2. LoadingIsAlone(r, kept[r.step])
    BY <1>2, <1>4, <1>5, <1>7, <2>1 DEF CalmPage, LoadingIsAlone, SessionIsMade, Idle
  <2>3. ListIsKept(r, kept[r.step])
    <3>1. Posted(r) = Posted(p) /\ Left(r) = Left(p)
      BY <1>2, <1>4, <1>5, <1>7 DEF Posted, Left, Idle
    <3>2. (r.load = Idle \/ ~r.ensure) => (p.load = Idle \/ ~p.ensure)
      BY <1>2, <1>4, <1>5, <1>7 DEF Idle
    <3>3. QED
      BY <1>5, <2>1, <3>1, <3>2 DEF CalmPage, ListIsKept
  <2>4. SessionIsListed(r, stored[r.step])
    BY <1>2, <1>4, <1>5, <1>7, <2>1 DEF CalmPage, SessionIsListed, LoadingIsAlone, Idle
  <2>5. SessionIsMade(r, kept[r.step])
    BY <1>2, <1>4, <1>5, <1>7, <2>1 DEF CalmPage, SessionIsMade, LoadingIsAlone, Idle
  <2>6. PostedIsNew(r)
    BY <1>2, <1>4, <1>5, <1>7, <2>1 DEF CalmPage, PostedIsNew, Idle
  <2>7. DeletedIsListed(r)
    BY <1>2, <1>4, <1>5, <1>7, <2>1 DEF CalmPage, DeletedIsListed, LoadingIsAlone, Idle
  <2>8. QED
    BY <1>4, <1>7, <2>1, <2>2, <2>3, <2>4, <2>5, <2>6, <2>7 DEF CalmPage
<1>8. QED
  BY <1>1, <1>2, <1>3, <1>5, <1>6, <1>7, PageAlone

(* A session could not be deleted, or was gone.                             *)
LEMMA DeletionFailed ==
  ASSUME StepPageInv, NEW v \in 1..Shown, DeleteFails(v)
  PROVE  StepPageInv'
<1> DEFINE p == pages[v]
           r == [p EXCEPT !.removal = Idle, !.target = 0]
<1>1. /\ v \in 1..Shown /\ v \in DOMAIN pages /\ p \in PageRecord /\ Belongs(p, born) /\ p.step \in PageSteps
      /\ doings \in [clicks : 0..MaxClicks, hasty : BOOLEAN, failed : BOOLEAN, crossed : BOOLEAN, spare : BOOLEAN]
  BY ShownPages DEF StepPageInv, PageTypeOK
<1>2. p.removal.at \in {"sent", "refused"} /\ pages' = [pages EXCEPT ![v] = r]
  BY <1>1 DEF DeleteFails, PageRecord
<1>3. Untouched /\ doings' \in [clicks : 0..MaxClicks, hasty : BOOLEAN, failed : BOOLEAN, crossed : BOOLEAN, spare : BOOLEAN]
  BY <1>1, DoingsTyped DEF DeleteFails, Untouched, Busy
<1>4. PageCalm' => PageCalm /\ doings'.spare = doings.spare /\ p.removal.at = "refused"
  BY <1>1 DEF DeleteFails, Click, PageCalm, Busy
<1>5. /\ r \in PageRecord
      /\ r.step = p.step /\ r.session = p.session /\ r.listed = p.listed
      /\ r.ensure = p.ensure /\ r.asked = p.asked /\ r.target = 0
      /\ r.load = p.load /\ r.post = p.post /\ r.removal = Idle
  BY <1>1, <1>2, EmptyList, PageFields DEF PageRecord, Idle
<1> HIDE DEF r
<1>6. Belongs(r, born)
  BY <1>1, <1>2, <1>5, EmptyList DEF Belongs, Idle
<1>7. ASSUME PageCalm'
      PROVE  PageCalm /\ v = Shown /\ ~doings'.spare /\ CalmPage(r, kept[r.step], stored[r.step])
  <2>1. v = Shown /\ CalmPage(p, kept[p.step], stored[p.step]) /\ ~doings.spare
    BY <1>1, <1>2, <1>4, <1>7, BusyIsShown DEF StepPageInv, CalmPages, CalmShown, Busy, Idle
  <2> HIDE DEF p
  <2>2. LoadingIsAlone(r, kept[r.step])
    BY <1>2, <1>4, <1>5, <1>7, <2>1 DEF CalmPage, LoadingIsAlone, SessionIsMade, Idle
  <2>3. ListIsKept(r, kept[r.step])
    <3>1. Posted(r) = Posted(p) /\ Left(r) = Left(p)
      BY <1>2, <1>4, <1>5, <1>7 DEF Posted, Left, Idle
    <3>2. (r.load = Idle \/ ~r.ensure) => (p.load = Idle \/ ~p.ensure)
      BY <1>2, <1>4, <1>5, <1>7 DEF Idle
    <3>3. QED
      BY <1>5, <2>1, <3>1, <3>2 DEF CalmPage, ListIsKept
  <2>4. SessionIsListed(r, stored[r.step])
    BY <1>2, <1>4, <1>5, <1>7, <2>1 DEF CalmPage, SessionIsListed, LoadingIsAlone, Idle
  <2>5. SessionIsMade(r, kept[r.step])
    BY <1>2, <1>4, <1>5, <1>7, <2>1 DEF CalmPage, SessionIsMade, LoadingIsAlone, Idle
  <2>6. PostedIsNew(r)
    BY <1>2, <1>4, <1>5, <1>7, <2>1 DEF CalmPage, PostedIsNew, Idle
  <2>7. DeletedIsListed(r)
    BY <1>2, <1>4, <1>5, <1>7, <2>1 DEF CalmPage, DeletedIsListed, LoadingIsAlone, Idle
  <2>8. QED
    BY <1>4, <1>7, <2>1, <2>2, <2>3, <2>4, <2>5, <2>6, <2>7 DEF CalmPage
<1>8. QED
  BY <1>1, <1>2, <1>3, <1>5, <1>6, <1>7, PageAlone

(* The user comes to another step.                                          *)
LEMMA StepVisited ==
  ASSUME StepPageInv, NEW s \in PageSteps, Visit(s)
  PROVE  StepPageInv'
<1> DEFINE m == Mounted(s, 0)
<1>1. /\ Shown \in Nat \ {0} /\ Shown + 1 <= MaxVisits /\ pages' = Append(pages, m)
      /\ UNCHANGED <<kept, born, stored>> /\ doings' = [doings EXCEPT !.hasty = @ \/ Busy(Shown)]
  BY ShownPages, StepPageAssumption DEF Visit
<1>2. /\ m \in PageRecord /\ m.step = s /\ m.session = 0 /\ m.listed = <<>> /\ m.load.answer = <<>> /\ m.load # Idle
      /\ m.post = Idle /\ m.removal = Idle /\ m.load.at = "states" /\ m.ensure = TRUE
  BY EmptyList DEF Mounted, PageRecord, Idle
<1>3. GoodPages(pages, born) /\ 0 \in {0} \cup Ids
  BY DEF StepPageInv
<1>4. GoodPages(pages', born)
  BY <1>1, <1>3, PageMounted
<1>5. Len(pages') = Len(pages) + 1
  BY <1>1, <1>3, PageMounted
<1>6. pages'[Len(pages')] = m
  BY <1>1, <1>3, PageMounted
<1>7. \A u \in 1..Len(pages) : pages'[u] = pages[u]
  BY <1>1, <1>3, PageMounted
<1>8. doings' \in [clicks : 0..MaxClicks, hasty : BOOLEAN, failed : BOOLEAN, crossed : BOOLEAN, spare : BOOLEAN]
      /\ (PageCalm' => PageCalm /\ ~Busy(Shown)) /\ doings'.spare = doings.spare
  <2>1. doings \in [clicks : 0..MaxClicks, hasty : BOOLEAN, failed : BOOLEAN, crossed : BOOLEAN, spare : BOOLEAN]
        /\ (doings.hasty \/ Busy(Shown)) \in BOOLEAN
    BY DEF StepPageInv, PageTypeOK
  <2>2. doings' = [doings EXCEPT !.hasty = doings.hasty \/ Busy(Shown)]
    BY <1>1
  <2>3. QED
    BY <2>1, <2>2 DEF PageCalm
<1> HIDE DEF m
<1>9. Shown' = Shown + 1 /\ Shown' \in 1..MaxVisits /\ pages'[Shown'] = m
  BY <1>1, <1>5, <1>6, StepPageAssumption DEF Shown
<1>10. PageTypeOK' /\ GoodStore(stored', born') /\ KeptBelong'
  BY <1>1, <1>4, <1>8, <1>9 DEF StepPageInv, PageTypeOK, GoodPages, KeptBelong
<1>11. CalmPages'
  <2> SUFFICES ASSUME PageCalm'
               PROVE  ~doings'.spare /\ (\A u \in 1..Shown' : u # Shown' => ~Busy(u)') /\ CalmShown'
    BY DEF CalmPages
  <2>1. ~doings.spare /\ \A u \in 1..Shown : ~Busy(u)
    BY <1>8 DEF StepPageInv, CalmPages
  <2>2. \A u \in 1..Shown' : u # Shown' => u \in 1..Shown
    BY <1>1, <1>9
  <2>3. \A u \in 1..Shown' : u # Shown' => ~Busy(u)'
    BY <1>7, <2>1, <2>2 DEF Busy, Shown
  <2>4. CalmPage(m, kept'[m.step], stored'[m.step])
    BY <1>2 DEF CalmPage, LoadingIsAlone, ListIsKept, SessionIsListed, SessionIsMade, PostedIsNew, DeletedIsListed, Idle
  <2>5. CalmShown'
    BY <1>9, <2>4 DEF CalmShown
  <2>6. QED
    BY <1>8, <2>1, <2>3, <2>5
<1>12. QED
  BY <1>1, <1>4, <1>10, <1>11 DEF StepPageInv

(* A session is opened by a click.                                          *)
LEMMA SessionIsSelected ==
  ASSUME StepPageInv, NEW x \in Ids, SelectSession(x)
  PROVE  StepPageInv'
<1> DEFINE p == pages[Shown]
           r == [p EXCEPT !.session = x]
<1>1. /\ Shown \in 1..Shown /\ Shown \in DOMAIN pages /\ p \in PageRecord /\ Belongs(p, born) /\ p.step \in PageSteps
      /\ x \in {0} \cup Ids /\ x # 0
  BY ShownPages, StepPageAssumption DEF Ids
<1>2. /\ x \in Elements(p.listed) /\ pages' = [pages EXCEPT ![Shown] = r] /\ UNCHANGED <<kept, born>>
      /\ stored' = [stored EXCEPT ![p.step] = x]
  BY <1>1 DEF SelectSession
<1>3. doings' \in [clicks : 0..MaxClicks, hasty : BOOLEAN, failed : BOOLEAN, crossed : BOOLEAN, spare : BOOLEAN]
  BY DoingsTyped DEF SelectSession
<1>4. PageCalm' => PageCalm /\ doings'.spare = doings.spare
  <2>1. doings \in [clicks : 0..MaxClicks, hasty : BOOLEAN, failed : BOOLEAN, crossed : BOOLEAN, spare : BOOLEAN]
    BY DEF StepPageInv, PageTypeOK
  <2>2. QED
    BY <2>1 DEF SelectSession, Click, PageCalm
<1>5. born[x] = p.step
  BY <1>1, <1>2 DEF Belongs
<1>6. /\ r \in PageRecord /\ r.step = p.step /\ r.session = x /\ r.listed = p.listed /\ r.ensure = p.ensure
      /\ r.asked = p.asked /\ r.target = p.target /\ r.load = p.load /\ r.post = p.post /\ r.removal = p.removal
  BY <1>1 DEF PageRecord
<1>7. Belongs(r, born)
  BY <1>1, <1>5, SessionPut
<1> HIDE DEF r
<1>8. GoodStore(stored', born) /\ stored'[p.step] = x
  BY <1>1, <1>2, <1>5 DEF StepPageInv, GoodStore
<1>9. Belongs(r, born') /\ GoodPages(pages, born') /\ born' \in [Ids -> PageSteps \cup {"none"}] /\ GoodStore(stored', born')
  BY <1>2, <1>7, <1>8 DEF StepPageInv, PageTypeOK
<1>10. kept' \in [PageSteps -> Seq(Ids)] /\ KeptBelong'
  BY <1>2 DEF StepPageInv, PageTypeOK, KeptBelong
<1>11. ASSUME PageCalm'
       PROVE  PageCalm /\ Shown = Shown /\ ~doings'.spare /\ CalmPage(r, kept'[r.step], stored'[r.step])
  <2>1. PageCalm /\ CalmPage(p, kept[p.step], stored[p.step]) /\ ~doings'.spare
    BY <1>4, <1>11 DEF StepPageInv, CalmPages, CalmShown
  <2>2. p.listed # <<>>
    BY <1>2, EmptyList
  <2> HIDE DEF p
  <2>3. LoadingIsAlone(r, kept[r.step])
    BY <1>1, <1>6, <2>1, <2>2 DEF CalmPage, LoadingIsAlone
  <2>4. ListIsKept(r, kept[r.step])
    BY <1>6, <2>1 DEF CalmPage, ListIsKept, Posted, Left
  <2>5. SessionIsListed(r, stored'[r.step])
    BY <1>2, <1>6, <1>8 DEF SessionIsListed
  <2>6. SessionIsMade(r, kept[r.step])
    BY <1>1, <1>6, <2>1 DEF CalmPage, SessionIsMade
  <2>7. PostedIsNew(r) /\ DeletedIsListed(r)
    BY <1>6, <2>1 DEF CalmPage, PostedIsNew, DeletedIsListed
  <2>8. QED
    BY <1>2, <2>1, <2>3, <2>4, <2>5, <2>6, <2>7 DEF CalmPage
<1>12. QED
  BY <1>1, <1>2, <1>3, <1>6, <1>10, <1>11, <1>9, PageChanged

(* The session a step gets has been nobody's.                               *)
LEMMA NewSession ==
  ASSUME StepPageInv, NEW x \in Ids, born[x] = "none", NEW s \in PageSteps, born' = [born EXCEPT ![x] = s],
         kept' = [kept EXCEPT ![s] = <<x>> \o @]
  PROVE  /\ GoodPages(pages, born') /\ GoodStore(stored, born') /\ KeptBelong'
         /\ born' \in [Ids -> PageSteps \cup {"none"}] /\ kept' \in [PageSteps -> Seq(Ids)]
         /\ kept'[s] = <<x>> \o kept[s] /\ born'[x] = s
<1>1. /\ born \in [Ids -> PageSteps \cup {"none"}] /\ kept \in [PageSteps -> Seq(Ids)] /\ kept[s] \in Seq(Ids)
      /\ GoodPages(pages, born) /\ GoodStore(stored, born) /\ KeptBelong
  BY DEF StepPageInv, PageTypeOK
<1>2. /\ born' \in [Ids -> PageSteps \cup {"none"}] /\ born'[x] = s
      /\ \A y \in Ids, t \in PageSteps : born[y] = t => born'[y] = t
  BY <1>1, StepPageAssumption
<1>3. ASSUME NEW p \in PageRecord, Belongs(p, born)
      PROVE  Belongs(p, born')
  <2>1. /\ p.step \in PageSteps /\ p.session \in {0} \cup Ids /\ p.listed \in Seq(Ids)
        /\ p.load.answer \in Seq(Ids) /\ p.post.answer \in Seq(Ids)
    BY PageFields
  <2>2. Elements(p.listed) \subseteq Ids /\ Elements(p.load.answer) \subseteq Ids /\ Elements(p.post.answer) \subseteq Ids
    BY <2>1, ElementsLemma
  <2>3. QED
    BY <1>2, <1>3, <2>1, <2>2 DEF Belongs
<1>4. GoodPages(pages, born')
  <2>1. \A v \in 1..Len(pages) : pages[v] \in PageRecord /\ Belongs(pages[v], born)
    BY <1>1, PagesAreRecords
  <2>2. QED
    BY <1>1, <1>3, <2>1 DEF GoodPages
<1>5. GoodStore(stored, born')
  BY <1>1, <1>2 DEF GoodStore
<1>6. <<x>> \o kept[s] \in Seq(Ids) /\ Elements(<<x>> \o kept[s]) = {x} \cup Elements(kept[s])
  BY <1>1, ElementsLemma
<1>7. kept' \in [PageSteps -> Seq(Ids)] /\ kept'[s] = <<x>> \o kept[s] /\ \A t \in PageSteps : t # s => kept'[t] = kept[t]
  BY <1>1, <1>6
<1>8. KeptBelong'
  <2> SUFFICES ASSUME NEW t \in PageSteps, NEW y \in Ids, y \in Elements(kept'[t]) PROVE born'[y] = t
    BY DEF KeptBelong
  <2>1. CASE t = s
    BY <1>1, <1>2, <1>6, <1>7, <2>1 DEF KeptBelong
  <2>2. CASE t # s
    BY <1>1, <1>2, <1>7, <2>2 DEF KeptBelong
  <2>3. QED
    BY <2>1, <2>2
<1>9. QED
  BY <1>2, <1>4, <1>5, <1>7, <1>8

LEMMA CreationIsServed ==
  ASSUME StepPageInv, NEW v \in 1..Shown, ServeCreate(v)
  PROVE  StepPageInv'
<1> DEFINE p == pages[v]
           free == {x \in Ids : born[x] = "none"}
           x == CHOOSE y \in free : \A z \in free : y <= z
           r == [p EXCEPT !.post = [at |-> "served", answer |-> <<x>>]]
<1>1. /\ v \in 1..Shown /\ v \in DOMAIN pages /\ p \in PageRecord /\ Belongs(p, born) /\ p.step \in PageSteps
      /\ doings \in [clicks : 0..MaxClicks, hasty : BOOLEAN, failed : BOOLEAN, crossed : BOOLEAN, spare : BOOLEAN]
      /\ kept[p.step] \in Seq(Ids)
  BY ShownPages DEF StepPageInv, PageTypeOK
<1>2. x \in free
  <2>1. free \subseteq Nat /\ free # {}
    BY DEF ServeCreate, Ids
  <2> HIDE DEF free
  <2>2. \E y \in free : \A z \in free : y <= z
    BY <2>1, LeastNumber
  <2>3. QED
    BY <2>2
<1>3. /\ p.post.at = "sent" /\ kept' = [kept EXCEPT ![p.step] = <<x>> \o @] /\ born' = [born EXCEPT ![x] = p.step]
      /\ pages' = [pages EXCEPT ![v] = r] /\ stored' = stored
      /\ doings' = [doings EXCEPT !.spare = @ \/ (~p.asked /\ kept[p.step] # <<>>)]
  BY <1>1 DEF ServeCreate, Ids
<1> HIDE DEF x
<1>4. x \in Ids /\ born[x] = "none" /\ <<x>> \in Seq(Ids) /\ Elements(<<x>>) = {x}
  BY <1>2, EmptyList, ElementsLemma
<1>5. GoodPages(pages, born') /\ GoodStore(stored, born')
  BY <1>1, <1>3, <1>4, NewSession
<1>6. KeptBelong' /\ born' \in [Ids -> PageSteps \cup {"none"}] /\ kept' \in [PageSteps -> Seq(Ids)]
  BY <1>1, <1>3, <1>4, NewSession
<1>7. kept'[p.step] = <<x>> \o kept[p.step] /\ born'[x] = p.step
  BY <1>1, <1>3, <1>4, NewSession
<1>8. /\ doings' \in [clicks : 0..MaxClicks, hasty : BOOLEAN, failed : BOOLEAN, crossed : BOOLEAN, spare : BOOLEAN]
      /\ PageCalm' => PageCalm
      /\ ~doings.spare /\ (p.asked \/ kept[p.step] = <<>>) => ~doings'.spare
  <2>1. (doings.spare \/ (~p.asked /\ kept[p.step] # <<>>)) \in BOOLEAN
    BY <1>1
  <2>2. QED
    BY <1>1, <1>3, <2>1 DEF PageCalm
<1>9. /\ r \in PageRecord /\ r.step = p.step /\ r.session = p.session /\ r.listed = p.listed /\ r.ensure = p.ensure
      /\ r.asked = p.asked /\ r.target = p.target /\ r.load = p.load /\ r.removal = p.removal
      /\ r.post = [at |-> "served", answer |-> <<x>>]
  BY <1>1, <1>4 DEF PageRecord
<1> HIDE DEF r
<1>10. Belongs(r, born')
  <2>1. Belongs(p, born')
    BY <1>1, <1>5, PagesAreRecords DEF Shown
  <2>2. QED
    BY <1>4, <1>7, <1>9, <2>1 DEF Belongs
<1>11. ASSUME PageCalm'
       PROVE  PageCalm /\ v = Shown /\ ~doings'.spare /\ CalmPage(r, kept'[r.step], stored'[r.step])
  <2>1. PageCalm /\ v = Shown /\ CalmPage(p, kept[p.step], stored[p.step]) /\ ~doings.spare
    BY <1>1, <1>3, <1>8, <1>11, BusyIsShown DEF StepPageInv, CalmPages, CalmShown, Busy, Idle
  <2> HIDE DEF p
  <2>2. p.load = Idle
    BY <1>3, <2>1 DEF CalmPage, LoadingIsAlone, Idle
  <2>3. p.asked \/ kept[p.step] = <<>>
    BY <1>3, <2>1 DEF CalmPage, SessionIsMade
  <2>4. LoadingIsAlone(r, kept'[r.step])
    BY <1>9, <2>2 DEF LoadingIsAlone
  <2>5. ListIsKept(r, kept'[r.step])
    <3>1. Posted(p) = <<>> /\ Posted(r) = <<x>> /\ Left(r) = Left(p)
      BY <1>3, <1>9 DEF Posted, Left
    <3>2. kept[p.step] = <<>> \o Left(p)
      BY <2>1, <2>2, <3>1 DEF CalmPage, ListIsKept
    <3>3. Left(p) \in Seq(Ids)
      BY <1>1, PageFields, WithoutIsWithout DEF Left
    <3>4. <<x>> \o (<<>> \o Left(p)) = <<x>> \o Left(p)
      BY <1>4, <3>3, ElementsLemma
    <3>5. QED
      BY <1>7, <1>9, <3>1, <3>2, <3>4 DEF ListIsKept
  <2>6. SessionIsListed(r, stored'[r.step]) /\ DeletedIsListed(r)
    BY <1>3, <1>9, <2>1 DEF CalmPage, SessionIsListed, DeletedIsListed
  <2>7. SessionIsMade(r, kept'[r.step])
    BY <1>9 DEF SessionIsMade, Idle
  <2>8. PostedIsNew(r)
    <3>1. x \notin Elements(p.listed)
      BY <1>1, <1>4, StepPageAssumption DEF Belongs
    <3>2. QED
      BY <1>4, <1>9, <3>1 DEF PostedIsNew
  <2>9. QED
    BY <1>8, <2>1, <2>3, <2>4, <2>5, <2>6, <2>7, <2>8 DEF CalmPage
<1>12. GoodStore(stored', born') /\ r.step = pages[v].step
  BY <1>3, <1>5, <1>9
<1>13. QED
  BY <1>1, <1>3, <1>5, <1>6, <1>8, <1>9, <1>10, <1>11, <1>12, PageChanged

(* Whatever became of the pages, they are sound, and the one that is shown  *)
(* is the same one, if nobody was hasty.                                    *)
LEMMA PagesReplaced ==
  ASSUME StepPageInv, GoodPages(pages', born), Len(pages') <= MaxVisits, GoodStore(stored', born),
         UNCHANGED <<born, doings>>, kept' \in [PageSteps -> Seq(Ids)], KeptBelong',
         PageCalm => /\ Len(pages') = Len(pages) /\ \A u \in 1..Shown : u # Shown => pages'[u] = pages[u]
                     /\ CalmPage(pages'[Shown], kept'[pages'[Shown].step], stored'[pages'[Shown].step])
  PROVE  StepPageInv'
<1>1. Len(pages') \in 1..MaxVisits
  BY PagesAreRecords, StepPageAssumption
<1>2. PageTypeOK'
  BY <1>1 DEF StepPageInv, PageTypeOK, GoodPages, GoodStore, Shown
<1>3. CalmPages'
  <2> SUFFICES ASSUME PageCalm'
               PROVE  ~doings'.spare /\ (\A u \in 1..Shown' : u # Shown' => ~Busy(u)') /\ CalmShown'
    BY DEF CalmPages
  <2>1. PageCalm /\ Shown' = Shown
    BY DEF PageCalm, Shown
  <2>2. ~doings.spare /\ \A u \in 1..Shown : u # Shown => ~Busy(u)
    BY <2>1 DEF StepPageInv, CalmPages
  <2>3. \A u \in 1..Shown' : u # Shown' => ~Busy(u)'
    BY <2>1, <2>2 DEF Busy
  <2>4. CalmShown'
    BY <2>1 DEF CalmShown
  <2>5. QED
    BY <2>2, <2>3, <2>4
<1>4. QED
  BY <1>2, <1>3 DEF StepPageInv

(* A page whose answers are shown opens a session, or asks for one.         *)
AnswersShown(q, has, last) ==
  /\ q.load = Idle /\ ListIsKept(q, has) /\ SessionIsListed(q, last) /\ PostedIsNew(q) /\ DeletedIsListed(q)
  /\ q.post.at = "sent" /\ ~q.asked => q.listed = <<>> /\ has = <<>>
LEMMA EnsuredIsCalm ==
  ASSUME StepPageInv, NEW q \in PageRecord, Belongs(q, born), q.step = pages[Shown].step,
         AnswersShown(q, kept[q.step], stored[q.step]), NEW ps, ps = [pages EXCEPT ![Shown] = q], Ensure(ps, Shown),
         Len(Replace(ps, Shown, 0)) <= MaxVisits
  PROVE  /\ Len(pages') = Len(pages) /\ \A u \in 1..Shown : u # Shown => pages'[u] = pages[u]
         /\ CalmPage(pages'[Shown], kept[pages'[Shown].step], stored'[pages'[Shown].step])
<1>1. /\ Shown \in 1..Shown /\ Shown = Len(pages) /\ Shown <= MaxVisits
      /\ GoodPages(pages, born) /\ GoodStore(stored, born) /\ q.step \in PageSteps
  BY ShownPages, PageFields DEF StepPageInv, Shown
<1>2. GoodPages(ps, born)
  BY <1>1, PagePut
<1>3. Len(ps) = Len(pages)
  BY <1>1, PagePut
<1>4. ps[Shown] = q
  BY <1>1, PagePut
<1>5. \A u \in 1..Len(pages) : u # Shown => ps[u] = pages[u]
  BY <1>1, PagePut
<1>6. /\ GoodPages(pages', born) /\ GoodStore(stored', born)
      /\ \/ q.session # 0 /\ pages' = ps /\ stored' = stored
         \/ /\ q.session = 0 /\ q.listed # <<>>
            /\ \E y \in Elements(q.listed) :
                 pages' = [ps EXCEPT ![Shown] = [q EXCEPT !.session = y]] /\ stored' = [stored EXCEPT ![q.step] = y]
         \/ /\ q.session = 0 /\ q.listed = <<>> /\ stored' = stored
            /\ pages' = [ps EXCEPT ![Shown] = [q EXCEPT !.post = Sending(@)]]
  <2>1. Shown \in 1..Len(ps) /\ Shown = Len(ps) /\ Len(ps) <= MaxVisits
    BY <1>1, <1>3
  <2>2. GoodPages(pages', born) /\ GoodStore(stored', born)
    BY <1>1, <1>2, <2>1, EnsureLemma
  <2>3. Ensured(ps, Shown)
    BY <1>1, <1>2, <2>1, EnsureLemma
  <2>4. QED
    BY <1>4, <2>2, <2>3 DEF Ensured
<1>7. Shown \in 1..Len(ps) /\ stored \in [PageSteps -> {0} \cup Ids] /\ ps \in Seq(PageRecord)
  BY <1>1, <1>2, <1>3 DEF GoodStore, GoodPages
<1>8. CASE q.session # 0 /\ pages' = ps /\ stored' = stored
  <2>1. CalmPage(q, kept[q.step], stored[q.step])
    BY <1>8 DEF AnswersShown, CalmPage, LoadingIsAlone, SessionIsMade
  <2>2. QED
    BY <1>1, <1>3, <1>4, <1>5, <1>8, <2>1
<1>9. ASSUME NEW y \in Elements(q.listed), q.session = 0,
             pages' = [ps EXCEPT ![Shown] = [q EXCEPT !.session = y]], stored' = [stored EXCEPT ![q.step] = y]
      PROVE  /\ Len(pages') = Len(pages) /\ \A u \in 1..Shown : u # Shown => pages'[u] = pages[u]
             /\ CalmPage(pages'[Shown], kept[pages'[Shown].step], stored'[pages'[Shown].step])
  <2> DEFINE r == [q EXCEPT !.session = y]
  <2>1. y \in Ids /\ y # 0 /\ stored'[q.step] = y /\ born[y] = q.step
    <3>1. q.listed \in Seq(Ids)
      BY PageFields
    <3>2. Elements(q.listed) \subseteq Ids
      BY <3>1, ElementsLemma
    <3>3. QED
      BY <1>1, <1>7, <1>9, <3>2, StepPageAssumption DEF Ids, Belongs
  <2>2. /\ r \in PageRecord /\ r.step = q.step /\ r.session = y /\ r.listed = q.listed /\ r.ensure = q.ensure
        /\ r.asked = q.asked /\ r.target = q.target /\ r.load = q.load /\ r.post = q.post /\ r.removal = q.removal
    BY <2>1 DEF PageRecord
  <2>3. pages' = [ps EXCEPT ![Shown] = r] /\ Belongs(r, born)
    BY <1>9, <2>1, SessionPut
  <2> HIDE DEF r
  <2>4. Len(pages') = Len(ps)
    BY <1>2, <1>7, <2>2, <2>3, PagePut
  <2>5. pages'[Shown] = r
    BY <1>2, <1>7, <2>2, <2>3, PagePut
  <2>6. \A u \in 1..Len(ps) : u # Shown => pages'[u] = ps[u]
    BY <1>2, <1>7, <2>2, <2>3, PagePut
  <2>7. CalmPage(r, kept[q.step], y)
    <3>1. LoadingIsAlone(r, kept[q.step]) /\ SessionIsListed(r, y) /\ SessionIsMade(r, kept[q.step])
      BY <1>9, <2>1, <2>2 DEF AnswersShown, LoadingIsAlone, SessionIsListed, SessionIsMade
    <3>2. ListIsKept(r, kept[q.step]) /\ PostedIsNew(r) /\ DeletedIsListed(r)
      BY <2>2 DEF AnswersShown, ListIsKept, Posted, Left, PostedIsNew, DeletedIsListed
    <3>3. QED
      BY <3>1, <3>2 DEF CalmPage
  <2>8. QED
    BY <1>1, <1>3, <1>5, <2>1, <2>2, <2>4, <2>5, <2>6, <2>7
<1>10. ASSUME q.session = 0, q.listed = <<>>, stored' = stored, pages' = [ps EXCEPT ![Shown] = [q EXCEPT !.post = Sending(@)]]
       PROVE  /\ Len(pages') = Len(pages) /\ \A u \in 1..Shown : u # Shown => pages'[u] = pages[u]
              /\ CalmPage(pages'[Shown], kept[pages'[Shown].step], stored'[pages'[Shown].step])
  <2> DEFINE r == [q EXCEPT !.post = Sending(@)]
  <2>1. /\ r \in PageRecord /\ r.step = q.step /\ r.session = q.session /\ r.listed = q.listed /\ r.ensure = q.ensure
        /\ r.asked = q.asked /\ r.target = q.target /\ r.load = q.load /\ r.post = Sending(q.post) /\ r.removal = q.removal
    BY EmptyList DEF PageRecord, Sending, Idle
  <2>2. pages' = [ps EXCEPT ![Shown] = r]
    BY <1>10
  <2> HIDE DEF r
  <2>3. Len(pages') = Len(ps) /\ pages'[Shown] = r /\ \A u \in 1..Len(ps) : u # Shown => pages'[u] = ps[u]
    BY <1>7, <2>1, <2>2, ExceptSeq
  <2>4. q.removal = Idle /\ Left(q) = <<>> /\ (q.post = Idle => Posted(q) = <<>>) /\ Left(r) = Left(q)
    BY <1>10, <2>1, EmptyList DEF AnswersShown, DeletedIsListed, Left, Posted, Idle
  <2>5. q.post = Idle => kept[q.step] = <<>>
    <3>1. kept[q.step] = Posted(q) \o Left(q) /\ <<>> \o <<>> = <<>>
      BY EmptyList, ElementsLemma DEF AnswersShown, ListIsKept
    <3>2. QED
      BY <2>4, <3>1
  <2>6. Posted(r) = Posted(q) /\ r.post # Idle /\ (q.post # Idle => r.post = q.post)
        /\ (q.post = Idle => r.post.at = "sent")
    BY <2>1 DEF Posted, Sending, Idle
  <2>7. CalmPage(r, kept[q.step], stored[q.step])
    <3>1. LoadingIsAlone(r, kept[q.step]) /\ SessionIsListed(r, stored[q.step]) /\ ListIsKept(r, kept[q.step])
      BY <1>10, <2>1, <2>4, <2>6 DEF AnswersShown, LoadingIsAlone, SessionIsListed, ListIsKept
    <3>2. SessionIsMade(r, kept[q.step])
      BY <1>10, <2>1, <2>5, <2>6 DEF AnswersShown, SessionIsMade
    <3>3. PostedIsNew(r) /\ DeletedIsListed(r)
      BY <2>1, <2>4, <2>6 DEF AnswersShown, PostedIsNew, DeletedIsListed
    <3>4. QED
      BY <3>1, <3>2, <3>3 DEF CalmPage
  <2>8. QED
    BY <1>1, <1>3, <1>5, <1>10, <2>1, <2>3, <2>7
<1>11. QED
  BY <1>6, <1>8, <1>9, <1>10

(* The list is shown, and a session of it opened if none is.                *)
LEMMA ListIsShown ==
  ASSUME StepPageInv, NEW v \in 1..Shown, ShowSessions(v)
  PROVE  StepPageInv'
<1> DEFINE p == pages[v]
           q == [p EXCEPT !.load = Idle, !.listed = p.load.answer]
           ps == [pages EXCEPT ![v] = q]
<1>1. /\ v \in 1..Shown /\ v \in DOMAIN pages /\ p \in PageRecord /\ Belongs(p, born) /\ p.step \in PageSteps
      /\ v \in 1..Len(pages) /\ Shown <= MaxVisits /\ GoodPages(pages, born) /\ GoodStore(stored, born)
  BY ShownPages DEF StepPageInv, Shown
<1>2. /\ p.load.at = "served" /\ Len(Replace(ps, v, 0)) <= MaxVisits /\ UNCHANGED <<kept, born, doings>>
      /\ IF p.ensure THEN Ensure(ps, v) ELSE pages' = ps /\ UNCHANGED stored
  <2>1. ps = [pages EXCEPT ![v].load = Idle, ![v].listed = pages[v].load.answer]
    BY <1>1 DEF PageRecord
  <2> HIDE DEF ps
  <2>2. QED
    BY <2>1 DEF ShowSessions
<1>3. /\ q \in PageRecord /\ q.step = p.step /\ q.session = p.session /\ q.listed = p.load.answer /\ q.ensure = p.ensure
      /\ q.asked = p.asked /\ q.target = p.target /\ q.load = Idle /\ q.post = p.post /\ q.removal = p.removal
  BY <1>1, EmptyList DEF PageRecord, Idle
<1> HIDE DEF q
<1>4. Belongs(q, born)
  BY <1>1, <1>3, EmptyList DEF Belongs, Idle
<1>5. ps = [pages EXCEPT ![v] = q]
  OBVIOUS
<1> HIDE DEF ps
<1>6. GoodPages(ps, born)
  BY <1>1, <1>3, <1>4, <1>5, PagePut
<1>7. Len(ps) = Len(pages)
  BY <1>1, <1>3, <1>4, <1>5, PagePut
<1>8. ps[v] = q
  BY <1>1, <1>3, <1>4, <1>5, PagePut
<1>9. \A u \in 1..Len(pages) : u # v => ps[u] = pages[u]
  BY <1>1, <1>3, <1>4, <1>5, PagePut
<1>10. v \in 1..Len(ps) /\ Len(ps) <= MaxVisits
  BY <1>1, <1>7 DEF Shown
<1>11. GoodPages(pages', born) /\ GoodStore(stored', born)
  BY <1>1, <1>2, <1>6, <1>10, EnsureLemma
<1>12. Len(pages') <= MaxVisits
  BY <1>1, <1>2, <1>6, <1>10, EnsureLemma
<1>13. ASSUME PageCalm
       PROVE  /\ v = Shown /\ CalmPage(p, kept[p.step], stored[p.step])
              /\ AnswersShown(q, kept[q.step], stored[q.step]) /\ (~q.ensure => CalmPage(q, kept[q.step], stored[q.step]))
  <2>1. v = Shown /\ CalmPage(p, kept[p.step], stored[p.step])
    BY <1>1, <1>2, <1>13, BusyIsShown DEF CalmShown, Busy, Idle
  <2> HIDE DEF p
  <2>2. /\ p.post = Idle /\ p.removal = Idle /\ p.load # Idle /\ p.load.answer = kept[p.step]
        /\ (p.ensure => p.session = 0) /\ (~p.ensure => p.session # 0)
    BY <1>2, <2>1 DEF CalmPage, LoadingIsAlone, Idle
  <2>3. kept[p.step] \in Seq(Ids)
    BY <1>1 DEF StepPageInv, PageTypeOK
  <2>4. ListIsKept(q, kept[q.step])
    <3>1. Posted(q) = <<>> /\ Left(q) = kept[p.step]
      BY <1>3, <2>2 DEF Posted, Left, Idle
    <3>2. <<>> \o kept[p.step] = kept[p.step]
      BY <2>3, ConcatEmptySeq
    <3>3. QED
      BY <1>3, <3>1, <3>2 DEF ListIsKept
  <2>5. SessionIsListed(q, stored[q.step])
    <3>1. CASE p.ensure
      BY <1>3, <2>2, <3>1 DEF SessionIsListed
    <3>2. CASE ~p.ensure
      <4>1. kept[p.step] = Posted(p) \o Left(p) /\ Posted(p) = <<>> /\ Left(p) = p.listed
        BY <2>1, <2>2, <3>2 DEF CalmPage, ListIsKept, Posted, Left, Idle
      <4>2. p.listed \in Seq(Ids)
        BY <1>1, PageFields
      <4>3. kept[p.step] = p.listed
        BY <4>1, <4>2, ConcatEmptySeq
      <4>4. QED
        BY <1>3, <2>1, <2>2, <4>3 DEF CalmPage, SessionIsListed
    <3>3. QED
      BY <3>1, <3>2
  <2>6. PostedIsNew(q) /\ DeletedIsListed(q) /\ q.post.at # "sent"
    BY <1>3, <2>2 DEF PostedIsNew, DeletedIsListed, Idle
  <2>7. AnswersShown(q, kept[q.step], stored[q.step])
    BY <1>3, <2>4, <2>5, <2>6 DEF AnswersShown
  <2>8. ~q.ensure => CalmPage(q, kept[q.step], stored[q.step])
    BY <1>3, <2>2, <2>7 DEF AnswersShown, CalmPage, LoadingIsAlone, SessionIsMade, Idle
  <2>9. QED
    BY <2>1, <2>7, <2>8
<1>14. ASSUME PageCalm
       PROVE  /\ Len(pages') = Len(pages) /\ \A u \in 1..Shown : u # Shown => pages'[u] = pages[u]
              /\ CalmPage(pages'[Shown], kept[pages'[Shown].step], stored'[pages'[Shown].step])
  <2>1. v = Shown /\ AnswersShown(q, kept[q.step], stored[q.step]) /\ q.step = pages[Shown].step
    BY <1>3, <1>13, <1>14
  <2>2. CASE p.ensure
    <3>1. Ensure(ps, Shown) /\ ps = [pages EXCEPT ![Shown] = q] /\ Len(Replace(ps, Shown, 0)) <= MaxVisits
      BY <1>2, <1>5, <2>1, <2>2
    <3>2. QED
      BY <1>3, <1>4, <2>1, <3>1, EnsuredIsCalm
  <2>3. CASE ~p.ensure
    <3>1. pages' = ps /\ stored' = stored /\ CalmPage(q, kept[q.step], stored[q.step])
      BY <1>2, <1>3, <1>13, <1>14, <2>3
    <3>2. QED
      BY <1>7, <1>8, <1>9, <2>1, <3>1 DEF Shown
  <2>4. QED
    BY <2>2, <2>3
<1>15. kept' \in [PageSteps -> Seq(Ids)] /\ KeptBelong' /\ kept' = kept /\ UNCHANGED <<born, doings>>
  BY <1>2 DEF StepPageInv, PageTypeOK, KeptBelong
<1>16. QED
  BY <1>11, <1>12, <1>14, <1>15, PagesReplaced

(* A session that was created is listed first, and opened.                  *)
LEMMA CreationIsShown ==
  ASSUME StepPageInv, NEW v \in 1..Shown, ShowCreated(v)
  PROVE  StepPageInv'
<1> DEFINE p == pages[v]
           x == p.post.answer[1]
           q == [p EXCEPT !.post = Idle, !.asked = FALSE, !.listed = p.post.answer \o @]
           ps == [pages EXCEPT ![v] = q]
<1>1. /\ v \in 1..Shown /\ v \in DOMAIN pages /\ p \in PageRecord /\ Belongs(p, born) /\ p.step \in PageSteps
      /\ v \in 1..Len(pages) /\ Shown <= MaxVisits /\ GoodPages(pages, born) /\ GoodStore(stored, born)
  BY ShownPages DEF StepPageInv, Shown
<1>2. /\ p.post.at = "served" /\ Len(Replace(ps, v, 0)) <= MaxVisits /\ UNCHANGED <<kept, born, doings>>
      /\ pages' = Replace(ps, v, x) /\ stored' = [stored EXCEPT ![p.step] = x]
  <2>1. ps = [pages EXCEPT ![v].post = Idle, ![v].asked = FALSE, ![v].listed = pages[v].post.answer \o @]
    BY <1>1 DEF PageRecord
  <2> HIDE DEF ps
  <2>2. QED
    BY <2>1 DEF ShowCreated
<1>3. x \in Ids /\ p.post.answer = <<x>> /\ Elements(<<x>>) = {x} /\ <<x>> \in Seq(Ids) /\ born[x] = p.step
  <2>1. PICK y \in Ids : p.post.answer = <<y>>
    BY <1>1, <1>2 DEF Belongs
  <2>2. Elements(<<y>>) = {y} /\ <<y>> \in Seq(Ids) /\ <<y>>[1] = y
    BY EmptyList, ElementsLemma
  <2>3. QED
    BY <1>1, <2>1, <2>2 DEF Belongs
<1>4. p.listed \in Seq(Ids) /\ <<x>> \o p.listed \in Seq(Ids) /\ Elements(<<x>> \o p.listed) = {x} \cup Elements(p.listed)
  BY <1>1, <1>3, PageFields, ElementsLemma
<1>5. x # 0 /\ x \in {0} \cup Ids
  BY <1>3, StepPageAssumption DEF Ids
<1> HIDE DEF x
<1>6. /\ q \in PageRecord /\ q.step = p.step /\ q.session = p.session /\ q.listed = <<x>> \o p.listed /\ q.ensure = p.ensure
      /\ q.asked = FALSE /\ q.target = p.target /\ q.load = p.load /\ q.post = Idle /\ q.removal = p.removal
  BY <1>1, <1>3, <1>4, EmptyList DEF PageRecord, Idle
<1> HIDE DEF q
<1>7. Belongs(q, born)
  BY <1>1, <1>3, <1>4, <1>6, EmptyList DEF Belongs, Idle
<1>8. ps = [pages EXCEPT ![v] = q]
  OBVIOUS
<1> HIDE DEF ps
<1>9. GoodPages(ps, born)
  BY <1>1, <1>6, <1>7, <1>8, PagePut
<1>10. Len(ps) = Len(pages)
  BY <1>1, <1>6, <1>7, <1>8, PagePut
<1>11. ps[v] = q
  BY <1>1, <1>6, <1>7, <1>8, PagePut
<1>12. \A u \in 1..Len(pages) : u # v => ps[u] = pages[u]
  BY <1>1, <1>6, <1>7, <1>8, PagePut
<1>13. v \in 1..Len(ps) /\ (x # 0 => born[x] = ps[v].step)
  BY <1>1, <1>3, <1>6, <1>10, <1>11
<1>14. GoodPages(pages', born)
  BY <1>2, <1>5, <1>9, <1>13, ReplaceLemma
<1>15. Len(pages') <= MaxVisits
  <2>1. Len(pages') = Len(Replace(ps, v, 0))
    BY <1>2, <1>5, <1>9, <1>13, ReplaceLemma
  <2>2. QED
    BY <1>2, <2>1
<1>16. GoodStore(stored', born) /\ stored'[p.step] = x
  BY <1>1, <1>2, <1>3, <1>5 DEF GoodStore
<1>17. ASSUME PageCalm
       PROVE  /\ Len(pages') = Len(pages) /\ \A u \in 1..Shown : u # Shown => pages'[u] = pages[u]
              /\ CalmPage(pages'[Shown], kept[pages'[Shown].step], stored'[pages'[Shown].step])
  <2> DEFINE r == [q EXCEPT !.session = x]
  <2>1. v = Shown /\ CalmPage(p, kept[p.step], stored[p.step])
    BY <1>1, <1>2, <1>17, BusyIsShown DEF CalmShown, Busy, Idle
  <2>2. /\ r \in PageRecord /\ r.step = q.step /\ r.session = x /\ r.listed = q.listed /\ r.ensure = q.ensure
        /\ r.asked = q.asked /\ r.target = q.target /\ r.load = q.load /\ r.post = q.post /\ r.removal = q.removal
    BY <1>5, <1>6 DEF PageRecord
  <2>3. Belongs(r, born)
    BY <1>3, <1>5, <1>6, <1>7, SessionPut
  <2>4. pages' = [ps EXCEPT ![v] = r]
    <3>1. v = Len(ps)
      BY <1>10, <2>1 DEF Shown
    <3>2. pages' = [ps EXCEPT ![v] = [ps[v] EXCEPT !.session = x]]
      BY <1>2, <1>5, <1>9, <1>13, <3>1, ReplaceLemma
    <3>3. QED
      BY <1>11, <3>2
  <2> HIDE DEF r, p
  <2>5. Len(pages') = Len(ps)
    BY <1>9, <1>13, <2>2, <2>3, <2>4, PagePut
  <2>6. pages'[v] = r
    BY <1>9, <1>13, <2>2, <2>3, <2>4, PagePut
  <2>7. \A u \in 1..Len(ps) : u # v => pages'[u] = ps[u]
    BY <1>9, <1>13, <2>2, <2>3, <2>4, PagePut
  <2>8. p.load = Idle /\ x \notin Elements(p.listed)
    <3>1. p.load = Idle
      BY <1>2, <2>1 DEF CalmPage, LoadingIsAlone, Idle
    <3>2. PICK y \in Ids : p.post.answer = <<y>> /\ y \notin Elements(p.listed)
      BY <1>2, <2>1 DEF CalmPage, PostedIsNew
    <3>3. Elements(<<y>>) = {y}
      BY EmptyList, ElementsLemma
    <3>4. x = y
      BY <1>3, <3>2, <3>3
    <3>5. QED
      BY <3>1, <3>2, <3>4
  <2>9. ListIsKept(r, kept[r.step])
    <3>1. kept[p.step] = <<x>> \o Left(p)
      BY <1>2, <1>3, <2>1, <2>8 DEF CalmPage, ListIsKept, Posted
    <3>2. Left(r) = <<x>> \o Left(p) /\ Left(r) \in Seq(Ids)
      <4>1. CASE p.removal.at = "served"
        <5>1. p.target \in Elements(p.listed)
          BY <2>1, <4>1 DEF CalmPage, DeletedIsListed, Idle
        <5>2. x # p.target
          BY <2>8, <5>1
        <5>3. Without(<<x>> \o p.listed, p.target) = <<x>> \o Without(p.listed, p.target)
          BY <1>3, <1>4, <5>2, WithoutSparesFirst
        <5>4. Left(r) = Without(<<x>> \o p.listed, p.target) /\ Left(p) = Without(p.listed, p.target)
          BY <1>6, <2>2, <4>1 DEF Left
        <5>5. Left(r) \in Seq(Ids)
          <6> DEFINE w == <<x>> \o p.listed
          <6>1. w \in Seq(Ids)
            BY <1>4
          <6> HIDE DEF w
          <6>2. Without(w, p.target) \in Seq(Ids)
            BY <6>1, WithoutIsWithout
          <6>3. QED
            BY <5>4, <6>2 DEF w
        <5>6. QED
          BY <5>3, <5>4, <5>5
      <4>2. CASE p.removal.at # "served"
        BY <1>4, <1>6, <2>2, <4>2 DEF Left
      <4>3. QED
        BY <4>1, <4>2
    <3>3. Posted(r) = <<>> /\ <<>> \o Left(r) = Left(r)
      BY <1>6, <2>2, <3>2, ConcatEmptySeq DEF Posted, Idle
    <3>4. QED
      BY <1>6, <2>2, <3>1, <3>2, <3>3 DEF ListIsKept
  <2>10. CalmPage(r, kept[r.step], stored'[r.step])
    <3>1. LoadingIsAlone(r, kept[r.step])
      BY <1>6, <2>2, <2>8 DEF LoadingIsAlone
    <3>2. SessionIsListed(r, stored'[r.step])
      BY <1>4, <1>6, <1>16, <2>2 DEF SessionIsListed
    <3>3. SessionIsMade(r, kept[r.step]) /\ PostedIsNew(r)
      BY <1>5, <1>6, <2>2 DEF SessionIsMade, PostedIsNew, Idle
    <3>4. DeletedIsListed(r)
      BY <1>4, <1>6, <2>1, <2>2 DEF CalmPage, DeletedIsListed
    <3>5. QED
      BY <2>9, <3>1, <3>2, <3>3, <3>4 DEF CalmPage
  <2>11. QED
    BY <1>10, <1>12, <2>1, <2>5, <2>6, <2>7, <2>10 DEF Shown
<1>18. /\ kept' \in [PageSteps -> Seq(Ids)] /\ KeptBelong' /\ kept' = kept /\ UNCHANGED <<born, doings>>
       /\ GoodStore(stored', born)
  BY <1>2, <1>16 DEF StepPageInv, PageTypeOK, KeptBelong
<1>19. QED
  BY <1>14, <1>15, <1>17, <1>18, PagesReplaced

(* A session is deleted on the server.                                      *)
LEMMA DeletionIsServed ==
  ASSUME StepPageInv, NEW v \in 1..Shown, ServeDelete(v)
  PROVE  StepPageInv'
<1> DEFINE p == pages[v]
           has == kept[p.step]
           left == Without(has, p.target)
           outcome == IF p.target \in Elements(has) THEN "served" ELSE "refused"
           r == [p EXCEPT !.removal = [@ EXCEPT !.at = outcome]]
<1>1. /\ v \in 1..Shown /\ v \in DOMAIN pages /\ p \in PageRecord /\ Belongs(p, born) /\ p.step \in PageSteps
      /\ doings \in [clicks : 0..MaxClicks, hasty : BOOLEAN, failed : BOOLEAN, crossed : BOOLEAN, spare : BOOLEAN]
      /\ kept \in [PageSteps -> Seq(Ids)] /\ has \in Seq(Ids)
  BY ShownPages DEF StepPageInv, PageTypeOK
<1>2. /\ p.removal.at = "sent" /\ kept' = [kept EXCEPT ![p.step] = left] /\ pages' = [pages EXCEPT ![v] = r]
      /\ UNCHANGED <<born, stored, doings>>
  BY <1>1 DEF ServeDelete, PageRecord
<1>3. left \in Seq(Ids) /\ Elements(left) = Elements(has) \ {p.target}
  <2> HIDE DEF p, has
  <2>1. has \in Seq(Ids)
    BY <1>1
  <2>2. QED
    BY <2>1, WithoutIsWithout
<1>4. p.listed \in Seq(Ids) /\ outcome \in {"served", "refused"}
  BY <1>1, PageFields
<1> HIDE DEF left
<1>5. /\ r \in PageRecord /\ r.step = p.step /\ r.session = p.session /\ r.listed = p.listed /\ r.ensure = p.ensure
      /\ r.asked = p.asked /\ r.target = p.target /\ r.load = p.load /\ r.post = p.post /\ r.removal.at = outcome
      /\ r.removal # Idle
  <2> HIDE DEF outcome
  <2>1. QED
    BY <1>1, <1>4 DEF PageRecord, Idle
<1> HIDE DEF r
<1>6. Belongs(r, born)
  BY <1>1, <1>5 DEF Belongs
<1>7. /\ kept' \in [PageSteps -> Seq(Ids)] /\ kept'[p.step] = left
      /\ \A t \in PageSteps : Elements(kept'[t]) \subseteq Elements(kept[t])
  <2>1. kept' \in [PageSteps -> Seq(Ids)] /\ kept'[p.step] = left /\ \A t \in PageSteps : t # p.step => kept'[t] = kept[t]
    BY <1>1, <1>2, <1>3
  <2>2. QED
    BY <1>3, <2>1
<1>8. KeptBelong' /\ UNCHANGED <<born, stored, doings>>
  BY <1>2, <1>7 DEF StepPageInv, KeptBelong
<1>9. ASSUME PageCalm'
      PROVE  PageCalm /\ v = Shown /\ ~doings'.spare /\ CalmPage(r, kept'[r.step], stored'[r.step])
  <2>1. PageCalm /\ v = Shown /\ CalmPage(p, has, stored[p.step]) /\ ~doings.spare
    BY <1>1, <1>2, <1>9, BusyIsShown DEF StepPageInv, CalmPages, CalmShown, PageCalm, Busy, Idle
  <2> HIDE DEF p, has, outcome
  <2>2. p.load = Idle /\ p.target \in Elements(p.listed) /\ Left(p) = p.listed /\ has = Posted(p) \o p.listed
    BY <1>2, <2>1 DEF CalmPage, LoadingIsAlone, DeletedIsListed, ListIsKept, Left, Idle
  <2>3. p.listed # <<>>
    BY <2>2, EmptyList
  <2>4. p.target \in Elements(has) /\ left = Posted(p) \o Without(p.listed, p.target)
    <3>1. CASE p.post.at = "served"
      <4>1. PICK x \in Ids : p.post.answer = <<x>> /\ x \notin Elements(p.listed)
        BY <2>1, <3>1 DEF CalmPage, PostedIsNew
      <4>2. has = <<x>> \o p.listed /\ Posted(p) = <<x>> /\ x # p.target
        BY <2>2, <3>1, <4>1 DEF Posted
      <4>3. Elements(<<x>> \o p.listed) = {x} \cup Elements(p.listed)
        BY <1>4, ElementsLemma
      <4>4. Without(<<x>> \o p.listed, p.target) = <<x>> \o Without(p.listed, p.target)
        BY <1>4, <4>2, WithoutSparesFirst
      <4>5. QED
        BY <2>2, <4>2, <4>3, <4>4 DEF left
    <3>2. CASE p.post.at # "served"
      <4>1. Posted(p) = <<>> /\ has = p.listed
        BY <1>4, <2>2, <3>2, ConcatEmptySeq DEF Posted
      <4>2. Without(p.listed, p.target) \in Seq(Ids)
        BY <1>4, WithoutIsWithout
      <4>3. QED
        BY <2>2, <4>1, <4>2, ConcatEmptySeq DEF left
    <3>3. QED
      BY <3>1, <3>2
  <2>5. Left(r) = Without(p.listed, p.target) /\ Posted(r) = Posted(p)
    BY <1>5, <2>4 DEF Left, Posted, outcome
  <2>6. ListIsKept(r, kept'[r.step])
    BY <1>5, <1>7, <2>4, <2>5 DEF ListIsKept
  <2>7. LoadingIsAlone(r, kept'[r.step]) /\ SessionIsListed(r, stored'[r.step]) /\ PostedIsNew(r) /\ DeletedIsListed(r)
    BY <1>5, <1>8, <2>1, <2>2 DEF CalmPage, LoadingIsAlone, SessionIsListed, PostedIsNew, DeletedIsListed
  <2>8. SessionIsMade(r, kept'[r.step])
    BY <1>5, <2>1, <2>2, <2>3 DEF CalmPage, SessionIsMade
  <2>9. QED
    BY <1>8, <2>1, <2>6, <2>7, <2>8 DEF CalmPage
<1>10. GoodPages(pages, born') /\ born' \in [Ids -> PageSteps \cup {"none"}] /\ GoodStore(stored', born') /\ Belongs(r, born')
       /\ doings' \in [clicks : 0..MaxClicks, hasty : BOOLEAN, failed : BOOLEAN, crossed : BOOLEAN, spare : BOOLEAN]
  BY <1>1, <1>6, <1>8 DEF StepPageInv, PageTypeOK
<1>11. QED
  BY <1>1, <1>2, <1>5, <1>7, <1>8, <1>9, <1>10, PageChanged

(* A session that was deleted leaves the list, and the page if it was open. *)
LEMMA DeletionIsShown ==
  ASSUME StepPageInv, NEW v \in 1..Shown, ShowDeleted(v)
  PROVE  StepPageInv'
<1> DEFINE p == pages[v]
           left == Without(p.listed, p.target)
           q == [p EXCEPT !.removal = Idle, !.target = 0, !.listed = left]
           q0 == [q EXCEPT !.session = 0]
           ps == [pages EXCEPT ![v] = q]
           qs == Replace(ps, v, 0)
           ws == [qs EXCEPT ![v] = [qs[v] EXCEPT !.session = 0]]
<1>1. /\ v \in 1..Shown /\ v \in DOMAIN pages /\ p \in PageRecord /\ Belongs(p, born) /\ p.step \in PageSteps
      /\ v \in 1..Len(pages) /\ Shown <= MaxVisits /\ GoodPages(pages, born) /\ GoodStore(stored, born)
  BY ShownPages DEF StepPageInv, Shown
<1>2. /\ p.removal.at = "served" /\ Len(qs) <= MaxVisits /\ UNCHANGED <<kept, born, doings>>
      /\ IF p.session # p.target THEN pages' = ps /\ UNCHANGED stored
         ELSE Ensure([qs EXCEPT ![v].session = 0], v)
  <2>1. ps = [pages EXCEPT ![v].removal = Idle, ![v].target = 0, ![v].listed = Without(@, pages[v].target)]
    BY <1>1 DEF PageRecord
  <2> HIDE DEF ps
  <2>2. QED
    BY <2>1 DEF ShowDeleted
<1>3. p.listed \in Seq(Ids) /\ left \in Seq(Ids) /\ Elements(left) = Elements(p.listed) \ {p.target}
  <2>1. p.listed \in Seq(Ids)
    BY <1>1, PageFields
  <2> HIDE DEF p
  <2>2. QED
    BY <2>1, WithoutIsWithout
<1> HIDE DEF left
<1>4. /\ q \in PageRecord /\ q.step = p.step /\ q.session = p.session /\ q.listed = left /\ q.ensure = p.ensure
      /\ q.asked = p.asked /\ q.target = 0 /\ q.load = p.load /\ q.post = p.post /\ q.removal = Idle
  BY <1>1, <1>3, EmptyList DEF PageRecord, Idle
<1> HIDE DEF q
<1>5. Belongs(q, born)
  BY <1>1, <1>3, <1>4 DEF Belongs
<1>6. /\ q0 \in PageRecord /\ q0.step = p.step /\ q0.session = 0 /\ q0.listed = left /\ q0.ensure = p.ensure
      /\ q0.asked = p.asked /\ q0.target = 0 /\ q0.load = p.load /\ q0.post = p.post /\ q0.removal = Idle
  BY <1>4 DEF PageRecord
<1>7. Belongs(q0, born)
  BY <1>4, <1>5, SessionPut
<1>8. ps = [pages EXCEPT ![v] = q]
  OBVIOUS
<1> HIDE DEF q0, ps
<1>8a. qs = Replace(ps, v, 0)
  OBVIOUS
<1>9. GoodPages(ps, born)
  BY <1>1, <1>4, <1>5, <1>8, PagePut
<1>10. Len(ps) = Len(pages)
  BY <1>1, <1>4, <1>5, <1>8, PagePut
<1>11. ps[v] = q
  BY <1>1, <1>4, <1>5, <1>8, PagePut
<1>12. \A u \in 1..Len(pages) : u # v => ps[u] = pages[u]
  BY <1>1, <1>4, <1>5, <1>8, PagePut
<1>13. v \in 1..Len(ps) /\ 0 \in {0} \cup Ids
  BY <1>1, <1>10
<1> HIDE DEF qs
<1>14. GoodPages(qs, born)
  BY <1>9, <1>13, <1>8a, ReplaceLemma
<1>15. v \in 1..Len(qs)
  BY <1>9, <1>13, <1>8a, ReplaceLemma
<1>16. qs[v].step = ps[v].step
  BY <1>9, <1>13, <1>8a, ReplaceLemma
<1>17. qs[Len(qs)].step = ps[v].step
  BY <1>9, <1>13, <1>8a, ReplaceLemma
<1>18. v = Len(ps) => qs = [ps EXCEPT ![v] = [ps[v] EXCEPT !.session = 0]]
  BY <1>9, <1>13, <1>8a, ReplaceLemma
<1>19. CASE p.session # p.target
  <2>1. pages' = ps /\ stored' = stored
    BY <1>2, <1>19
  <2>2. Len(pages') <= MaxVisits /\ GoodPages(pages', born) /\ GoodStore(stored', born)
    BY <1>1, <1>9, <1>10, <2>1 DEF Shown
  <2>3. ASSUME PageCalm
        PROVE  /\ Len(pages') = Len(pages) /\ \A u \in 1..Shown : u # Shown => pages'[u] = pages[u]
               /\ CalmPage(pages'[Shown], kept'[pages'[Shown].step], stored'[pages'[Shown].step])
    <3>1. v = Shown /\ CalmPage(p, kept[p.step], stored[p.step])
      BY <1>1, <1>2, <2>3, BusyIsShown DEF CalmShown, Busy, Idle
    <3> HIDE DEF p
    <3>2. Posted(q) = Posted(p) /\ Left(q) = Left(p)
      BY <1>2, <1>4 DEF Posted, Left, Idle, left
    <3>3. p.load = Idle /\ p.target \in Elements(p.listed)
      BY <1>2, <3>1 DEF CalmPage, LoadingIsAlone, DeletedIsListed, Idle
    <3>4. LoadingIsAlone(q, kept[q.step]) /\ ListIsKept(q, kept[q.step])
      BY <1>4, <3>1, <3>2, <3>3 DEF CalmPage, LoadingIsAlone, ListIsKept
    <3>5. SessionIsListed(q, stored[q.step]) /\ PostedIsNew(q)
      BY <1>3, <1>4, <1>19, <3>1 DEF CalmPage, SessionIsListed, PostedIsNew
    <3>6. SessionIsMade(q, kept[q.step]) /\ DeletedIsListed(q)
      <4>1. p.listed # <<>>
        BY <3>3, EmptyList
      <4>2. QED
        BY <1>4, <3>1, <4>1 DEF CalmPage, SessionIsMade, DeletedIsListed
    <3>7. CalmPage(q, kept[q.step], stored[q.step])
      BY <3>4, <3>5, <3>6 DEF CalmPage
    <3>8. QED
      BY <1>2, <1>10, <1>11, <1>12, <2>1, <3>1, <3>7 DEF Shown
  <2>4. kept' \in [PageSteps -> Seq(Ids)] /\ KeptBelong' /\ kept' = kept /\ UNCHANGED <<born, doings>>
    BY <1>2 DEF StepPageInv, PageTypeOK, KeptBelong
  <2>5. QED
    BY <2>2, <2>3, <2>4, PagesReplaced
<1>20. CASE p.session = p.target
  <2> DEFINE z == qs[v]
             z0 == [z EXCEPT !.session = 0]
  <2>1. z \in PageRecord /\ Belongs(z, born) /\ v \in DOMAIN qs
    BY <1>14, <1>15, PagesAreRecords
  <2>2. z0 \in PageRecord /\ Belongs(z0, born) /\ z0.step = z.step
    BY <1>13, <2>1, SessionPut
  <2>3. Ensure(ws, v) /\ ws = [qs EXCEPT ![v] = z0]
    <3>1. ws = [qs EXCEPT ![v].session = 0] /\ ws = [qs EXCEPT ![v] = z0]
      OBVIOUS
    <3> HIDE DEF ws
    <3>2. QED
      BY <1>2, <1>20, <3>1
  <2> HIDE DEF ws, z0
  <2>4. GoodPages(ws, born)
    BY <1>14, <1>15, <2>2, <2>3, PagePut
  <2>5. Len(ws) = Len(qs)
    BY <1>14, <1>15, <2>2, <2>3, PagePut
  <2>6. ws[v] = z0
    BY <1>14, <1>15, <2>2, <2>3, PagePut
  <2>7. \A u \in 1..Len(qs) : u # v => ws[u] = qs[u]
    BY <1>14, <1>15, <2>2, <2>3, PagePut
  <2>8. Len(Replace(ws, v, 0)) = Len(ws)
    <3>1. Len(qs) \in 1..Len(qs)
      BY <1>14, PagesAreRecords
    <3>2. ws[v].step = qs[v].step /\ ws[Len(ws)].step = qs[Len(qs)].step
      BY <2>2, <2>5, <2>6, <2>7, <3>1
    <3>3. ws[Len(ws)].step = ws[v].step /\ v \in 1..Len(ws)
      BY <1>15, <1>16, <1>17, <2>5, <3>2
    <3> DEFINE w == Replace(ws, v, 0)
    <3>4. w = Replace(ws, v, 0)
      OBVIOUS
    <3> HIDE DEF w
    <3>5. Len(w) = Len(ws)
      BY <1>13, <2>4, <3>3, <3>4, ReplaceLemma
    <3>6. QED
      BY <3>4, <3>5
  <2>9. v \in 1..Len(ws) /\ Len(ws) <= MaxVisits /\ Len(Replace(ws, v, 0)) <= MaxVisits
    BY <1>2, <1>15, <2>5, <2>8
  <2>10. GoodPages(pages', born) /\ GoodStore(stored', born)
    BY <1>1, <2>3, <2>4, <2>9, EnsureLemma
  <2>11. Len(pages') <= MaxVisits
    BY <1>1, <2>3, <2>4, <2>9, EnsureLemma
  <2>12. ASSUME PageCalm
         PROVE  /\ Len(pages') = Len(pages) /\ \A u \in 1..Shown : u # Shown => pages'[u] = pages[u]
                /\ CalmPage(pages'[Shown], kept[pages'[Shown].step], stored'[pages'[Shown].step])
    <3>1. v = Shown /\ CalmPage(p, kept[p.step], stored[p.step])
      BY <1>1, <1>2, <2>12, BusyIsShown DEF CalmShown, Busy, Idle
    <3>2. ws = [pages EXCEPT ![Shown] = q0]
      <4>1. qs = [ps EXCEPT ![v] = q0]
        BY <1>10, <1>11, <1>18, <3>1 DEF Shown, q0
      <4>2. pages \in Seq(PageRecord) /\ ps \in Seq(PageRecord) /\ v \in DOMAIN pages
        BY <1>1, <1>9 DEF GoodPages
      <4>3. z = q0 /\ z0 = q0
        <5>1. z = q0
          BY <1>8, <1>9, <1>6, <1>7, <1>13, <4>1, PagePut
        <5>2. z0 = [q0 EXCEPT !.session = 0]
          BY <5>1 DEF z0
        <5>3. [q0 EXCEPT !.session = 0] = q0
          BY DEF q0
        <5>4. QED
          BY <5>1, <5>2, <5>3
      <4>4. ws = [qs EXCEPT ![v] = q0]
        BY <2>3, <4>3
      <4>5. ws = [pages EXCEPT ![v] = q0]
        BY <1>8, <4>1, <4>4
      <4>6. QED
        BY <3>1, <4>5
    <3>3. AnswersShown(q0, kept[q0.step], stored[q0.step])
      <4> HIDE DEF p
      <4>1. Posted(q0) = Posted(p) /\ Left(q0) = Left(p)
        BY <1>2, <1>6 DEF Posted, Left, Idle, left
      <4>2. p.load = Idle /\ p.target \in Elements(p.listed)
        BY <1>2, <3>1 DEF CalmPage, LoadingIsAlone, DeletedIsListed, Idle
      <4>3. p.listed # <<>>
        BY <4>2, EmptyList
      <4>4. ListIsKept(q0, kept[q0.step]) /\ SessionIsListed(q0, stored[q0.step])
        BY <1>6, <3>1, <4>1, <4>2 DEF CalmPage, ListIsKept, SessionIsListed
      <4>5. PostedIsNew(q0) /\ DeletedIsListed(q0)
        BY <1>3, <1>6, <3>1 DEF CalmPage, PostedIsNew, DeletedIsListed
      <4>6. q0.post.at = "sent" /\ ~q0.asked => FALSE
        BY <1>6, <3>1, <4>3 DEF CalmPage, SessionIsMade
      <4>7. QED
        BY <1>6, <4>2, <4>4, <4>5, <4>6 DEF AnswersShown
    <3>4. q0.step = pages[Shown].step /\ Ensure(ws, Shown) /\ Len(Replace(ws, Shown, 0)) <= MaxVisits
      BY <1>6, <2>3, <2>9, <3>1
    <3>5. QED
      BY <1>6, <1>7, <3>2, <3>3, <3>4, EnsuredIsCalm
  <2>13. kept' \in [PageSteps -> Seq(Ids)] /\ KeptBelong' /\ kept' = kept /\ UNCHANGED <<born, doings>>
    BY <1>2 DEF StepPageInv, PageTypeOK, KeptBelong
  <2>14. QED
    BY <2>10, <2>11, <2>12, <2>13, PagesReplaced
<1>21. QED
  BY <1>19, <1>20

LEMMA PageStep == StepPageInv /\ [PageNext]_pageVars => StepPageInv'
<1> SUFFICES ASSUME StepPageInv, [PageNext]_pageVars PROVE StepPageInv'
  OBVIOUS
<1>1. CASE UNCHANGED pageVars
  <2>1. kept' = kept /\ born' = born /\ pages' = pages /\ stored' = stored /\ doings' = doings
    BY <1>1 DEF pageVars
  <2>2. PageTypeOK' /\ GoodPages(pages', born') /\ GoodStore(stored', born') /\ KeptBelong'
    BY <2>1 DEF StepPageInv, PageTypeOK, KeptBelong, Shown
  <2>3. CalmPages'
    BY <2>1 DEF StepPageInv, CalmPages, CalmShown, PageCalm, Shown, Busy
  <2>4. QED
    BY <2>2, <2>3 DEF StepPageInv
<1>2. ASSUME NEW s \in PageSteps, Visit(s) PROVE StepPageInv'
  BY <1>2, StepVisited
<1>3. CASE CreateSession
  BY <1>3, CreateIsAsked
<1>4. CASE OnTurnCompleted
  BY <1>4, ReloadIsAsked
<1>5. ASSUME NEW x \in Ids, SelectSession(x) PROVE StepPageInv'
  BY <1>5, SessionIsSelected
<1>6. ASSUME NEW x \in Ids, ConfirmDeleteSession(x) PROVE StepPageInv'
  BY <1>6, DeletionIsAsked
<1>7. ASSUME NEW v \in 1..Shown,
             \/ LoadSessions(v) \/ ListSessions(v) \/ ShowSessions(v) \/ ServeCreate(v) \/ ShowCreated(v)
             \/ ServeDelete(v) \/ ShowDeleted(v) \/ ListFails(v) \/ CreateFails(v) \/ DeleteFails(v)
      PROVE  StepPageInv'
  <2>1. CASE LoadSessions(v)
    BY <2>1, ListIsAsked
  <2>2. CASE ListSessions(v)
    BY <2>2, ListIsServed
  <2>3. CASE ShowSessions(v)
    BY <2>3, ListIsShown
  <2>4. CASE ServeCreate(v)
    BY <2>4, CreationIsServed
  <2>5. CASE ShowCreated(v)
    BY <2>5, CreationIsShown
  <2>6. CASE ServeDelete(v)
    BY <2>6, DeletionIsServed
  <2>7. CASE ShowDeleted(v)
    BY <2>7, DeletionIsShown
  <2>8. CASE ListFails(v)
    BY <2>8, ListFailed
  <2>9. CASE CreateFails(v)
    BY <2>9, CreationFailed
  <2>10. CASE DeleteFails(v)
    BY <2>10, DeletionFailed
  <2>11. QED
    BY <1>7, <2>1, <2>2, <2>3, <2>4, <2>5, <2>6, <2>7, <2>8, <2>9, <2>10
<1>8. DOMAIN pages = 1..Shown /\ Ids = 1..MaxSessions
  BY ShownPages DEF Ids
<1>9. QED
  BY <1>1, <1>2, <1>3, <1>4, <1>5, <1>6, <1>7, <1>8 DEF PageNext

LEMMA ShownIsRight == StepPageInv => SessionsAreShown
<1> SUFFICES ASSUME StepPageInv PROVE SessionsAreShown
  OBVIOUS
<1>1. SessionsStayWithSteps
  <2>1. ASSUME NEW v \in DOMAIN pages, NEW x \in ({pages[v].session} \ {0}) \cup Elements(pages[v].listed)
        PROVE  born[x] = pages[v].step
    BY <2>1, ShownPages DEF Belongs
  <2>2. ASSUME NEW s \in PageSteps, stored[s] # 0 PROVE born[stored[s]] = s
    BY <2>2 DEF StepPageInv, GoodStore
  <2>3. QED
    BY <2>1, <2>2 DEF SessionsStayWithSteps
<1>2. ASSUME PageCalm
      PROVE  /\ ~doings.spare
             /\ ~Busy(Shown) => /\ pages[Shown].listed = kept[pages[Shown].step]
                                /\ pages[Shown].session \in Elements(kept[pages[Shown].step])
                                /\ stored[pages[Shown].step] = pages[Shown].session
  <2> DEFINE p == pages[Shown]
  <2>1. ~doings.spare /\ CalmPage(p, kept[p.step], stored[p.step]) /\ p \in PageRecord
    BY <1>2, ShownPages DEF StepPageInv, CalmPages, CalmShown
  <2>2. ASSUME ~Busy(Shown)
        PROVE  p.listed = kept[p.step] /\ p.session \in Elements(kept[p.step]) /\ stored[p.step] = p.session
    <3>1. p.load = Idle /\ p.post = Idle /\ p.removal = Idle /\ p.listed \in Seq(Ids)
      BY <2>1, <2>2, PageFields DEF Busy
    <3> HIDE DEF p
    <3>2. kept[p.step] = p.listed
      <4>1. kept[p.step] = <<>> \o p.listed
        BY <2>1, <3>1 DEF CalmPage, ListIsKept, Posted, Left, Idle
      <4>2. QED
        BY <3>1, <4>1, ConcatEmptySeq
    <3>3. p.session # 0
      BY <2>1, <3>1 DEF CalmPage, SessionIsMade
    <3>4. QED
      BY <2>1, <3>2, <3>3 DEF CalmPage, SessionIsListed
  <2>3. QED
    BY <2>1, <2>2
<1>3. QED
  BY <1>1, <1>2 DEF SessionsAreShown, StepHasItsSession, PageCalm

(* In every behaviour of the page of a step: no page names, lists or        *)
(* remembers a session of another step, and who waits until a page is done, *)
(* with no failed request and no load that crossed a creation or a          *)
(* deletion, sees the sessions the server has, in its order, with one of    *)
(* them open and remembered; no session was created that nobody needed      *)
(* ([stepId].vue: loadSessions, ensureActiveSession, createSession,         *)
(* confirmDeleteSession).                                                   *)
THEOREM SessionsShown == PageSpec => []SessionsAreShown
<1>1. PageInit => StepPageInv
  BY Initially
<1>2. StepPageInv /\ [PageNext]_pageVars => StepPageInv'
  BY PageStep
<1>3. StepPageInv => SessionsAreShown
  BY ShownIsRight
<1>4. QED
  BY <1>1, <1>2, <1>3, PTL DEF PageSpec

-----------------------------------------------------------------------------
(* The turns of a session, its page and the page of its step together      *)

LEMMA ChatTypes == ChatInv => ChatTypeOK
  BY DEF ChatInv, ChatTyped, ChatTypeOK, SendIds, Terminals

(* What is proved of the turns, the page of a chat and the page of a step  *)
(* by themselves holds when one of them moves at a time.                   *)
THEOREM TurnsAreParts == TurnsSpec => Spec /\ ChatSpec /\ PageSpec
<1>1. TurnsInit => Init /\ ChatInit /\ PageInit
  BY DEF TurnsInit
<1>2. [TurnsNext]_turnsVars => [Next]_vars /\ [ChatNext]_chatVars /\ [PageNext]_pageVars
  BY DEF TurnsNext, turnsVars
<1>3. QED
  BY <1>1, <1>2, PTL DEF TurnsSpec, Spec, ChatSpec, PageSpec

(* Whichever of them moves, every variable keeps its type.                 *)
THEOREM TurnsTyped == TurnsSpec => []TurnsTypeOK
<1>1. ChatInit => ChatInv
  BY ChatBegins
<1>2. ChatInv /\ [ChatNext]_chatVars => ChatInv'
  BY ChatStep
<1>3. PageInit => StepPageInv
  BY Initially
<1>4. StepPageInv /\ [PageNext]_pageVars => StepPageInv'
  BY PageStep
<1>5. TypeOK /\ ChatInv /\ StepPageInv => TurnsTypeOK
  BY ChatTypes DEF TurnsTypeOK, StepPageInv
<1>6. QED
  BY <1>1, <1>2, <1>3, <1>4, <1>5, TurnsAreParts, TypeCorrect, PTL DEF ChatSpec, PageSpec
===============================================================================
