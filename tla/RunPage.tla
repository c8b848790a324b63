-------------------------------- MODULE RunPage --------------------------------
(***************************************************************************)
(* The page of an implement run: run.vue, which starts the run, follows    *)
(* its stream through sse-client.ts, patches its view of the tasks with    *)
(* each event and reads the whole status now and then.  One browser.       *)
(*                                                                         *)
(* The server is that of RunScheduler, by what it saves and emits, and in  *)
(* which order: a start is announced while the scheduler's own copy of the *)
(* state, which has no ends, is being saved; an end once it is saved.  A   *)
(* request is sent, served and answered in three actions.                  *)
(***************************************************************************)
EXTENDS Naturals, SequencesExt

CONSTANTS
  RunTasks,
  MaxRuns,      \* runs the user starts (bounds the model)
  MaxReads,     \* reads of the status under way at once (bounds the model)
  MaxBehind     \* events sent and not read yet, before another task moves (bounds the model)
ASSUME RunPageAssumption == MaxRuns \in Nat /\ MaxReads \in Nat \ {0} /\ MaxBehind \in Nat

VARIABLES
  saved,      \* server: the tasks' statuses in run/current.json
  launched,   \* server: tasks that were begun, that run, and whose start is not saved yet
  serverRun,  \* server: "none", "running", "over"
  stream,     \* the response of POST run/start: [open, events]
  shownTasks, \* status.value
  starting, streaming,
  reads,      \* the GETs of the status in the order they were sent: [at, answer, late]
  runs,
  astray      \* history: the page read an answer too late, lost one, or left the stream
runServerVars == <<saved, launched, serverRun>>
pageVars == <<shownTasks, starting, streaming, reads, runs, astray>>
runPageVars == <<runServerVars, stream, pageVars>>

Nobodys == [t \in RunTasks |-> "pending"]
Unread == [t \in RunTasks |-> "none"]   \* there is no run/current.json, or the page has not read one
\* refreshStatus.  An answer is late once a younger one has been shown.
NewRead == [at |-> "sent", answer |-> Unread, late |-> FALSE]
MayRead == Len(reads) < MaxReads
Refresh == reads' = Append(reads, NewRead)
\* After the page has left, nobody reads what is sent.
Tell(es) == stream' = IF stream.open THEN [stream EXCEPT !.events = @ \o es] ELSE stream
NoTasks == [begun |-> {}, on |-> {}, unsaved |-> {}]
KeepsUp == Len(stream.events) <= MaxBehind
Closed == [open |-> FALSE, events |-> <<>>]

RunPageInit ==
  /\ saved = Unread /\ launched = NoTasks /\ serverRun = "none"
  /\ stream = Closed /\ shownTasks = Unread
  /\ starting = FALSE /\ streaming = FALSE
  /\ reads = <<NewRead>> /\ runs = 0 /\ astray = FALSE

-------------------------------------------------------------------------------
\* The server.
RunBegins ==
  /\ starting /\ streaming /\ ~stream.open /\ serverRun \in {"none", "over"}
  /\ serverRun' = "running" /\ saved' = Nobodys /\ launched' = NoTasks
  /\ stream' = [open |-> TRUE, events |-> <<[kind |-> "run", task |-> "-"]>>]
  /\ UNCHANGED pageVars
TaskBegins(t) ==
  /\ KeepsUp /\ serverRun = "running" /\ saved[t] = "pending" /\ t \notin launched.begun
  /\ launched' = [begun |-> launched.begun \cup {t}, on |-> launched.on \cup {t},
                  unsaved |-> launched.unsaved \cup {t}]
  /\ Tell(<<[kind |-> "running", task |-> t]>>)
  /\ UNCHANGED <<saved, serverRun, pageVars>>
StartIsSaved(t) ==
  /\ t \in launched.unsaved /\ launched' = [launched EXCEPT !.unsaved = @ \ {t}]
  /\ saved' = [x \in RunTasks |-> IF x \in launched.begun THEN "running" ELSE "pending"]
  /\ astray' = (astray \/ serverRun = "over")
  /\ UNCHANGED <<serverRun, stream, shownTasks, starting, streaming, reads, runs>>
\* A failure blocks tasks that depend on it, which is announced first.
TaskEnds(t, blocked) ==
  LET status == IF blocked = {} THEN {"completed", "failed"} ELSE {"failed"} IN
  /\ KeepsUp /\ t \in launched.on /\ launched' = [launched EXCEPT !.on = @ \ {t}]
  /\ \A x \in blocked : x # t /\ saved[x] = "pending"
  /\ \E s \in status :
       /\ saved' = [x \in RunTasks |-> IF x = t THEN s ELSE IF x \in blocked THEN "blocked" ELSE saved[x]]
       /\ Tell(SetToSeq({[kind |-> "blocked", task |-> x] : x \in blocked}) \o <<[kind |-> s, task |-> t]>>)
  /\ UNCHANGED <<serverRun, pageVars>>
\* execute() ends with run_completed or run_paused, or throws.
RunEnds ==
  /\ serverRun = "running" /\ launched.on = {} /\ serverRun' = "over"
  /\ \E said \in {<<>>, <<[kind |-> "end", task |-> "-"]>>} :
       stream' = IF stream.open THEN [stream EXCEPT !.open = FALSE, !.events = @ \o said] ELSE stream
  /\ UNCHANGED <<saved, launched, pageVars>>
ServeRead(i) ==
  /\ reads[i].at = "sent" /\ reads' = [reads EXCEPT ![i].at = "served", ![i].answer = saved]
  /\ UNCHANGED <<runServerVars, stream, shownTasks, starting, streaming, runs, astray>>

-------------------------------------------------------------------------------
\* The page.
ShowRead(i) ==
  /\ reads[i].at = "served" /\ shownTasks' = reads[i].answer
  /\ reads' = RemoveAt([j \in DOMAIN reads |-> [reads[j] EXCEPT !.late = @ \/ j < i]], i)
  /\ astray' = (astray \/ reads[i].late)
  /\ UNCHANGED <<runServerVars, stream, starting, streaming, runs>>
ReadFails(i) ==
  /\ reads' = RemoveAt(reads, i) /\ astray' = TRUE
  /\ UNCHANGED <<runServerVars, stream, shownTasks, starting, streaming, runs>>
PageStartsRun ==
  /\ ~starting /\ ~streaming /\ runs < MaxRuns /\ stream = Closed
  /\ starting' = TRUE /\ streaming' = TRUE /\ runs' = runs + 1
  /\ astray' = (reads # <<>>)
  /\ UNCHANGED <<runServerVars, stream, shownTasks, reads>>

Streamed == streaming /\ stream.events # <<>>
Event == Head(stream.events)
Consume == stream' = [stream EXCEPT !.events = Tail(@)]
\* run_started, run_paused, run_completed: the status is read, and nobody waits for it.
HearRun ==
  /\ Streamed /\ Event.kind \in {"run", "end"} /\ MayRead /\ Consume /\ Refresh
  /\ UNCHANGED <<runServerVars, shownTasks, starting, streaming, runs, astray>>
\* patchTaskStatus, of a run the page knows.
HearTask ==
  /\ Streamed /\ Event.kind \notin {"run", "end"} /\ Consume
  /\ shownTasks' = IF shownTasks = Unread THEN Unread ELSE [shownTasks EXCEPT ![Event.task] = Event.kind]
  /\ UNCHANGED <<runServerVars, starting, streaming, reads, runs, astray>>

\* A mutant of CloseStream: what the events said is good enough.
CloseStreamOnly(lost) ==
  /\ streaming /\ streaming' = FALSE /\ starting' = FALSE /\ stream' = Closed
  /\ IF lost THEN astray' = TRUE ELSE ~stream.open /\ serverRun = "over" /\ ~Streamed /\ UNCHANGED astray
  /\ UNCHANGED <<runServerVars, shownTasks, reads, runs>>

\* onClose, after the last event; or earlier, when the connection is lost, the
\* request refused or the user cancels, and the run may go on.
CloseStream(lost) ==
  /\ streaming /\ streaming' = FALSE /\ starting' = FALSE /\ stream' = Closed
  /\ IF lost THEN astray' = TRUE ELSE ~stream.open /\ serverRun = "over" /\ ~Streamed /\ UNCHANGED astray
  /\ MayRead /\ Refresh
  /\ UNCHANGED <<runServerVars, shownTasks, runs>>

RunPageNext ==
  \/ RunBegins \/ RunEnds \/ PageStartsRun \/ HearRun \/ HearTask
  \/ \E t \in RunTasks : TaskBegins(t) \/ StartIsSaved(t) \/ \E b \in SUBSET RunTasks : TaskEnds(t, b)
  \/ \E i \in DOMAIN reads : ServeRead(i) \/ ShowRead(i) \/ ReadFails(i)
  \/ \E lost \in BOOLEAN : CloseStream(lost)
RunPageSpec == RunPageInit /\ [][RunPageNext]_runPageVars

-------------------------------------------------------------------------------
TaskStates == {"none", "pending", "running", "completed", "failed", "blocked"}
RunPageTypeOK ==
  /\ saved \in [RunTasks -> TaskStates] /\ shownTasks \in [RunTasks -> TaskStates]
  /\ launched.on \subseteq launched.begun /\ launched.unsaved \subseteq launched.begun
  /\ serverRun \in {"none", "running", "over"} /\ starting \in BOOLEAN /\ streaming \in BOOLEAN
  /\ stream.open \in BOOLEAN /\ Len(reads) <= MaxReads
  /\ reads \in Seq([at : {"sent", "served"}, answer : [RunTasks -> TaskStates], late : BOOLEAN])
  /\ runs \in 0..MaxRuns /\ astray \in BOOLEAN

\* When the stream is closed and every read answered, the page shows what is in
\* run/current.json, also after a run that ended with an error and whatever the
\* order of patches and answers was.  It may not after an answer that came after
\* a younger one's, a read that failed, a stream that closed before the run
\* ended, and a start that was saved after that.
PageSettles ==
  ~astray /\ ~streaming /\ reads = <<>> => shownTasks = saved
===============================================================================
