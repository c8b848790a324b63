------------------------------ MODULE EventHistory ------------------------------
(***************************************************************************)
(* What a company remembers of its dispatches: the event log of            *)
(* company-event-log.js, a JSONL file; its index, company-event-index.js,  *)
(* a table that survives the runtime and is filled from the file by the    *)
(* next one; and what runtime.vue makes of the newest rows.                *)
(*                                                                         *)
(* Runtimes of one project, one after the other.  A dispatch that executes *)
(* when its runtime stops goes on, without an index.  Events have the time *)
(* their append began at; the clock is never set back.                     *)
(***************************************************************************)
EXTENDS Naturals, FiniteSets

CONSTANTS
  QueueFiles,     \* task_path: the files in the queues
  MaxCompanies,   \* runtimes, one after the other (bounds the model)
  MaxClock,       \* milliseconds in which something happens (bounds the model)
  Limit           \* ?limit= of the page's request
ASSUME HistoryAssumption == IsFiniteSet(QueueFiles) /\ MaxCompanies \in Nat /\ MaxClock \in Nat /\ Limit \in Nat \ {0}

VARIABLES
  clock,
  at,         \* the time of an event that was stamped
  disk,       \* events in lines of the file that can be parsed
  torn,       \* the file's last line is part of one
  rows,       \* events in state.db
  company,    \* the runtimes so far, and whether the last one is "booting", "on", "off" or "dead"
  since,      \* startedAt
  dispatch,   \* where the dispatch of a file by a runtime is
  gone,       \* files that were removed
  missed      \* history: events since the last rebuild whose row could not be written
historyVars == <<clock, at, disk, torn, rows, company, since, dispatch, gone, missed>>

Dispatches == QueueFiles \X (1..MaxCompanies)
EventAbout(d, kind) == <<d, kind>>
Terminal == {"completed", "failed"}     \* dispatch-completed; dispatch-failed or -error
Events == Dispatches \X ({"started"} \cup Terminal)
TaskPath(e) == e[1][1]
Of(d) == d[2]
HasIndex == company.is \in {"booting", "on"}
\* The event a dispatch is about to write, or is writing.
EventOf(d) == EventAbout(d, dispatch[d].kind)

HistoryInit ==
  /\ clock = 0 /\ at = [e \in Events |-> 0] /\ disk = {} /\ torn = FALSE /\ rows = {}
  /\ company = [number |-> 0, is |-> "off"] /\ since = 0
  /\ dispatch = [d \in Dispatches |-> [at |-> "queued", kind |-> "started"]]
  /\ gone = {} /\ missed = {}

-------------------------------------------------------------------------------
\* CompanyRuntime.start: open() and rebuildFromDisk(); startedAt is set after the pollers run.
Boot ==
  /\ ~HasIndex /\ company.number < MaxCompanies
  /\ company' = [number |-> company.number + 1, is |-> "booting"]
  /\ rows' = rows \cup disk /\ missed' = {}
  /\ UNCHANGED <<clock, at, disk, torn, since, dispatch, gone>>
DeclareStarted ==
  /\ company.is = "booting" /\ company' = [company EXCEPT !.is = "on"] /\ since' = clock
  /\ UNCHANGED <<clock, at, disk, torn, rows, dispatch, gone, missed>>
StopCompany ==
  /\ HasIndex /\ company' = [company EXCEPT !.is = "off"]
  /\ UNCHANGED <<clock, at, disk, torn, rows, since, dispatch, gone, missed>>

\* append(): the stamp, the line, the row.
StampEvent(d, kind) ==
  /\ at' = [at EXCEPT ![EventAbout(d, kind)] = clock]
  /\ dispatch' = [dispatch EXCEPT ![d] = [at |-> "stamped", kind |-> kind]]
BeginDispatch(d) ==
  /\ HasIndex /\ Of(d) = company.number /\ d[1] \notin gone /\ dispatch[d].at = "queued"
  /\ StampEvent(d, "started")
  /\ UNCHANGED <<clock, disk, torn, rows, company, since, gone, missed>>
EndDispatch(d) ==
  /\ dispatch[d] = [at |-> "indexed", kind |-> "started"]
  /\ \E kind \in Terminal : StampEvent(d, kind)
  /\ UNCHANGED <<clock, disk, torn, rows, company, since, gone, missed>>
\* A line that follows part of another is lost with it.
AppendLine(d) ==
  /\ dispatch[d].at = "stamped"
  /\ disk' = (IF torn THEN disk ELSE disk \cup {EventOf(d)}) /\ torn' = FALSE
  /\ dispatch' = [dispatch EXCEPT ![d].at = "landed"]
  /\ UNCHANGED <<clock, at, rows, company, since, gone, missed>>
\* The handle of a runtime that was stopped is closed; what SQLite throws is swallowed.
IndexEvent(d) ==
  /\ dispatch[d].at = "landed" /\ dispatch' = [dispatch EXCEPT ![d].at = "indexed"]
  /\ \/ HasIndex /\ Of(d) = company.number /\ rows' = rows \cup {EventOf(d)} /\ UNCHANGED missed
     \/ missed' = missed \cup {EventOf(d)} /\ UNCHANGED rows
  /\ UNCHANGED <<clock, at, disk, torn, company, since, gone>>
UnlinkFile(d) ==
  /\ dispatch[d] = [at |-> "indexed", kind |-> "completed"]
  /\ gone' = gone \cup {d[1]} /\ d[1] \notin gone
  /\ UNCHANGED <<clock, at, disk, torn, rows, company, since, dispatch, missed>>

\* The server dies; a line it was writing may be written in part.
Unfinished(d) == dispatch[d].at \in {"stamped", "landed"} \/ dispatch[d] = [at |-> "indexed", kind |-> "started"]
CrashCompany ==
  /\ \E d \in Dispatches : Unfinished(d)
  /\ company' = [company EXCEPT !.is = "dead"]
  /\ torn' \in {torn, torn \/ \E d \in Dispatches : dispatch[d].at = "stamped"}
  /\ dispatch' = [d \in Dispatches |-> IF Unfinished(d) THEN [dispatch[d] EXCEPT !.at = "dead"] ELSE dispatch[d]]
  /\ UNCHANGED <<clock, at, disk, rows, since, gone, missed>>
ClockTicks ==
  /\ clock < MaxClock /\ clock' = clock + 1
  /\ UNCHANGED <<at, disk, torn, rows, company, since, dispatch, gone, missed>>

HistoryNext ==
  \/ Boot \/ DeclareStarted \/ StopCompany \/ CrashCompany \/ ClockTicks
  \/ \E d \in Dispatches : BeginDispatch(d) \/ EndDispatch(d) \/ AppendLine(d) \/ IndexEvent(d) \/ UnlinkFile(d)
HistorySpec == HistoryInit /\ [][HistoryNext]_historyVars

-------------------------------------------------------------------------------
\* What the code reads from the rows.
Ended(e) == e[2] \in Terminal
\* A mutant of PendingDispatches: an end counts from the next millisecond on.
PendingDispatchesStrict(es) ==
  {e \in es : ~Ended(e) /\ ~\E f \in es : Ended(f) /\ TaskPath(f) = TaskPath(e) /\ at[f] > at[e]}
PendingDispatches(es) ==
  {e \in es : ~Ended(e) /\ ~\E f \in es : Ended(f) /\ TaskPath(f) = TaskPath(e) /\ at[f] >= at[e]}

\* recent(): what it may return, for of events of one millisecond their ids decide.
Recent(es) ==
  {newest \in SUBSET es :
     /\ Cardinality(newest) = IF Cardinality(es) < Limit THEN Cardinality(es) ELSE Limit
     /\ \A e \in newest, f \in es \ newest : at[e] >= at[f]}
\* runtime.vue: pendingDispatches, where the newest event about a file decides;
\* recentFailures.
PagePending(es) ==
  {TaskPath(e) : e \in {e \in es : ~Ended(e) /\ \A f \in es : TaskPath(f) = TaskPath(e) => at[f] <= at[e]}}
RecentFailures(es) ==
  {e \in es : e[2] = "failed" /\ at[e] >= since}

-------------------------------------------------------------------------------
Places == {"queued", "stamped", "landed", "indexed", "dead"}
HistoryTypeOK ==
  /\ clock \in 0..MaxClock /\ at \in [Events -> 0..MaxClock] /\ since \in 0..MaxClock
  /\ disk \subseteq Events /\ rows \subseteq Events /\ missed \subseteq Events
  /\ torn \in BOOLEAN /\ gone \subseteq QueueFiles
  /\ company \in [number : 0..MaxCompanies, is : {"booting", "on", "off", "dead"}]
  /\ dispatch \in [Dispatches -> [at : Places, kind : {"started"} \cup Terminal]]

\* Two events of a file in one millisecond.
Tied(path) ==
  \E e, f \in rows : TaskPath(e) = path /\ TaskPath(f) = path /\ e # f /\ at[e] = at[f]
\* The index of a runtime that runs has what the file has, but for events whose
\* row is still to be written or could not be.
IndexFollowsLog ==
  HasIndex => \A e \in disk \ rows : e \in missed \/ \E d \in Dispatches : dispatch[d].at = "landed" /\ e = EventOf(d)
\* A file is pending while a dispatch of this runtime executes it, whatever an
\* earlier runtime wrote about it, and no more once that has ended.
PendingIsTrue ==
  LET pending == {TaskPath(e) : e \in PendingDispatches(rows)} IN
  HasIndex => \A d \in Dispatches : Of(d) = company.number /\ dispatch[d].at = "indexed" =>
    /\ Ended(EventOf(d)) => EventOf(d) \in missed \/ d[1] \notin pending
    /\ ~Ended(EventOf(d)) => EventOf(d) \in missed \/ Tied(d[1]) \/ d[1] \in pending
\* The page finds the same files pending as the index, or fewer when the rows are
\* more than it asked for; and takes no failure of an earlier runtime for one of
\* this one's.
PageAgrees ==
  LET pending == {TaskPath(e) : e \in PendingDispatches(rows)} IN
  company.is = "on" => \A recent \in Recent(rows) :
    /\ \A path \in QueueFiles : ~Tied(path) =>
         /\ path \in PagePending(recent) => path \in pending
         /\ Cardinality(recent) < Limit => (path \in pending => path \in PagePending(recent))
    /\ \A e \in RecentFailures(recent) : Of(e[1]) = company.number \/ at[e] = since
HistoryIsTrue == IndexFollowsLog /\ PendingIsTrue /\ PageAgrees
===============================================================================
