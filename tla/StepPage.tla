-------------------------------- MODULE StepPage --------------------------------
(***************************************************************************)
(* The page of a step ([stepId].vue) and the list of its sessions.  Who    *)
(* comes to a step has its sessions loaded, and one of them is opened: the *)
(* one in the URL, the one this browser had open last, the newest, or a    *)
(* new one.  Nuxt mounts a page for each step one comes to; a page that    *)
(* was left keeps its route and goes on with what it has begun, and what   *)
(* it opens then takes the user back.  Requests are served and answered in *)
(* separate actions.  ChatView has what happens within a session.          *)
(***************************************************************************)
EXTENDS Naturals, Sequences

CONSTANTS
  PageSteps,    \* steps
  MaxSessions,  \* bound: sessions ever created
  MaxVisits,    \* bound: pages ever mounted
  MaxClicks     \* bound: clicks and turns that end
ASSUME StepPageAssumption ==
  /\ PageSteps # {} /\ "none" \notin PageSteps
  /\ MaxSessions \in Nat \ {0} /\ MaxVisits \in Nat \ {0} /\ MaxClicks \in Nat

VARIABLES
  kept,    \* server: the sessions of each step, newest first
  born,    \* the step each session was created for
  pages,   \* the pages mounted so far, the last one shown: see Mounted
  stored,  \* localStorage: the last session of each step, or 0
  doings   \* bound and history: clicks; somebody left a busy page; a request failed;
           \* a load crossed a creation or a deletion; a session nobody needed
pageVars == <<kept, born, pages, stored, doings>>

Elements(s) == {s[i] : i \in DOMAIN s}
Without(s, x) ==
  LET rest[n \in 0..Len(s)] ==
        IF n = 0 THEN <<>> ELSE IF s[n] = x THEN rest[n - 1] ELSE Append(rest[n - 1], s[n])
  IN  rest[Len(s)]

\* A page: its route, its list, the load under way (and whether the page wants a session
\* after it), the creation under way, the deletion under way.
Idle == [at |-> "idle", answer |-> <<>>]
Mounted(s, x) == [step |-> s, session |-> x, listed |-> <<>>, load |-> [Idle EXCEPT !.at = "states"],
                  ensure |-> TRUE, post |-> Idle, asked |-> FALSE, removal |-> Idle, target |-> 0]
Shown == Len(pages)
Busy(v) == pages[v].load # Idle \/ pages[v].post # Idle \/ pages[v].removal # Idle

PageInit ==
  /\ kept \in [PageSteps -> {<<>>, <<1>>}]
  /\ \A s, t \in PageSteps : kept[s] # <<>> /\ kept[t] # <<>> => s = t
  /\ born = [x \in 1..MaxSessions |->
               IF x = 1 /\ \E s \in PageSteps : kept[s] # <<>> THEN CHOOSE s \in PageSteps : kept[s] # <<>> ELSE "none"]
  /\ pages = <<Mounted(CHOOSE s \in PageSteps : TRUE, 0)>>
  /\ stored = [s \in PageSteps |-> 0]
  /\ doings = [clicks |-> 0, hasty |-> FALSE, failed |-> FALSE, crossed |-> FALSE, spare |-> FALSE]

\* A mutant: the page that is shown gets it, whatever its step.
ReplaceShown(ps, v, x) == [ps EXCEPT ![Len(ps)].session = x]
\* router.replace by page v: it is shown, or one of its step is, or the user is taken back.
Replace(ps, v, x) ==
  LET last == Len(ps) IN
  IF ps[last].step = ps[v].step THEN [ps EXCEPT ![last].session = x]
  ELSE Append(ps, Mounted(ps[v].step, x))
\* ensureActiveSession of page v, whose state is already that of ps.
Ensure(ps, v) ==
  LET p == ps[v]
      pick == IF stored[p.step] \in Elements(p.listed) THEN stored[p.step] ELSE p.listed[1] IN
  IF p.session # 0 THEN pages' = ps /\ UNCHANGED stored
  ELSE IF p.listed # <<>>
       THEN pages' = Replace(ps, v, pick) /\ stored' = [stored EXCEPT ![p.step] = pick]
       ELSE /\ pages' = [ps EXCEPT ![v].post = IF @ = Idle THEN [Idle EXCEPT !.at = "sent"] ELSE @]
            /\ UNCHANGED stored

-------------------------------------------------------------------------------
\* The user goes to another step; or clicks, on the page that is shown.
Visit(s) ==
  /\ Shown < MaxVisits /\ s # pages[Shown].step
  /\ pages' = Append(pages, Mounted(s, 0))
  /\ doings' = [doings EXCEPT !.hasty = @ \/ Busy(Shown)]
  /\ UNCHANGED <<kept, born, stored>>
Click(crosses) ==
  /\ doings.clicks < MaxClicks
  /\ doings' = [doings EXCEPT !.clicks = @ + 1, !.crossed = @ \/ crosses]
CreateSession ==
  /\ Click(pages[Shown].load # Idle) /\ pages[Shown].post = Idle
  /\ pages' = [pages EXCEPT ![Shown].post.at = "sent", ![Shown].asked = TRUE]
  /\ UNCHANGED <<kept, born, stored>>
SelectSession(x) ==
  /\ Click(FALSE) /\ x \in Elements(pages[Shown].listed)
  /\ pages' = [pages EXCEPT ![Shown].session = x]
  /\ stored' = [stored EXCEPT ![pages[Shown].step] = x]
  /\ UNCHANGED <<kept, born>>
ConfirmDeleteSession(x) ==
  /\ Click(pages[Shown].load # Idle) /\ pages[Shown].removal = Idle /\ x \in Elements(pages[Shown].listed)
  /\ pages' = [pages EXCEPT ![Shown].removal.at = "sent", ![Shown].target = x]
  /\ UNCHANGED <<kept, born, stored>>
\* A turn ends: the list is loaded again, and nothing more.
OnTurnCompleted ==
  /\ Click(Busy(Shown)) /\ pages[Shown].session # 0 /\ pages[Shown].load = Idle
  /\ pages' = [pages EXCEPT ![Shown].load.at = "sent", ![Shown].ensure = FALSE]
  /\ UNCHANGED <<kept, born, stored>>

-------------------------------------------------------------------------------
\* The states of the steps have come; the list is asked for.
LoadSessions(v) ==
  /\ pages[v].load.at = "states" /\ pages' = [pages EXCEPT ![v].load.at = "sent"]
  /\ UNCHANGED <<kept, born, stored, doings>>
ListSessions(v) ==
  /\ pages[v].load.at = "sent"
  /\ pages' = [pages EXCEPT ![v].load = [at |-> "served", answer |-> kept[pages[v].step]]]
  /\ UNCHANGED <<kept, born, stored, doings>>
ShowSessions(v) ==
  LET p == pages[v]
      ps == [pages EXCEPT ![v].load = Idle, ![v].listed = p.load.answer] IN
  /\ p.load.at = "served" /\ Len(Replace(ps, v, 0)) <= MaxVisits
  /\ IF p.ensure THEN Ensure(ps, v) ELSE pages' = ps /\ UNCHANGED stored
  /\ UNCHANGED <<kept, born, doings>>

ServeCreate(v) ==
  LET p == pages[v]
      free == {x \in 1..MaxSessions : born[x] = "none"} IN
  /\ p.post.at = "sent" /\ free # {}
  /\ LET x == CHOOSE y \in free : \A z \in free : y <= z IN
     /\ kept' = [kept EXCEPT ![p.step] = <<x>> \o @] /\ born' = [born EXCEPT ![x] = p.step]
     /\ pages' = [pages EXCEPT ![v].post = [at |-> "served", answer |-> <<x>>]]
  /\ doings' = [doings EXCEPT !.spare = @ \/ (~p.asked /\ kept[p.step] # <<>>)]
  /\ UNCHANGED stored
ShowCreated(v) ==
  LET p == pages[v]
      ps == [pages EXCEPT ![v].post = Idle, ![v].asked = FALSE, ![v].listed = p.post.answer \o @] IN
  /\ p.post.at = "served" /\ Len(Replace(ps, v, 0)) <= MaxVisits
  /\ pages' = Replace(ps, v, p.post.answer[1])
  /\ stored' = [stored EXCEPT ![p.step] = p.post.answer[1]]
  /\ UNCHANGED <<kept, born, doings>>

ServeDelete(v) ==
  LET p == pages[v] IN
  /\ p.removal.at = "sent"
  /\ kept' = [kept EXCEPT ![p.step] = Without(@, p.target)]
  /\ pages' = [pages EXCEPT ![v].removal.at = IF p.target \in Elements(kept[p.step]) THEN "served" ELSE "refused"]
  /\ UNCHANGED <<born, stored, doings>>
ShowDeleted(v) ==
  LET p == pages[v]
      ps == [pages EXCEPT ![v].removal = Idle, ![v].target = 0, ![v].listed = Without(@, p.target)] IN
  /\ p.removal.at = "served" /\ Len(Replace(ps, v, 0)) <= MaxVisits
  /\ IF p.session # p.target THEN pages' = ps /\ UNCHANGED stored
     ELSE LET qs == Replace(ps, v, 0) IN Ensure([qs EXCEPT ![v].session = 0], v)
  /\ UNCHANGED <<kept, born, doings>>
\* A request that fails, or was refused, changes nothing on the page; a list that was
\* not loaded opens no session.
ListFails(v) ==
  /\ pages[v].load.at \in {"sent", "states"} /\ pages' = [pages EXCEPT ![v].load = Idle]
  /\ doings' = [doings EXCEPT !.failed = TRUE] /\ UNCHANGED <<kept, born, stored>>
CreateFails(v) ==
  /\ pages[v].post.at = "sent" /\ pages' = [pages EXCEPT ![v].post = Idle, ![v].asked = FALSE]
  /\ doings' = [doings EXCEPT !.failed = TRUE] /\ UNCHANGED <<kept, born, stored>>
DeleteFails(v) ==
  /\ pages[v].removal.at \in {"sent", "refused"}
  /\ pages' = [pages EXCEPT ![v].removal = Idle, ![v].target = 0]
  /\ doings' = [doings EXCEPT !.failed = @ \/ pages[v].removal.at = "sent"] /\ UNCHANGED <<kept, born, stored>>

PageNext ==
  \/ \E s \in PageSteps : Visit(s)
  \/ CreateSession \/ OnTurnCompleted
  \/ \E x \in 1..MaxSessions : SelectSession(x) \/ ConfirmDeleteSession(x)
  \/ \E v \in DOMAIN pages :
       \/ LoadSessions(v) \/ ListSessions(v) \/ ShowSessions(v) \/ ServeCreate(v) \/ ShowCreated(v)
       \/ ServeDelete(v) \/ ShowDeleted(v) \/ ListFails(v) \/ CreateFails(v) \/ DeleteFails(v)
PageSpec == PageInit /\ [][PageNext]_pageVars

-------------------------------------------------------------------------------
Ids == 1..MaxSessions
PageRecord ==
  [step : PageSteps, session : {0} \cup Ids, listed : Seq(Ids), ensure : BOOLEAN, asked : BOOLEAN, target : {0} \cup Ids,
   load : [at : {"idle", "states", "sent", "served"}, answer : Seq(Ids)],
   post : [at : {"idle", "sent", "served"}, answer : Seq(Ids)],
   removal : [at : {"idle", "sent", "served", "refused"}, answer : {<<>>}]]
PageTypeOK ==
  /\ kept \in [PageSteps -> Seq(Ids)] /\ born \in [Ids -> PageSteps \cup {"none"}]
  /\ pages \in Seq(PageRecord) /\ Shown \in 1..MaxVisits
  /\ stored \in [PageSteps -> {0} \cup Ids]
  /\ doings \in [clicks : 0..MaxClicks, hasty : BOOLEAN, failed : BOOLEAN, crossed : BOOLEAN, spare : BOOLEAN]

\* Whatever the user does and however answers overtake each other: no page names, lists
\* or remembers a session of another step.
SessionsStayWithSteps ==
  /\ \A v \in DOMAIN pages :
       \A x \in ({pages[v].session} \ {0}) \cup Elements(pages[v].listed) : born[x] = pages[v].step
  /\ \A s \in PageSteps : stored[s] # 0 => born[stored[s]] = s
\* Who waits on a page until it is done, and meets no failure and no load that crossed a
\* creation or a deletion (a new session may then be listed twice, or not), sees what the
\* server has, in its order, with a session of it open; and no session was created but on
\* request or for a step without one.
StepHasItsSession ==
  ~doings.hasty /\ ~doings.failed /\ ~doings.crossed =>
    /\ ~doings.spare
    /\ ~Busy(Shown) =>
         /\ pages[Shown].listed = kept[pages[Shown].step]
         /\ pages[Shown].session \in Elements(kept[pages[Shown].step])
         /\ stored[pages[Shown].step] = pages[Shown].session
\* The page of a step has its sessions, all of them, and one of them open.
SessionsAreShown == SessionsStayWithSteps /\ StepHasItsSession
===============================================================================
