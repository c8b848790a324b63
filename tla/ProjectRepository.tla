--------------------------- MODULE ProjectRepository ---------------------------
(***************************************************************************)
(* The git remote of one project: its configuration in meta.json and its   *)
(* token among the secrets (repository.put.ts, repository.delete.ts,       *)
(* project-repository.ts), and what pushes and pulls through it            *)
(* (repository/push.post.ts, repository/pull.post.ts, git-remote.ts,       *)
(* repository-autosync.ts).                                                *)
(*                                                                         *)
(* Writes of meta.json go through one queue, and those of the secrets      *)
(* through another: each is one action.  The git commands of a request are *)
(* not kept apart from another's.  A commit is the set of the edits it     *)
(* adds; "f" is a commit that somebody else pushes to a remote.            *)
(***************************************************************************)
EXTENDS Naturals, FiniteSets

CONSTANTS
  Remotes, NoRemote,
  OpenTo,       \* those that somebody else pushes to
  Connects,     \* PUT requests
  ConnectTo,    \* the remote of each
  WithToken,    \* those that bring a token
  Disconnects,  \* DELETE requests
  Pushes,       \* pushes by a user or by the timer
  Pulls,
  MaxGitCalls,    \* of these, how many are made, and
  Changes         \* edits of files in the project (both bound the model)
ASSUME RepositoryAssumption ==
  /\ ConnectTo \in [Connects -> Remotes] /\ WithToken \subseteq Connects /\ OpenTo \subseteq Remotes
  /\ NoRemote \notin Remotes /\ "f" \notin Changes /\ MaxGitCalls \in Nat
  /\ Connects \cap (Disconnects \cup Pushes \cup Pulls) = {} /\ Disconnects \cap (Pushes \cup Pulls) = {}
  /\ Pushes \cap Pulls = {}

VARIABLES
  repo,       \* meta.json: the remote, or NoRemote
  stamped,    \* meta.json: does it have a lastPushedAt
  hasToken,   \* the secrets: is there a token
  origin,     \* .git/config
  tree,       \* edits not committed
  index,      \* those of them that are staged
  commits,    \* edits that are committed, and "f" once it is pulled
  remote,     \* what each remote has
  call,       \* the requests: [at, remote, before]
  answer,     \* what a push said: "none", "pushed", "clean", "failed"
  fated,      \* history: edits a push had committed and then failed to deliver, or lost in a crash
  sent,       \* history: remotes that got a push while they were configured
  moved       \* history: was the configuration changed while a push, a pull or another change ran
repositoryVars == <<repo, stamped, hasToken, origin, tree, index, commits, remote, call, answer, fated, sent, moved>>
gitVars == <<origin, tree, index, commits, remote>>
configVars == <<repo, stamped, hasToken>>

Calls == Connects \cup Disconnects \cup Pushes \cup Pulls
CallAt(c, place) == call[c].at = place
Running(c) == call[c].at \notin {"idle", "over"}
CallTo(c, place) == call' = [call EXCEPT ![c].at = place]
Others(c) == \E d \in Calls \ {c} : Running(d)

RepositoryInit ==
  /\ repo = NoRemote /\ stamped = FALSE /\ hasToken = FALSE /\ origin = NoRemote
  /\ tree = {} /\ index = {} /\ commits = {} /\ remote = [r \in Remotes |-> {}]
  /\ call = [c \in Calls |-> [at |-> "idle", remote |-> NoRemote, before |-> {}]]
  /\ answer = [p \in Pushes |-> "none"] /\ fated = {} /\ sent = {} /\ moved = FALSE

-------------------------------------------------------------------------------
\* Somebody works in the project, or on a remote.
Edit(e) ==
  /\ e \notin tree \cup commits /\ tree' = tree \cup {e}
  /\ UNCHANGED <<configVars, origin, index, commits, remote, call, answer, fated, sent, moved>>
PushElsewhere(r) ==
  /\ "f" \notin remote[r] /\ remote' = [remote EXCEPT ![r] = @ \cup {"f"}]
  /\ UNCHANGED <<configVars, origin, tree, index, commits, call, answer, fated, sent, moved>>

\* PUT: the token that is needed, the token that is stored, the configuration.
CheckToken(c) ==
  /\ CallAt(c, "idle")
  /\ CallTo(c, IF c \in WithToken THEN "token" ELSE IF hasToken THEN "config" ELSE "over")
  /\ moved' = (moved \/ Others(c))
  /\ UNCHANGED <<configVars, gitVars, answer, fated, sent>>
\* A mutant of StoreToken: a failure to store it is passed over.
StoreTokenOrNot(c) ==
  /\ CallAt(c, "token") /\ CallTo(c, "config")
  /\ hasToken' \in {hasToken, TRUE}
  /\ UNCHANGED <<repo, stamped, gitVars, answer, fated, sent, moved>>

\* A failure to store the token ends the request.
StoreToken(c) ==
  /\ CallAt(c, "token")
  /\ \/ hasToken' = TRUE /\ CallTo(c, "config")
     \/ CallTo(c, "over") /\ UNCHANGED hasToken
  /\ UNCHANGED <<repo, stamped, gitVars, answer, fated, sent, moved>>
\* setProjectRepository, which drops lastPushedAt.
StoreConfig(c) ==
  /\ CallAt(c, "config") /\ CallTo(c, "over")
  /\ repo' = ConnectTo[c] /\ stamped' = FALSE
  /\ sent' = {} /\ moved' = (moved \/ Others(c))
  /\ UNCHANGED <<hasToken, gitVars, answer, fated>>

\* DELETE: the configuration, then the token.
ClearConfig(d) ==
  /\ CallAt(d, "idle") /\ CallTo(d, "token") /\ repo' = NoRemote /\ stamped' = FALSE
  /\ sent' = {} /\ moved' = (moved \/ Others(d))
  /\ UNCHANGED <<hasToken, gitVars, answer, fated>>
ClearToken(d) ==
  /\ CallAt(d, "token") /\ CallTo(d, "over") /\ hasToken' = FALSE
  /\ UNCHANGED <<repo, stamped, gitVars, answer, fated, sent, moved>>

-------------------------------------------------------------------------------
Says(p, what) == answer' = IF p \in Pushes THEN [answer EXCEPT ![p] = what] ELSE answer
\* A request that failed is of no further interest.
Forgotten == [at |-> "over", remote |-> NoRemote, before |-> {}]
Fail(c) == call' = [call EXCEPT ![c] = Forgotten] /\ Says(c, "failed")
\* A push and a pull read the configuration, then the token, and set origin.
ReadConfig(c) ==
  /\ CallAt(c, "idle") /\ Cardinality({d \in Pushes \cup Pulls : ~CallAt(d, "idle")}) < MaxGitCalls
  /\ IF repo = NoRemote THEN Fail(c)
     ELSE /\ call' = [call EXCEPT ![c] = [at |-> "reading", remote |-> repo,
                                           before |-> IF c \in Pushes THEN tree \cup commits ELSE {}]]
          /\ UNCHANGED answer
  /\ UNCHANGED <<configVars, gitVars, fated, sent, moved>>
ReadToken(c) ==
  /\ CallAt(c, "reading")
  /\ IF hasToken THEN CallTo(c, "remote") /\ UNCHANGED answer ELSE Fail(c)
  /\ UNCHANGED <<configVars, gitVars, fated, sent, moved>>
\* A mutant of ConfigureRemote: an origin that is there is left as it is.
ConfigureRemoteOnce(c) ==
  /\ CallAt(c, "remote")
  /\ origin' = IF origin = NoRemote THEN call[c].remote ELSE origin
  /\ CallTo(c, "status") /\ UNCHANGED answer
  /\ UNCHANGED <<configVars, tree, index, commits, remote, fated, sent, moved>>

ConfigureRemote(c) ==
  /\ CallAt(c, "remote")
  /\ \/ origin' = call[c].remote /\ CallTo(c, "status") /\ UNCHANGED answer
     \/ Fail(c) /\ UNCHANGED origin
  /\ UNCHANGED <<configVars, tree, index, commits, remote, fated, sent, moved>>

\* commitAndPush: a clean tree means that there is nothing to push.
PushStatus(p) ==
  /\ CallAt(p, "status") /\ p \in Pushes
  /\ IF tree = {} THEN CallTo(p, "over") /\ Says(p, "clean") ELSE CallTo(p, "add") /\ UNCHANGED answer
  /\ UNCHANGED <<configVars, gitVars, fated, sent, moved>>
Add(p) ==
  /\ CallAt(p, "add")
  /\ \/ index' = tree /\ CallTo(p, "commit") /\ UNCHANGED answer
     \/ Others(p) /\ Fail(p) /\ UNCHANGED index   \* index.lock
  /\ UNCHANGED <<configVars, origin, tree, commits, remote, fated, sent, moved>>
\* Nothing is staged if another push has committed it; the lock may be held.
Commit(p) ==
  /\ CallAt(p, "commit")
  /\ \/ /\ index # {} /\ commits' = commits \cup index /\ tree' = tree \ index /\ index' = {}
        /\ CallTo(p, "push") /\ UNCHANGED answer
     \/ (index = {} \/ Others(p)) /\ Fail(p) /\ UNCHANGED <<tree, index, commits>>
  /\ UNCHANGED <<configVars, origin, remote, fated, sent, moved>>
\* A mutant of GitPush: whether it succeeded is not looked at.
GitPushUnchecked(p) ==
  /\ CallAt(p, "push") /\ CallTo(p, "stamp") /\ Says(p, "pushed")
  /\ \/ remote[origin] \subseteq commits /\ remote' = [remote EXCEPT ![origin] = commits]
     \/ UNCHANGED remote
  /\ sent' = IF origin = repo THEN sent \cup {origin} ELSE sent
  /\ UNCHANGED <<configVars, origin, tree, index, commits, fated, moved>>

\* The remote refuses what does not contain what it has; or it cannot be reached.
GitPush(p) ==
  /\ CallAt(p, "push")
  /\ \/ /\ remote[origin] \subseteq commits /\ remote' = [remote EXCEPT ![origin] = commits]
        /\ CallTo(p, "stamp") /\ Says(p, "pushed")
        /\ sent' = IF origin = repo THEN sent \cup {origin} ELSE sent
        /\ UNCHANGED fated
     \/ /\ Fail(p) /\ fated' = fated \cup commits /\ UNCHANGED <<remote, sent>>
  /\ UNCHANGED <<configVars, origin, tree, index, commits, moved>>
\* setLastPushedAt, of whatever is configured by now.
Stamp(p) ==
  /\ CallAt(p, "stamp") /\ CallTo(p, "over")
  /\ stamped' = IF repo # NoRemote THEN TRUE ELSE stamped
  /\ UNCHANGED <<repo, hasToken, gitVars, answer, fated, sent, moved>>
\* pullFromRemote: a clean tree, and only a fast-forward.
Pull(l) ==
  /\ CallAt(l, "status") /\ l \in Pulls /\ call' = [call EXCEPT ![l] = Forgotten]
  /\ \/ tree = {} /\ commits \subseteq remote[origin] /\ commits' = remote[origin]
     \/ UNCHANGED commits
  /\ UNCHANGED <<configVars, origin, tree, index, remote, answer, fated, sent, moved>>

\* The server dies.  What was committed and not pushed stays so.
CrashRepository ==
  /\ \E c \in Calls : Running(c)
  /\ call' = [c \in Calls |-> IF Running(c) THEN Forgotten ELSE call[c]]
  /\ answer' = [p \in Pushes |-> IF Running(p) THEN "failed" ELSE answer[p]]
  /\ fated' = IF \E p \in Pushes : CallAt(p, "push") THEN fated \cup commits ELSE fated
  /\ moved' = (moved \/ \E d \in Disconnects : Running(d))
  /\ UNCHANGED <<configVars, gitVars, sent>>

RepositoryNext ==
  \/ \E e \in Changes : Edit(e)
  \/ \E r \in OpenTo : PushElsewhere(r)
  \/ \E c \in Connects : CheckToken(c) \/ StoreToken(c) \/ StoreConfig(c)
  \/ \E d \in Disconnects : ClearConfig(d) \/ ClearToken(d)
  \/ \E c \in Pushes \cup Pulls : ReadConfig(c) \/ ReadToken(c) \/ ConfigureRemote(c)
  \/ \E p \in Pushes : PushStatus(p) \/ Add(p) \/ Commit(p) \/ GitPush(p) \/ Stamp(p)
  \/ \E l \in Pulls : Pull(l)
  \/ CrashRepository
RepositorySpec == RepositoryInit /\ [][RepositoryNext]_repositoryVars

-------------------------------------------------------------------------------
RepositoryTypeOK ==
  /\ repo \in Remotes \cup {NoRemote} /\ origin \in Remotes \cup {NoRemote}
  /\ stamped \in BOOLEAN /\ hasToken \in BOOLEAN /\ moved \in BOOLEAN
  /\ tree \subseteq Changes /\ index \subseteq Changes /\ commits \subseteq Changes \cup {"f"}
  /\ remote \in [Remotes -> SUBSET (Changes \cup {"f"})]
  /\ call \in [Calls -> [at : {"idle", "token", "config", "reading", "remote", "status", "add", "commit",
                               "push", "stamp", "over"},
                         remote : Remotes \cup {NoRemote}, before : SUBSET (Changes \cup {"f"})]]
  /\ answer \in [Pushes -> {"none", "pushed", "clean", "failed"}]
  /\ fated \subseteq Changes \cup {"f"} /\ sent \subseteq Remotes

\* While nothing is under way, a configured remote has a token, also after a
\* failure to store one and after a crash; and the page shows a lastPushedAt only
\* of the remote that got the push.  Both hold as long as nobody changes the
\* configuration while a push, a pull or another change runs: a disconnection
\* that overlaps a PUT may take the token away after the configuration is there.
ConnectionIsWhole ==
  ~moved => /\ repo # NoRemote /\ (\A c \in Calls : ~Running(c)) => hasToken
            /\ stamped => repo \in sent

\* A push that says "pushed" has delivered every edit made before it began; one
\* that says that there is nothing to push leaves nothing behind but edits which
\* a push had committed and could not deliver, which is bound to deliver now, or
\* which went to the remote that was configured before.
PushesAreComplete ==
  \A p \in Pushes :
    /\ answer[p] = "pushed" => \E r \in Remotes : call[p].before \subseteq remote[r]
    /\ answer[p] = "clean" =>
         \A e \in call[p].before \ remote[call[p].remote] :
           \/ e \in fated \/ \E q \in Pushes : call[q].at \in {"push", "stamp"}
           \/ \E r \in Remotes : e \in remote[r]

\* The configuration, its token and the remote keep step.
RepositoryKeepsStep == ConnectionIsWhole /\ PushesAreComplete
===============================================================================
