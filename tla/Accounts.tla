------------------------------- MODULE Accounts -------------------------------
(***************************************************************************)
(* Accounts of the platform: server/shared/middleware/auth.ts, which every *)
(* request goes through, and what platform admins do to users and settings *)
(* (server/admin/api/admin, platform-admin-auth.ts, platform-settings.ts). *)
(*                                                                         *)
(* Visits are the requests in the order in which they come in.  A person is*)
(* an email address, which the proxy in front of the server vouches for.   *)
(* Each statement of the database is an action.  A user's id dies with the *)
(* row: the person's next visit may make a new row, with a new id.         *)
(***************************************************************************)
EXTENDS Naturals, FiniteSets

CONSTANTS
  People,
  EnvAdmins,   \* SPECIFYR_PLATFORM_ADMIN_EMAILS
  InDomain,    \* people of a domain that registration.allowed_domains lists
  NumVisits
ASSUME AccountAssumption ==
  EnvAdmins \subseteq People /\ EnvAdmins # {} /\ InDomain \subseteq People /\ NumVisits \in Nat
Visits == 1..NumVisits

VARIABLES
  user,      \* users: a row, or NoUser
  policy,    \* registration.policy
  adminList, \* platform.admin_emails
  visit,     \* the visits: [who, invite, at, admin, id, on]
  ownsOrg,   \* people some organisation has as its owner
  entitled,  \* history: visits while which the person, in this visit or another, was an admin
  welcome,   \* history: visits during which the person was not blocked
  ambushed   \* history: has a visit blocked or deleted someone after its own user was blocked
accountVars == <<user, policy, adminList, visit, ownsOrg, entitled, welcome, ambushed>>

NoUser == [blocked |-> FALSE, admin |-> FALSE, exists |-> FALSE]
UserRows == [blocked : BOOLEAN, admin : BOOLEAN, exists : {TRUE}]
Policies == {"open", "domain", "closed"}
Known == {p \in People : user[p].exists}
Who(v) == visit[v].who
In(v, place) == visit[v].at = place
InFlight(v) == visit[v].at \notin {"idle", "over"}
Ahead(v, place) == visit' = [visit EXCEPT ![v].at = place]

\* What the histories gain by a step.
Open == {v \in Visits : visit'[v].at \notin {"idle", "over"}}
Watch ==
  LET listed == {v \in Open : visit'[v].who \in EnvAdmins \cup adminList'}
      granted == (entitled \cap Open) \cup listed IN
  /\ entitled' = entitled \cup {v \in Open : \E w \in granted : visit'[w].who = visit'[v].who}
  /\ welcome' = welcome \cup {v \in Open : ~user'[visit'[v].who].blocked}
Keep == Watch /\ UNCHANGED ambushed

\* The admins of the environment have signed in once; who else is there, varies.
AccountInit ==
  /\ user \in [People -> UserRows \cup {NoUser}]
  /\ \A p \in EnvAdmins : user[p] = [exists |-> TRUE, blocked |-> FALSE, admin |-> TRUE]
  /\ policy = "open" /\ adminList = {p \in People \ EnvAdmins : user[p].admin}
  /\ visit = [v \in Visits |-> [who |-> CHOOSE p \in People : TRUE, invite |-> FALSE, at |-> "idle",
                                admin |-> FALSE, id |-> "none", on |-> CHOOSE p \in People : TRUE]]
  /\ ownsOrg = {} /\ entitled = {} /\ welcome = {} /\ ambushed = FALSE

-------------------------------------------------------------------------------
\* The middleware.  It reads the list of admins first.
Arrive(v, p, invite) ==
  /\ In(v, "idle") /\ \A w \in 1..(v - 1) : ~In(w, "idle")
  /\ visit' = [visit EXCEPT ![v] = [@ EXCEPT !.who = p, !.invite = invite, !.at = "listed",
                                             !.admin = p \in EnvAdmins \cup adminList]]
  /\ UNCHANGED <<user, policy, adminList, ownsOrg>> /\ Keep

\* A mutant of FindUser: admins are let through.
FindUserLenient(v) ==
  LET row == user[Who(v)] IN
  /\ In(v, "listed")
  /\ Ahead(v, IF row.blocked /\ ~visit[v].admin THEN "over"
              ELSE IF row.exists \/ visit[v].admin \/ visit[v].invite THEN "upserting" ELSE "gated")
  /\ UNCHANGED <<user, policy, adminList, ownsOrg>> /\ Keep

\* Blocked users end here; whoever is new, no admin and not invited meets the policy.
FindUser(v) ==
  LET row == user[Who(v)] IN
  /\ In(v, "listed")
  /\ Ahead(v, IF row.blocked THEN "over"
              ELSE IF row.exists \/ visit[v].admin \/ visit[v].invite THEN "upserting" ELSE "gated")
  /\ UNCHANGED <<user, policy, adminList, ownsOrg>> /\ Keep
Gate(v) ==
  /\ In(v, "gated")
  /\ Ahead(v, IF policy = "open" \/ (policy = "domain" /\ Who(v) \in InDomain) THEN "upserting" ELSE "over")
  /\ UNCHANGED <<user, policy, adminList, ownsOrg>> /\ Keep

\* A mutant of UpsertUser: a row that is there is left as it is.
UpsertUserOnce(v) ==
  /\ In(v, "upserting")
  /\ user' = [user EXCEPT ![Who(v)] =
       IF @.exists THEN @ ELSE [exists |-> TRUE, blocked |-> FALSE, admin |-> visit[v].admin]]
  /\ visit' = [visit EXCEPT ![v].at = "in", ![v].id = "held"]
  /\ UNCHANGED <<policy, adminList, ownsOrg>> /\ Keep

\* INSERT ... ON CONFLICT: the flag is what this visit read, a block stays.
UpsertUser(v) ==
  /\ In(v, "upserting")
  /\ user' = [user EXCEPT ![Who(v)] =
       [exists |-> TRUE, blocked |-> @.blocked, admin |-> visit[v].admin]]
  /\ visit' = [visit EXCEPT ![v].at = "in", ![v].id = "held"]
  /\ UNCHANGED <<policy, adminList, ownsOrg>> /\ Keep

-------------------------------------------------------------------------------
\* The handlers.  createOrgWithAdmin needs the user's row; others are no matter here.
CreateOrg(v) ==
  /\ In(v, "in") /\ Ahead(v, "over")
  /\ ownsOrg' = IF visit[v].id = "held" THEN ownsOrg \cup {Who(v)} ELSE ownsOrg
  /\ UNCHANGED <<user, policy, adminList>> /\ Keep
\* requirePlatformAdmin reads the flag of the row with the visit's id.
RequireAdmin(v) ==
  /\ In(v, "in")
  /\ Ahead(v, IF visit[v].id = "held" /\ user[Who(v)].admin THEN "admin" ELSE "over")
  /\ UNCHANGED <<user, policy, adminList, ownsOrg>> /\ Keep

Ambush(v) == ambushed' = (ambushed \/ visit[v].id = "gone" \/ user[Who(v)].blocked)
Sees(p) == user[p].exists
\* A mutant of BlockUser: one's own row is no exception.
BlockUserAny(v, p, blocked) ==
  /\ In(v, "admin") /\ Sees(p) /\ Ahead(v, "over")
  /\ user' = [user EXCEPT ![p].blocked = blocked]
  /\ UNCHANGED <<policy, adminList, ownsOrg>> /\ Watch /\ Ambush(v)

\* users/[id].patch.ts, of another user.
BlockUser(v, p, blocked) ==
  /\ In(v, "admin") /\ p # Who(v) /\ Sees(p) /\ Ahead(v, "over")
  /\ user' = [user EXCEPT ![p].blocked = blocked]
  /\ UNCHANGED <<policy, adminList, ownsOrg>> /\ Watch /\ Ambush(v)
\* users/[id].delete.ts counts the organisations of another user, and deletes the
\* row, which the foreign key of an organisation made meanwhile forbids; who else
\* is about to delete it finds no such id.
CountOrgs(v, p) ==
  /\ In(v, "admin") /\ p # Who(v) /\ Sees(p)
  /\ visit' = [visit EXCEPT ![v].at = IF p \in ownsOrg THEN "over" ELSE "deleting", ![v].on = p]
  /\ UNCHANGED <<user, policy, adminList, ownsOrg>> /\ Keep
DeleteUser(v) ==
  LET p == visit[v].on IN
  /\ In(v, "deleting")
  /\ IF p \in ownsOrg THEN Ahead(v, "over") /\ UNCHANGED user
     ELSE /\ user' = [user EXCEPT ![p] = NoUser]
          /\ visit' = [w \in Visits |->
               IF w = v \/ (In(w, "deleting") /\ visit[w].on = p) THEN [visit[w] EXCEPT !.at = "over"]
               ELSE IF Who(w) = p /\ visit[w].id = "held" THEN [visit[w] EXCEPT !.id = "gone"] ELSE visit[w]]
  /\ UNCHANGED <<policy, adminList, ownsOrg>> /\ Watch /\ Ambush(v)
\* settings.patch.ts writes one setting after the other.
SetPolicy(v, new) ==
  /\ In(v, "admin") /\ Ahead(v, "patching") /\ policy' = new
  /\ UNCHANGED <<user, adminList, ownsOrg>> /\ Keep
SetAdmins(v, new) ==
  /\ visit[v].at \in {"admin", "patching"} /\ Ahead(v, "over") /\ adminList' = new
  /\ UNCHANGED <<user, policy, ownsOrg>> /\ Keep

VisitStep(v) ==
  \/ \E p \in People, invite \in BOOLEAN : Arrive(v, p, invite)
  \/ FindUser(v) \/ Gate(v) \/ UpsertUser(v) \/ CreateOrg(v) \/ RequireAdmin(v)
  \/ \E p \in People : CountOrgs(v, p) \/ \E b \in BOOLEAN : BlockUser(v, p, b)
  \/ DeleteUser(v)
  \/ \E new \in Policies : SetPolicy(v, new)
  \/ \E new \in SUBSET (People \ EnvAdmins) : SetAdmins(v, new)
AccountNext == \E v \in Visits : VisitStep(v)
AccountSpec == AccountInit /\ [][AccountNext]_accountVars

-------------------------------------------------------------------------------
AccountTypeOK ==
  /\ user \in [People -> UserRows \cup {NoUser}] /\ policy \in Policies
  /\ adminList \subseteq People /\ ownsOrg \subseteq People
  /\ visit \in [Visits -> [who : People, invite : BOOLEAN, admin : BOOLEAN, on : People,
                           id : {"none", "held", "gone"},
                           at : {"idle", "listed", "gated", "upserting", "in", "admin",
                                 "patching", "deleting", "over"}]]
  /\ entitled \subseteq Visits /\ welcome \subseteq Visits /\ ambushed \in BOOLEAN

\* A visit gets past the middleware only if its user was not blocked all along,
\* and acts as an admin only if the lists had its person as one during that
\* visit or another of the same person that it overlapped, which may have
\* written its older answer last.
AdmittedOnly ==
  \A v \in Visits : /\ visit[v].at \in {"in", "admin"} => v \in welcome
                    /\ In(v, "admin") => v \in entitled

\* Admins block and delete each other; as long as none of them does so while
\* being blocked or deleted, a user who can sign in is left, and an owner of an
\* organisation is always there.
SomeoneIsLeft ==
  /\ ~ambushed => \E p \in Known : ~user[p].blocked
  /\ ownsOrg \subseteq Known

\* Nobody gets in who should not, and not everybody is kept out.
AccountsAreKept == AdmittedOnly /\ SomeoneIsLeft
===============================================================================
