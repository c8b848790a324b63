------------------------------ MODULE OrgMembers ------------------------------
(***************************************************************************)
(* The members of one organisation: server/shared/utils/org-store.ts and   *)
(* the handlers that call it.                                              *)
(*                                                                         *)
(* The database runs READ COMMITTED and the transactions take no locks but *)
(* those of their writes.  A read is an action; the writes of a transaction*)
(* are one action with its commit, for nobody sees them earlier and whoever*)
(* writes the same rows waits.  Inviting, which only adds an invitation, is*)
(* in the initial state.  No handler calls revokeInvite.                   *)
(***************************************************************************)
EXTENDS Naturals, FiniteSets

CONSTANTS
  Users, Creator,   \* users, and the one who created the organisation
  OrgCalls,         \* requests to the handlers
  Invites,          \* invitations that were sent
  InvitedRole       \* the role each of them offers

ASSUME OrgAssumption == Creator \in Users /\ InvitedRole \in [Invites -> {"admin", "member"}]

VARIABLES
  orgOwner,     \* orgs.owner_user_id
  membership,   \* org_memberships: each user's role, or "none"
  invitation,   \* org_invites: "open", "accepted" or "expired"
  call,         \* the requests: [op, who, at, owner, invite]
  lapse         \* history: how the owner may have lost the admin role
orgVars == <<orgOwner, membership, invitation, call, lapse>>

\* What a request does to the user `who`.
Ops == {"promote", "demote", "remove", "transfer", "accept"}
NoCall == [op |-> "none", who |-> Creator, at |-> "idle", owner |-> Creator, invite |-> "none"]
Admins == {u \in Users : membership[u] = "admin"}
Running(c) == call[c].at \notin {"idle", "over"}
To(c, place) == call' = [call EXCEPT ![c].at = place]

\* createOrgWithAdmin, and any members who have joined since.
OrgInit ==
  /\ orgOwner = Creator
  /\ membership \in {m \in [Users -> {"none", "member", "admin"}] : m[Creator] = "admin"}
  /\ invitation = [i \in Invites |-> "open"]
  /\ call = [c \in OrgCalls |-> NoCall]
  /\ lapse = {}

\* The handler has found its caller to be an admin, or the owner.
Ask(c, op, who) ==
  /\ call[c].at = "idle"
  /\ IF op = "transfer" THEN membership[orgOwner] # "none" ELSE Admins # {}
  /\ call' = [call EXCEPT ![c] = [NoCall EXCEPT !.op = op, !.who = who, !.at = "asked"]]
  /\ UNCHANGED <<orgOwner, membership, invitation, lapse>>

ReadOrg(c) ==
  /\ call[c].at = "asked"
  /\ call' = [call EXCEPT ![c].owner = orgOwner,
                ![c].at = IF call[c].op = "transfer" /\ call[c].who = orgOwner THEN "over" ELSE "org"]
  /\ UNCHANGED <<orgOwner, membership, invitation, lapse>>

\* A mutant of ReadMember: only the last admin is protected.
ReadMemberOnly(c) ==
  /\ call[c].at = "org"
  /\ LET role == membership[call[c].who] IN
       To(c, CASE role = "none" -> "over"
               [] role = "admin" /\ call[c].op \in {"demote", "remove"} -> "counting"
               [] OTHER -> "writing")
  /\ UNCHANGED <<orgOwner, membership, invitation, lapse>>

\* not_member; owner_immutable; an admin who goes makes it count the others.
ReadMember(c) ==
  /\ call[c].at = "org"
  /\ LET role == membership[call[c].who]
         lowers == call[c].op \in {"demote", "remove"} IN
       To(c, CASE role = "none" -> "over"
               [] role # "none" /\ lowers /\ call[c].owner = call[c].who -> "over"
               [] role = "admin" /\ lowers /\ call[c].owner # call[c].who -> "counting"
               [] OTHER -> "writing")
  /\ UNCHANGED <<orgOwner, membership, invitation, lapse>>

CountAdmins(c) ==
  /\ call[c].at = "counting"
  /\ To(c, IF Cardinality(Admins) <= 1 THEN "over" ELSE "writing")
  /\ UNCHANGED <<orgOwner, membership, invitation, lapse>>

\* An UPDATE or DELETE of a row that is gone changes nothing.
Regrade(roles, u, role) == IF roles[u] = "none" THEN roles ELSE [roles EXCEPT ![u] = role]
\* Another request about the same user is under way, and one of the two moves
\* the ownership.
Overlaps(c) ==
  \E d \in OrgCalls \ {c} : /\ Running(d) /\ call[d].who = call[c].who
                            /\ "transfer" \in {call[c].op, call[d].op}
WriteMember(c) ==
  LET op == call[c].op  who == call[c].who IN
  /\ call[c].at = "writing" /\ To(c, "over")
  /\ membership' = CASE op = "remove" -> [membership EXCEPT ![who] = "none"]
                     [] op = "demote" -> Regrade(membership, who, "member")
                     [] op = "promote" -> Regrade(membership, who, "admin")
                     [] op = "transfer" -> Regrade(Regrade(membership, who, "admin"), call[c].owner, "admin")
  /\ orgOwner' = IF op = "transfer" THEN who ELSE orgOwner
  /\ lapse' = IF Overlaps(c) THEN lapse \cup {"overlap"} ELSE lapse
  /\ UNCHANGED invitation

\* acceptInvite: any user who has the token.
ReadInvite(c, who, i) ==
  /\ call[c].at = "idle"
  /\ call' = [call EXCEPT ![c] = [NoCall EXCEPT !.op = "accept", !.who = who, !.invite = i,
                                     !.at = IF invitation[i] = "open" THEN "accepting" ELSE "over"]]
  /\ UNCHANGED <<orgOwner, membership, invitation, lapse>>
AcceptInvite(c) ==
  LET who == call[c].who  i == call[c].invite IN
  /\ call[c].at = "accepting" /\ To(c, "over")
  /\ membership' = [membership EXCEPT ![who] = InvitedRole[i]]
  /\ invitation' = [invitation EXCEPT ![i] = "accepted"]
  /\ lapse' = lapse \cup (IF who = orgOwner /\ InvitedRole[i] = "member" THEN {"accepted"} ELSE {})
                    \cup (IF Overlaps(c) THEN {"overlap"} ELSE {})
  /\ UNCHANGED orgOwner
InviteExpires(i) ==
  /\ invitation[i] = "open" /\ invitation' = [invitation EXCEPT ![i] = "expired"]
  /\ UNCHANGED <<orgOwner, membership, call, lapse>>

\* A transaction is rolled back: a deadlock of two writers, or a crash.
RollBack(c) == Running(c) /\ To(c, "over") /\ UNCHANGED <<orgOwner, membership, invitation, lapse>>

CallStep(c) ==
  \/ \E op \in Ops \ {"accept"}, u \in Users : Ask(c, op, u)
  \/ \E u \in Users, i \in Invites : ReadInvite(c, u, i)
  \/ ReadOrg(c) \/ ReadMember(c) \/ CountAdmins(c) \/ WriteMember(c) \/ AcceptInvite(c) \/ RollBack(c)
OrgNext == (\E c \in OrgCalls : CallStep(c)) \/ \E i \in Invites : InviteExpires(i)
OrgSpec == OrgInit /\ [][OrgNext]_orgVars

-------------------------------------------------------------------------------
OrgTypeOK ==
  /\ orgOwner \in Users /\ membership \in [Users -> {"none", "member", "admin"}]
  /\ invitation \in [Invites -> {"open", "accepted", "expired"}]
  /\ call \in [OrgCalls -> [op : Ops \cup {"none"}, who : Users, owner : Users,
                            at : {"idle", "asked", "org", "counting", "writing", "accepting", "over"},
                            invite : Invites \cup {"none"}]]
  /\ lapse \subseteq {"accepted", "overlap"}

\* The owner holds an admin membership, whatever admins promote, demote and
\* remove at the same time and however the ownership moves; but for an owner
\* who accepts an invitation as a member, and a transfer that overlaps another
\* request about the new owner.
OwnerStaysAdmin == lapse = {} => membership[orgOwner] = "admin"
===============================================================================
