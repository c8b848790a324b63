------------------------------ MODULE LlmRouting ------------------------------
(***************************************************************************)
(* Which LLM credential an agent runs on: llm-credentials-store.ts,        *)
(* llm-agent-profiles-store.ts and runner-sessions-store.ts of             *)
(* server/shared/utils, as the settings pages, speckit-agent-runner.ts and *)
(* company/start.post.ts use them.                                         *)
(*                                                                         *)
(* The owners are a user and the organisation of the user's project; one   *)
(* purpose and role.  The owner, provider and mode of a credential never   *)
(* change, so they are constants.  A statement is atomic; a request that   *)
(* issues two may find the rows changed in between.                        *)
(***************************************************************************)
EXTENDS FiniteSets

CONSTANTS
  Keys,          \* rows of llm_credentials
  KeyOwner,      \* "user" or "org"
  KeyProvider,   \* its provider
  OAuthKeys,     \* those of mode oauth_claude; the others are API keys
  Providers,
  ProfileSaves,  \* requests to save a profile, each with the profile it saves
  Launches,      \* requests of the user that start an agent
  NoKey
Owners == {"user", "org"}
ASSUME RoutingAssumption ==
  /\ KeyOwner \in [Keys -> Owners] /\ KeyProvider \in [Keys -> Providers]
  /\ OAuthKeys \subseteq Keys /\ NoKey \notin Keys /\ "none" \notin Keys
  /\ \A s \in ProfileSaves : /\ s.owner \in Owners /\ s.provider \in Providers
                             /\ s.key \in Keys \cup {NoKey}

VARIABLES
  key,        \* the row of a credential: "unborn", "pending", "ready", "expired" or "deleted"
  enabled,    \* the credentials whose row is enabled
  profile,    \* the profile of an owner: [provider, key], or [provider |-> "none"]
  profileSave,\* where a save is
  launch,     \* where a launch is
  chosen,     \* the profile it read, and whose it is
  token,      \* runner_sessions: what a launch's token is bound to, or "none"
  bared       \* history: launches during which the user had no profile
routingVars == <<key, enabled, profile, profileSave, launch, chosen, token, bared>>

NoProfile == [provider |-> "none", key |-> NoKey]
Profiles == [provider : Providers, key : Keys \cup {NoKey}] \cup {NoProfile}
Exists(k) == key[k] \notin {"unborn", "deleted"}
\* A mutant of Usable: a credential is looked for by its id alone.
UsableOfAnyone(o, p, k) == KeyProvider[k] = p.provider /\ key[k] = "ready" /\ k \in enabled
\* usableCredentialForProfile, of the profile p of owner o.
Usable(o, p, k) ==
  /\ KeyOwner[k] = o /\ KeyProvider[k] = p.provider
  /\ key[k] = "ready" /\ k \in enabled
\* What the Anthropic proxy serves gets a token; other keys go into the environment.
Proxied(k) == k \in OAuthKeys \/ KeyProvider[k] = "anthropic"

Underway(r) == launch[r] \notin {"idle", "running", "refused"}
Bare(owners) == IF profile'["user"] = NoProfile THEN owners \cup {r \in Launches : Underway(r)} ELSE owners

RoutingInit ==
  /\ key = [k \in Keys |-> "unborn"] /\ enabled = {} /\ profile = [o \in Owners |-> NoProfile]
  /\ profileSave = [s \in ProfileSaves |-> "idle"]
  /\ launch = [r \in Launches |-> "idle"]
  /\ chosen = [r \in Launches |-> [owner |-> "user", profile |-> NoProfile]]
  /\ token = [r \in Launches |-> "none"] /\ bared = {}

-------------------------------------------------------------------------------
\* createApiKeyCredential, createOAuthClaudeCredential.
CreateKey(k) ==
  /\ key[k] = "unborn" /\ enabled' = enabled \cup {k}
  /\ key' = [key EXCEPT ![k] = IF k \in OAuthKeys THEN "pending" ELSE "ready"]
  /\ UNCHANGED <<profile, profileSave, launch, chosen, token, bared>>
\* markOAuthAuthorized, and markOAuthExpired, of a login that is no longer good.
AuthorizeKey(k) ==
  /\ k \in OAuthKeys /\ key[k] = "pending" /\ key' = [key EXCEPT ![k] = "ready"]
  /\ UNCHANGED <<enabled, profile, profileSave, launch, chosen, token, bared>>
KeyExpires(k) ==
  /\ k \in OAuthKeys /\ key[k] = "ready" /\ key' = [key EXCEPT ![k] = "expired"]
  /\ UNCHANGED <<enabled, profile, profileSave, launch, chosen, token, bared>>
\* updateApiKeyCredential, of what matters here.
SwitchKey(k) ==
  /\ Exists(k) /\ enabled' = IF k \in enabled THEN enabled \ {k} ELSE enabled \cup {k}
  /\ UNCHANGED <<key, profile, profileSave, launch, chosen, token, bared>>
\* deleteCredential: ON DELETE SET NULL in profiles and sessions.
DeleteKey(k) ==
  /\ Exists(k) /\ key' = [key EXCEPT ![k] = "deleted"] /\ enabled' = enabled \ {k}
  /\ profile' = [o \in Owners |-> IF profile[o].key = k THEN [profile[o] EXCEPT !.key = NoKey] ELSE profile[o]]
  /\ token' = [r \in Launches |-> IF token[r] = k THEN NoKey ELSE token[r]]
  /\ UNCHANGED <<profileSave, launch, chosen, bared>>

-------------------------------------------------------------------------------
\* upsertAgentProfileFor: the credential is read and judged, then the row is written;
\* the foreign key refuses a credential that went away meanwhile.
JudgeProfile(s) ==
  /\ profileSave[s] = "idle"
  /\ profileSave' = [profileSave EXCEPT ![s] =
       IF s.key = NoKey \/ (Exists(s.key) /\ Usable(s.owner, s, s.key)) THEN "writing" ELSE "refused"]
  /\ UNCHANGED <<key, enabled, profile, launch, chosen, token, bared>>
WriteProfile(s) ==
  /\ profileSave[s] = "writing"
  /\ IF s.key # NoKey /\ ~Exists(s.key)
     THEN profileSave' = [profileSave EXCEPT ![s] = "refused"] /\ UNCHANGED profile
     ELSE /\ profileSave' = [profileSave EXCEPT ![s] = "saved"]
          /\ profile' = [profile EXCEPT ![s.owner] = [provider |-> s.provider, key |-> s.key]]
  /\ UNCHANGED <<key, enabled, launch, chosen, token, bared>>
DeleteProfile(o) ==
  /\ profile[o] # NoProfile /\ profile' = [profile EXCEPT ![o] = NoProfile]
  /\ bared' = Bare(bared)
  /\ UNCHANGED <<key, enabled, profileSave, launch, chosen, token>>

-------------------------------------------------------------------------------
\* resolveAgentProfileForRequest: the user's profile, or without one the organisation's.
ReadPersonal(r) ==
  /\ launch[r] = "idle"
  /\ IF profile["user"] # NoProfile
     THEN /\ chosen' = [chosen EXCEPT ![r] = [owner |-> "user", profile |-> profile["user"]]]
          /\ launch' = [launch EXCEPT ![r] = "resolving"] /\ UNCHANGED bared
     ELSE launch' = [launch EXCEPT ![r] = "shared"] /\ bared' = bared \cup {r} /\ UNCHANGED chosen
  /\ UNCHANGED <<key, enabled, profile, profileSave, token>>
ReadShared(r) ==
  /\ launch[r] = "shared"
  /\ chosen' = [chosen EXCEPT ![r] = [owner |-> "org", profile |-> profile["org"]]]
  /\ launch' = [launch EXCEPT ![r] = IF profile["org"] = NoProfile THEN "refused" ELSE "resolving"]
  /\ UNCHANGED <<key, enabled, profile, profileSave, token, bared>>

\* A mutant of ResolveKey: a personal profile that cannot be used is passed over.
ResolveKeyOrShared(r) ==
  LET c == chosen[r] IN
  /\ launch[r] = "resolving"
  /\ launch' = [launch EXCEPT ![r] =
       IF c.profile.key = NoKey \/ ~Usable(c.owner, c.profile, c.profile.key)
       THEN (IF c.owner = "user" THEN "shared" ELSE "refused")
       ELSE IF Proxied(c.profile.key) THEN "minting" ELSE "running"]
  /\ UNCHANGED <<key, enabled, profile, profileSave, chosen, token, bared>>

\* resolveProfileCredential: an unusable credential is an error, even where the
\* organisation has a profile that could be used.
ResolveKey(r) ==
  LET c == chosen[r] IN
  /\ launch[r] = "resolving"
  /\ launch' = [launch EXCEPT ![r] =
       IF c.profile.key = NoKey \/ ~Usable(c.owner, c.profile, c.profile.key) THEN "refused"
       ELSE IF Proxied(c.profile.key) THEN "minting" ELSE "running"]
  /\ UNCHANGED <<key, enabled, profile, profileSave, chosen, token, bared>>

\* mintRunnerSession: the credential is looked up, then the row is inserted.
CheckKey(r) ==
  /\ launch[r] = "minting"
  /\ launch' = [launch EXCEPT ![r] =
       IF Exists(chosen[r].profile.key) /\ KeyOwner[chosen[r].profile.key] = chosen[r].owner
       THEN "inserting" ELSE "refused"]
  /\ UNCHANGED <<key, enabled, profile, profileSave, chosen, token, bared>>
InsertToken(r) ==
  LET k == chosen[r].profile.key IN
  /\ launch[r] = "inserting"
  /\ IF Exists(k) THEN token' = [token EXCEPT ![r] = k] /\ launch' = [launch EXCEPT ![r] = "running"]
     ELSE launch' = [launch EXCEPT ![r] = "refused"] /\ UNCHANGED token
  /\ UNCHANGED <<key, enabled, profile, profileSave, chosen, bared>>

RoutingNext ==
  \/ \E k \in Keys : CreateKey(k) \/ AuthorizeKey(k) \/ KeyExpires(k) \/ SwitchKey(k) \/ DeleteKey(k)
  \/ \E s \in ProfileSaves : JudgeProfile(s) \/ WriteProfile(s)
  \/ \E o \in Owners : DeleteProfile(o)
  \/ \E r \in Launches : \/ ReadPersonal(r) \/ ReadShared(r) \/ ResolveKey(r)
                         \/ CheckKey(r) \/ InsertToken(r)
RoutingSpec == RoutingInit /\ [][RoutingNext]_routingVars

-------------------------------------------------------------------------------
RoutingTypeOK ==
  /\ key \in [Keys -> {"unborn", "pending", "ready", "expired", "deleted"}] /\ enabled \subseteq Keys
  /\ profile \in [Owners -> Profiles]
  /\ profileSave \in [ProfileSaves -> {"idle", "writing", "saved", "refused"}]
  /\ launch \in [Launches -> {"idle", "shared", "resolving", "minting", "inserting", "running", "refused"}]
  /\ chosen \in [Launches -> [owner : Owners, profile : Profiles]]
  /\ token \in [Launches -> Keys \cup {NoKey, "none"}] /\ bared \subseteq Launches

\* Owner and provider go together wherever a credential is used: in a stored
\* profile, whatever became of the credential between the check and the write;
\* in the profile an agent was started with; and in its token, which an agent
\* has if it goes through the proxy, bound to that credential until it is
\* deleted.
AgentsUseOwnKeys ==
  /\ \A o \in Owners : LET k == profile[o].key IN
       k # NoKey => Exists(k) /\ KeyOwner[k] = o /\ KeyProvider[k] = profile[o].provider
  /\ \A r \in Launches : LET k == chosen[r].profile.key IN
       launch[r] = "running" =>
         /\ k # NoKey /\ KeyOwner[k] = chosen[r].owner
         /\ KeyProvider[k] = chosen[r].profile.provider
         /\ Proxied(k) => token[r] \in {k, NoKey}
         /\ token[r] \in Keys => token[r] = k /\ Exists(k)

\* The organisation's credential is spent only on a user who had no profile at
\* some moment of the launch: one that cannot be used is an error, not a reason
\* to fall back.
PersonalProfileWins ==
  \A r \in Launches : launch[r] = "running" /\ chosen[r].owner = "org" => r \in bared

\* Who pays for an agent is decided by whose it is.
KeysAreRouted == AgentsUseOwnKeys /\ PersonalProfileWins
===============================================================================
