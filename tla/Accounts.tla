------------------------------- MODULE Accounts -------------------------------
(***************************************************************************)
(* AccountService and AgentService for one person: sign-up and sign-in by  *)
(* password or provider, sessions and their console agents, password       *)
(* resets, the display name and the hourly purge.                          *)
(*                                                                         *)
(* A session, its agent and a reset token are named by the request that    *)
(* made them, a password by the request that set it.                       *)
(***************************************************************************)
EXTENDS Requests

VARIABLES
  user,      \* users: [name, avatar, password, verified], or NONE
  linked,    \* oauth_identities: whether the provider's identity is the user's
  sessions,  \* user_sessions: NONE, active, revoked, expired or purged
  agents,    \* agents: NONE, live or revoked
  tokens,    \* password_reset_tokens: NONE, made, sent, used, expired or purged
  owed,      \* history: the sessions a reset has to end, those on record when it set its
             \* password; none if it is cut short, nor one whose own sign-out failed
  renamed,   \* history: requests that had read the profile when the user set the name
  stranded   \* history: console agents nobody is left to revoke: their session ran out, or
             \* a failure kept it from being stored, or them from being revoked

accountRows == <<user, linked, sessions, agents, tokens>>
accountVars == <<accountRows, owed, renamed, stranded>>

AccountOps == {"signup", "signin", "oauth", "signout", "rename", "forgot", "reset", "purge"}
Own == "own"
Theirs == "provider's"

User == [name : {NONE, Own, Theirs}, avatar : {NONE, Theirs},
         password : Calls \cup {NONE}, verified : BOOLEAN]
SessionStates == {"active", "revoked", "expired", "purged"}
AgentStates == {"live", "revoked"}
TokenStates == {"made", "sent", "used", "expired", "purged"}

ASSUME NoAccountAssumption ==
  NONE \notin User /\ NONE \notin {Own, Theirs} \cup SessionStates \cup AgentStates \cup TokenStates

AccountsInit ==
  /\ user = NONE /\ linked = FALSE
  /\ sessions = [c \in Calls |-> NONE]
  /\ agents = [c \in Calls |-> NONE]
  /\ tokens = [c \in Calls |-> NONE]
  /\ owed = [c \in Calls |-> {}] /\ renamed = {} /\ stranded = {}

\* Broken variant: the device seen last.
ListNewestSession == LET live == {s \in Calls : sessions[s] = "active"}
                     IN  IF live = {} THEN {} ELSE {CHOOSE s \in live : TRUE}
ListActiveSessions == {s \in Calls : sessions[s] = "active"}

-----------------------------------------------------------------------------
\* SignUp: the email is taken or the row is inserted.
SignUp(c) ==
  /\ At(c, {"signup"}, "idle")
  /\ user = NONE
  /\ \E name \in {NONE, Own} :
       user' = [name |-> name, avatar |-> NONE, password |-> c, verified |-> FALSE]
  /\ Goto(c, "agent")
  /\ UNCHANGED <<linked, sessions, agents, tokens, owed, renamed, stranded>>

\* SignIn with the password on record; any other is refused.
SignIn(c) ==
  /\ At(c, {"signin"}, "idle")
  /\ user # NONE /\ user.password # NONE
  /\ Goto(c, "agent")
  /\ UNCHANGED accountVars

\* SignInWithOAuth, with the profile granted (CodeGrants): by the identity if it
\* is linked, or else by the verified email.
SignInWithOAuth(c) ==
  /\ At(c, {"oauth"}, "granted")
  /\ Keep(c, user, IF linked THEN "profile" ELSE IF user = NONE THEN "create" ELSE "link")
  /\ UNCHANGED accountVars

\* The user's row, unless another request has inserted one.
CreateUser(c) ==
  /\ pc[c] = "create"
  /\ LET row == [name |-> Theirs, avatar |-> Theirs, password |-> NONE, verified |-> TRUE]
     IN  IF user = NONE
           THEN user' = row /\ Keep(c, row, "link")
           ELSE Done(c) /\ UNCHANGED user
  /\ UNCHANGED <<linked, sessions, agents, tokens, owed, renamed, stranded>>

LinkOAuthIdentity(c) ==
  /\ pc[c] = "link"
  /\ linked' = TRUE
  /\ Goto(c, IF mem[c].verified THEN "profile" ELSE "verify")
  /\ UNCHANGED <<user, sessions, agents, tokens, owed, renamed, stranded>>

MarkEmailVerified(c) ==
  /\ pc[c] = "verify"
  /\ user' = [user EXCEPT !.verified = TRUE]
  /\ Goto(c, "profile")
  /\ UNCHANGED <<linked, sessions, agents, tokens, owed, renamed, stranded>>

\* fillProfile: what the copy misses is the provider's; both columns are written.
\* Broken variant: the provider's, whatever the copy has.
Filled(mine) == Theirs
Fill(mine) == IF mine = NONE THEN Theirs ELSE mine
FillProfile(c) ==
  /\ pc[c] = "profile"
  /\ LET filled == [mem[c] EXCEPT !.name = Fill(@), !.avatar = Fill(@)]
     IN  user' = IF filled = mem[c] THEN user
                 ELSE [user EXCEPT !.name = filled.name, !.avatar = filled.avatar]
  /\ Goto(c, "agent")
  /\ UNCHANGED <<linked, sessions, agents, tokens, owed, renamed, stranded>>

-----------------------------------------------------------------------------
\* startSession: the console agent, then the session; the agent goes if the session
\* cannot be stored.
CreateAgent(c) ==
  /\ pc[c] = "agent"
  /\ agents' = [agents EXCEPT ![c] = "live"]
  /\ Goto(c, "session")
  /\ UNCHANGED <<user, linked, sessions, tokens, owed, renamed, stranded>>

CreateSession(c) ==
  /\ pc[c] = "session"
  /\ \/ sessions' = [sessions EXCEPT ![c] = "active"] /\ Done(c)
     \/ Keep(c, [now |-> c, left |-> {}], "disarm") /\ UNCHANGED sessions
  /\ UNCHANGED <<user, linked, agents, tokens, owed, renamed, stranded>>

\* SignOut and RevokeSession, by a request whose session is active when it comes in.
SignOut(c) ==
  /\ At(c, {"signout"}, "idle")
  /\ \E s \in ListActiveSessions : Keep(c, {s}, "revoke")
  /\ UNCHANGED accountVars

\* SignOut of each session of a list: mem holds those that are left, and the row of one
\* is revoked before its agent.
RevokeSession(c) ==
  /\ pc[c] = "revoke"
  /\ \E s \in mem[c] :
       /\ sessions' = [sessions EXCEPT ![s] = IF @ = "active" THEN "revoked" ELSE @]
       /\ Keep(c, [now |-> s, left |-> mem[c] \ {s}], "disarm")
  /\ UNCHANGED <<user, linked, agents, tokens, owed, renamed, stranded>>

NextSession(c, left) == IF left = {} THEN Done(c) ELSE Keep(c, left, "revoke")

\* Broken variant: the session ends and its agent goes on.
RevokeAgentNot(c) ==
  /\ At(c, {"signout", "reset"}, "disarm")
  /\ NextSession(c, mem[c].left)
  /\ UNCHANGED accountVars
RevokeAgent(c) ==
  /\ At(c, {"signout", "reset"}, "disarm")
  /\ agents' = [agents EXCEPT ![mem[c].now] = "revoked"]
  /\ NextSession(c, mem[c].left)
  /\ UNCHANGED <<user, linked, sessions, tokens, owed, renamed, stranded>>

UndoAgent(c) ==
  /\ At(c, {"signup", "signin", "oauth"}, "disarm")
  /\ agents' = [agents EXCEPT ![c] = "revoked"]
  /\ Done(c)
  /\ UNCHANGED <<user, linked, sessions, tokens, owed, renamed, stranded>>

\* The agents a request has still to revoke, or to give a session.
Due(c) == IF pc[c] = "session" THEN {c} ELSE IF pc[c] = "disarm" THEN {mem[c].now} ELSE {}

\* The errors nobody is told of: of revoking an agent, of signing out in a reset, of
\* marking the email, of filling the profile.
ErrorDropped(c) ==
  /\ \/ At(c, AccountOps, "verify") /\ Drops(c, mem[c], "profile") /\ UNCHANGED <<owed, stranded>>
     \/ At(c, AccountOps, "profile") /\ Drops(c, mem[c], "agent") /\ UNCHANGED <<owed, stranded>>
     \/ /\ At(c, {"signout", "reset"}, "disarm")
        /\ Drops(c, mem[c].left, IF mem[c].left = {} THEN "done" ELSE "revoke")
        /\ stranded' = stranded \cup Due(c)
        /\ UNCHANGED owed
     \/ /\ At(c, {"reset"}, "revoke")
        /\ \E s \in mem[c] : /\ Drops(c, mem[c] \ {s}, IF mem[c] = {s} THEN "done" ELSE "revoke")
                             /\ owed' = [owed EXCEPT ![c] = @ \ {s}]
        /\ UNCHANGED stranded
  /\ UNCHANGED <<accountRows, renamed>>

\* Cut short: it answers with an error, or not at all.
Breaks(c) ==
  /\ Op(c) \in AccountOps /\ Fails(c)
  /\ owed' = [owed EXCEPT ![c] = {}]
  /\ stranded' = stranded \cup Due(c)
  /\ UNCHANGED <<accountRows, renamed>>

-----------------------------------------------------------------------------
\* UpdateName: the name is the user's, the avatar the copy's.
UpdateName(c) ==
  /\ At(c, {"rename"}, "idle")
  /\ ListActiveSessions # {}
  /\ Keep(c, user, "rename")
  /\ UNCHANGED accountVars

UpdateUserProfile(c) ==
  /\ pc[c] = "rename"
  /\ user' = [user EXCEPT !.name = Own, !.avatar = mem[c].avatar]
  /\ renamed' = renamed \cup {r \in ByOp({"oauth"}) : pc[r] \in {"create", "link", "verify", "profile"}}
  /\ Done(c)
  /\ UNCHANGED <<linked, sessions, agents, tokens, owed, stranded>>

\* RequestPasswordReset: the token is stored, then mailed.
RequestPasswordReset(c) ==
  /\ At(c, {"forgot"}, "idle")
  /\ user # NONE
  /\ tokens' = [tokens EXCEPT ![c] = "made"]
  /\ Goto(c, "mail")
  /\ UNCHANGED <<user, linked, sessions, agents, owed, renamed, stranded>>

SendMail(c) ==
  /\ pc[c] = "mail"
  /\ tokens' = [tokens EXCEPT ![c] = IF @ = "made" THEN "sent" ELSE @]
  /\ Done(c)
  /\ UNCHANGED <<user, linked, sessions, agents, owed, renamed, stranded>>

\* ResetPassword: ConsumeResetToken in one statement, then the password, then the list.
ResetPassword(c) ==
  /\ At(c, {"reset"}, "idle")
  /\ \E t \in Calls : tokens[t] = "sent" /\ tokens' = [tokens EXCEPT ![t] = "used"]
  /\ Goto(c, "password")
  /\ UNCHANGED <<user, linked, sessions, agents, owed, renamed, stranded>>

SetPassword(c) ==
  /\ pc[c] = "password"
  /\ user' = [user EXCEPT !.password = c]
  /\ owed' = [owed EXCEPT ![c] = {s \in Calls : sessions[s] # NONE}]
  /\ Goto(c, "list")
  /\ UNCHANGED <<linked, sessions, agents, tokens, renamed, stranded>>

ListSessions(c) ==
  /\ pc[c] = "list"
  /\ NextSession(c, ListActiveSessions)
  /\ UNCHANGED accountVars

\* PurgeExpired: of the dead sessions those that died a week ago, and every token that is
\* used or out of date.
PurgeExpired(c) ==
  /\ At(c, {"purge"}, "idle")
  /\ \E dead \in SUBSET {s \in Calls : sessions[s] \in {"revoked", "expired"}} :
       sessions' = [s \in Calls |-> IF s \in dead THEN "purged" ELSE sessions[s]]
  /\ tokens' = [t \in Calls |-> IF tokens[t] \in {"used", "expired"} THEN "purged" ELSE tokens[t]]
  /\ Done(c)
  /\ UNCHANGED <<user, linked, agents, owed, renamed, stranded>>

TimePasses(c) ==
  /\ job.slow
  /\ \/ /\ sessions[c] = "active" /\ sessions' = [sessions EXCEPT ![c] = "expired"]
        /\ stranded' = stranded \cup {c}
        /\ UNCHANGED tokens
     \/ /\ tokens[c] \in {"made", "sent"} /\ tokens' = [tokens EXCEPT ![c] = "expired"]
        /\ UNCHANGED <<sessions, stranded>>
  /\ UNCHANGED <<job, cut, requests, user, linked, agents, owed, renamed>>

AccountsStep(c) ==
  \/ SignUp(c) \/ SignIn(c) \/ SignInWithOAuth(c) \/ CreateUser(c) \/ LinkOAuthIdentity(c)
  \/ MarkEmailVerified(c) \/ FillProfile(c) \/ CreateAgent(c) \/ CreateSession(c)
  \/ SignOut(c) \/ RevokeSession(c) \/ RevokeAgent(c) \/ UndoAgent(c)
  \/ UpdateName(c) \/ UpdateUserProfile(c) \/ RequestPasswordReset(c) \/ SendMail(c)
  \/ ResetPassword(c) \/ SetPassword(c) \/ ListSessions(c) \/ PurgeExpired(c)

AccountsNext ==
  \E c \in Calls :
    \/ AccountsStep(c) /\ UNCHANGED <<job, cut>>
    \/ Breaks(c) \/ ErrorDropped(c) \/ TimePasses(c)

-----------------------------------------------------------------------------
(* Properties *)

AccountsTypeOK ==
  /\ user # NONE => user \in User
  /\ linked \in BOOLEAN
  /\ sessions \in [Calls -> SessionStates \cup {NONE}]
  /\ agents \in [Calls -> AgentStates \cup {NONE}]
  /\ tokens \in [Calls -> TokenStates \cup {NONE}]

\* A reset that answers success has ended the sessions that were on record when it set the
\* password (account_service.go:402-404), whichever sign-ins, sign-outs and other resets went
\* on meanwhile and whatever of theirs failed.  One is spared, and success is answered all
\* the same: a session whose own sign-out in this reset failed, an error the code drops
\* (account_service.go:427-429).
ResetEndsSessions ==
  \A r \in ByOp({"reset"}) : pc[r] = "done" => \A s \in owed[r] : sessions[s] # "active"

\* A provider's sign-in fills in a profile and does not overwrite the name the user set
\* (account_service.go:230-231), unless it had read the profile before the user set it.
OwnNameKept ==
  [][user # NONE /\ user.name = Own /\ user'.name # Own =>
       \E c \in renamed : pc[c] = "profile"]_user
=============================================================================
