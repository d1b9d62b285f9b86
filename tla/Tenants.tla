-------------------------------- MODULE Tenants --------------------------------
(***************************************************************************)
(* The bearer tokens of businesses and agents (TenantService,              *)
(* IntegratorService, UserService, AgentService) and what is done with     *)
(* them: a tenant enrols users and mints their agents, a signed-in person  *)
(* mints and revokes agents of their own, an integrator asks for verdicts  *)
(* (TransactionPolicyService), an agent works on purchase intents.         *)
(*                                                                         *)
(* A token, and a user of a tenant, is named by the request that made its  *)
(* row; the console agents of sessions are those of Accounts.              *)
(***************************************************************************)
EXTENDS Accounts, PolicyEngine

CONSTANTS
  Conditions,  \* rulesets an integrator may send with a transaction
  Transactions \* what it may ask about: [in, amount, spend]

VARIABLES
  keys,        \* tenants, integrators and agents: [kind, of, may, live]; of, an agent's user
  people,      \* users: the tenant of the user the request enrolled, or NONE
  acts,        \* history: what a request did: [key, for]
  barred,      \* history: the keys revoked when the request came in
  disowned     \* history: console agents the person has revoked by their id

tenantRows == <<keys, people>>
tenantVars == <<tenantRows, acts, barred, disowned>>

TenantOps == {"tenant", "integrator", "enrol", "mint", "close", "disown", "act", "judge"}
Kinds == {"tenant", "integrator", "agent"}
Self == "self"   \* the person of Accounts, who is no tenant's
Key == [kind : Kinds, of : Calls \cup {Self, NONE}, may : BOOLEAN, live : BOOLEAN]

ASSUME NoKeyAssumption == NONE \notin Key /\ Self \notin Calls

TenantsInit ==
  /\ keys = [c \in Calls |-> NONE]
  /\ people = [c \in Calls |-> NONE]
  /\ acts = [c \in Calls |-> NONE]
  /\ barred = [c \in Calls |-> {}]
  /\ disowned = {}

Issued(kind) == {k \in Calls : keys[k] # NONE /\ keys[k].kind = kind}
IsRevoked(k) == ~keys[k].live
Good(kind) == {k \in Issued(kind) : ~IsRevoked(k)}
Revoked == {k \in Calls : keys[k] # NONE /\ ~keys[k].live} \cup {s \in Calls : agents[s] = "revoked"}

Comes(c) == barred' = [barred EXCEPT ![c] = Revoked]
Acts(c, key, u) == acts' = [acts EXCEPT ![c] = [key |-> key, for |-> u]]
OnlyKeys == UNCHANGED <<people, acts, disowned>>

-----------------------------------------------------------------------------
(* Businesses *)

\* CreateTenant, CreateIntegrator: anybody may.
Register(c) ==
  /\ At(c, {"tenant", "integrator"}, "idle")
  /\ keys' = [keys EXCEPT ![c] = [kind |-> Op(c), of |-> NONE, may |-> TRUE, live |-> TRUE]]
  /\ Done(c) /\ Comes(c) /\ OnlyKeys

\* TenantService.Revoke, IntegratorService.Revoke; what the tenant has made stays.
Close(c) ==
  /\ At(c, {"close"}, "idle")
  /\ \E k \in Issued("tenant") \cup Issued("integrator") : keys' = [keys EXCEPT ![k].live = FALSE]
  /\ Done(c) /\ Comes(c) /\ OnlyKeys

ResolveTenant(c) ==
  /\ At(c, {"enrol", "mint"}, "idle")
  /\ \E t \in Good("tenant") : Keep(c, [by |-> t, for |-> NONE], IF Op(c) = "enrol" THEN "enrol" ELSE "whose")
  /\ Comes(c) /\ UNCHANGED keys /\ OnlyKeys

\* UserService.Create.
Enrol(c) ==
  /\ At(c, {"enrol"}, "enrol")
  /\ people' = [people EXCEPT ![c] = mem[c].by]
  /\ Acts(c, mem[c].by, c)
  /\ Done(c)
  /\ UNCHANGED <<keys, barred, disowned>>

-----------------------------------------------------------------------------
(* Agents *)

\* createAgent by a tenant: for one of its own users.
CheckOwnUser(c) ==
  /\ At(c, {"mint"}, "whose")
  /\ \E u \in {u \in Calls : people[u] # NONE} :
       IF people[u] = mem[c].by THEN Keep(c, [mem[c] EXCEPT !.for = u], "mint") ELSE Done(c)
  /\ UNCHANGED tenantVars

\* createAgent by a signed-in person: for themselves.
MintOwn(c) ==
  /\ At(c, {"mint"}, "idle") /\ ListActiveSessions # {}
  /\ Keep(c, [by |-> Self, for |-> Self], "mint")
  /\ Comes(c) /\ UNCHANGED keys /\ OnlyKeys

\* AgentService.CreateAgent, with the permission its next act needs or without.
Mint(c) ==
  /\ At(c, {"mint"}, "mint")
  /\ \E may \in BOOLEAN :
       keys' = [keys EXCEPT ![c] = [kind |-> "agent", of |-> mem[c].for, may |-> may, live |-> TRUE]]
  /\ Acts(c, mem[c].by, mem[c].for)
  /\ Done(c)
  /\ UNCHANGED <<people, barred, disowned>>

\* AgentService.Revoke by a signed-in person: an agent of theirs, a session's included.
OwnerOf(a) == IF keys[a] # NONE THEN keys[a].of ELSE Self
LoadAgent(c) ==
  /\ At(c, {"disown"}, "idle") /\ ListActiveSessions # {}
  /\ \E a \in Issued("agent") \cup {s \in Calls : agents[s] # NONE} :
       IF OwnerOf(a) = Self THEN Keep(c, a, "disown") ELSE Done(c)
  /\ Comes(c) /\ UNCHANGED <<keys, accountVars>> /\ OnlyKeys

Disown(c) ==
  /\ At(c, {"disown"}, "disown")
  /\ IF keys[mem[c]] # NONE
       THEN keys' = [keys EXCEPT ![mem[c]].live = FALSE] /\ UNCHANGED <<agents, disowned>>
       ELSE /\ agents' = [agents EXCEPT ![mem[c]] = "revoked"]
            /\ disowned' = disowned \cup {mem[c]}
            /\ UNCHANGED keys
  /\ Done(c)
  /\ UNCHANGED <<user, linked, sessions, tokens, owed, renamed, stranded, people, acts, barred>>

\* resolveAgent: by its bearer token, or a browser's by its session.
ResolveAgent(c) ==
  /\ At(c, {"act"}, "idle")
  /\ \E a \in Good("agent") \cup {s \in ListActiveSessions : agents[s] = "live"} : Keep(c, a, "permit")
  /\ Comes(c) /\ UNCHANGED keys /\ OnlyKeys

HasPermission(a) == IF keys[a] # NONE THEN ~IsRevoked(a) /\ keys[a].may ELSE agents[a] = "live"

\* requireOwnedIntent: the agent is read again, then the intent, some user's.
RequireOwnedIntent(c) ==
  /\ At(c, {"act"}, "permit")
  /\ \E u \in {Self} \cup {p \in Calls : people[p] # NONE} :
       IF HasPermission(mem[c]) /\ OwnerOf(mem[c]) = u THEN Acts(c, mem[c], u) ELSE UNCHANGED acts
  /\ Done(c)
  /\ UNCHANGED <<keys, people, barred, disowned>>

-----------------------------------------------------------------------------
(* Integrators *)

ResolveIntegrator(c) ==
  /\ At(c, {"judge"}, "idle")
  /\ \E k \in Good("integrator") : Keep(c, k, "judge")
  /\ Comes(c) /\ UNCHANGED keys /\ OnlyKeys

\* EvaluateTransaction: the integrator is read again; its own conditions decide, over the
\* spending it says there was.
EvaluateTransaction(c) ==
  /\ At(c, {"judge"}, "judge")
  /\ \E rules \in Conditions, t \in Transactions :
       IF IsRevoked(mem[c]) THEN UNCHANGED acts
       ELSE Acts(c, mem[c], EvaluatePurchaseIntent(rules, t.in, t.amount, t.spend))
  /\ Done(c)
  /\ UNCHANGED <<keys, people, barred, disowned>>

TenantsNext ==
  \E c \in Calls :
    \/ /\ \/ Register(c) \/ Close(c) \/ ResolveTenant(c) \/ Enrol(c)
          \/ CheckOwnUser(c) \/ MintOwn(c) \/ Mint(c) \/ ResolveAgent(c) \/ RequireOwnedIntent(c)
          \/ ResolveIntegrator(c) \/ EvaluateTransaction(c)
       /\ UNCHANGED <<job, cut, accountVars>>
    \/ (LoadAgent(c) \/ Disown(c)) /\ UNCHANGED <<job, cut>>
    \/ Op(c) \in TenantOps /\ Fails(c) /\ UNCHANGED <<tenantVars, accountVars>>

-----------------------------------------------------------------------------
(* Properties *)

TenantsTypeOK ==
  /\ \A k \in Calls : keys[k] # NONE => keys[k] \in Key
  /\ people \in [Calls -> Calls \cup {NONE}]
  /\ \A c \in Calls : acts[c] # NONE =>
       acts[c] \in [key : Calls \cup {Self}, for : Calls \cup Verdicts \cup {Self}]
  /\ barred \in [Calls -> SUBSET Calls] /\ disowned \subseteq Calls

\* A session that is active has its console agent, unless the person has revoked it; and
\* when all is through, an agent that lives has its active session (account_service.go:247-274
\* and 303-313), whatever failed meanwhile.  All but those that are stranded: one sign-in
\* or sign-out that fails between its two rows leaves its own agent behind, and a session
\* that runs out leaves its agent live, for good: neither the expiry nor the purge revokes
\* it, which account_repo.go:211-212 and router.go:289-292 take to be so.
\* And nothing is done with a token that had been revoked when the request came in, nor for
\* a user it is not of, whatever is revoked, signed out or reset meanwhile
\* (docs/THREAT_MODEL.md:23,51).
AgentsFollowOwners ==
  /\ \A s \in Calls : sessions[s] = "active" => agents[s] = "live" \/ s \in disowned
  /\ (\A c \in Calls : Idle(c)) =>
       \A s \in Calls \ stranded : agents[s] = "live" => sessions[s] = "active"
  /\ \A c \in Calls : acts[c] # NONE =>
       /\ acts[c].key \notin barred[c]
       /\ Op(c) \in {"enrol", "mint"} /\ acts[c].for # Self => people[acts[c].for] = acts[c].key
       /\ Op(c) = "act" => OwnerOf(acts[c].key) = acts[c].for
=============================================================================
