------------------------------ MODULE PolicySets ------------------------------
(***************************************************************************)
(* PolicySetService: the versions of a tenant's default ruleset and of one *)
(* user's override.  A version is named by the SetPolicy that made it.     *)
(***************************************************************************)
EXTENDS Requests

VARIABLES
  sets,  \* policy_sets: [scope, version, live], or NONE
  older  \* history: the versions on record when the request began

policyVars == <<sets, older>>

Scopes == {"default", "override"}   \* a request's op is its scope
PolicySet == [scope : Scopes, version : Nat, live : BOOLEAN]

ASSUME NoPolicySetAssumption == NONE \notin PolicySet

PolicySetsInit ==
  /\ sets = [c \in Calls |-> NONE]
  /\ older = [c \in Calls |-> {}]

Versions(scope) == {s \in Calls : sets[s] # NONE /\ sets[s].scope = scope}
Live(scope) == {s \in Versions(scope) : sets[s].live}

\* The repository's GetActive: the live version of the highest number.
GetActive(scope) == {s \in Live(scope) : \A t \in Live(scope) : sets[t].version <= sets[s].version}

\* The service's: the user's override, or else the tenant's default.
Effective == IF Live("override") # {} THEN GetActive("override") ELSE GetActive("default")

\* Broken variant: numbered from zero.
VersionFromZero(active) == IF active = {} THEN 0 ELSE sets[CHOOSE s \in active : TRUE].version + 1
NextVersion(active) == IF active = {} THEN 1 ELSE sets[CHOOSE s \in active : TRUE].version + 1

\* SetPolicy: the number after the one in force, then what is live is superseded, then
\* the row is inserted.
SetPolicy(c) ==
  /\ At(c, Scopes, "idle")
  /\ older' = [older EXCEPT ![c] = Versions(Op(c))]
  /\ Keep(c, NextVersion(GetActive(Op(c))), "supersede")
  /\ UNCHANGED sets

\* Broken variant: the tenant's rows, whichever user's they are.
SupersededTenant(scope) ==
  [s \in Calls |-> IF sets[s] # NONE THEN [sets[s] EXCEPT !.live = FALSE] ELSE NONE]
Superseded(scope) ==
  [s \in Calls |-> IF s \in Live(scope) THEN [sets[s] EXCEPT !.live = FALSE] ELSE sets[s]]
SupersedeActive(c) ==
  /\ At(c, Scopes, "supersede")
  /\ sets' = Superseded(Op(c))
  /\ Goto(c, "insert")
  /\ UNCHANGED older

CreatePolicySet(c) ==
  /\ At(c, Scopes, "insert")
  /\ sets' = [sets EXCEPT ![c] = [scope |-> Op(c), version |-> mem[c], live |-> TRUE]]
  /\ Done(c)
  /\ UNCHANGED older

PolicySetsNext ==
  \E c \in Calls :
    \/ (SetPolicy(c) \/ SupersedeActive(c) \/ CreatePolicySet(c)) /\ UNCHANGED <<job, cut>>
    \/ Op(c) \in Scopes /\ Fails(c) /\ UNCHANGED policyVars

-----------------------------------------------------------------------------
(* Properties *)

PolicySetsTypeOK ==
  /\ \A s \in Calls : sets[s] # NONE => sets[s] \in PolicySet /\ sets[s].version \in 1..Cardinality(Calls)
  /\ older \in [Calls -> SUBSET Calls]

\* Whatever versions are set side by side, when all are through the policy in force is
\* never one that was on record before another's SetPolicy began, and a scope that has
\* been set once is never left without one, so that no payment falls back from a user's
\* override to the tenant's default (policy_set_service.go:24-27).
PolicyInForce ==
  (\A c \in ByOp(Scopes) : pc[c] = "done" /\ c \notin cut) =>
    /\ \A s \in Effective : \A c \in ByOp(Scopes) : sets[s].scope = Op(c) => s \notin older[c]
    /\ \A scope \in Scopes : Versions(scope) # {} => Live(scope) # {}
=============================================================================
