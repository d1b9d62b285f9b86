------------------------------- MODULE Services -------------------------------
(***************************************************************************)
(* The services of one process side by side over the same kind of request: *)
(* billing, sign-ins and links by authorization code, accounts with the    *)
(* profile records and agents they own, businesses and their agents,       *)
(* policy sets, the Instamart connector, the rate limiter, searches and    *)
(* webhooks.  A code grant ends in a session or a merchant session, and a  *)
(* session's agent is what lets an onboarding write the profile.           *)
(***************************************************************************)
EXTENDS Billing, CodeGrants, Profiles, Tenants, PolicySets, InstamartCart, RateLimit, Search, Webhooks

\* A web search is asked for by an operation of its own.
ASSUME SearchOpsAssumption ==
  DOMAIN WebLimit \cap (BillingOps \cup AccountOps \cup {"login"} \cup ProfileOps \cup TenantOps \cup Scopes
                         \cup InstamartOps \cup LimiterOps \cup {"endpoint", "fire", "inbound"}) = {}

services == <<billingVars, grantVars, accountVars, profileVars, tenantVars, policyVars, instamartVars,
              limiterVars, searchVars, hookVars>>
vars == <<job, cut, requests, services>>

Init ==
  /\ RequestsInit
  /\ BillingInit /\ CodeGrantsInit /\ AccountsInit /\ ProfilesInit /\ TenantsInit /\ PolicySetsInit
  /\ InstamartInit /\ RateLimitInit /\ SearchInit /\ WebhooksInit

Next ==
  \/ BillingNext
     /\ UNCHANGED <<grantVars, accountVars, profileVars, tenantVars, policyVars, instamartVars,
                    limiterVars, searchVars, hookVars>>
  \/ CodeGrantsNext
     /\ UNCHANGED <<billingVars, accountVars, profileVars, tenantVars, policyVars, instamartVars,
                    limiterVars, searchVars, hookVars>>
  \/ ProfilesNext
     /\ UNCHANGED <<billingVars, grantVars, tenantVars, policyVars, instamartVars, limiterVars,
                    searchVars, hookVars>>
  \/ TenantsNext
     /\ UNCHANGED <<billingVars, grantVars, profileVars, policyVars, instamartVars, limiterVars,
                    searchVars, hookVars>>
  \/ PolicySetsNext
     /\ UNCHANGED <<billingVars, grantVars, accountVars, profileVars, tenantVars, instamartVars,
                    limiterVars, searchVars, hookVars>>
  \/ InstamartNext
     /\ UNCHANGED <<billingVars, grantVars, accountVars, profileVars, tenantVars, policyVars,
                    limiterVars, searchVars, hookVars>>
  \/ RateLimitNext
     /\ UNCHANGED <<billingVars, grantVars, accountVars, profileVars, tenantVars, policyVars,
                    instamartVars, searchVars, hookVars>>
  \/ SearchNext
     /\ UNCHANGED <<billingVars, grantVars, accountVars, profileVars, tenantVars, policyVars,
                    instamartVars, limiterVars, hookVars>>
  \/ WebhooksNext
     /\ UNCHANGED <<billingVars, grantVars, accountVars, profileVars, tenantVars, policyVars,
                    instamartVars, limiterVars, searchVars>>

Spec == Init /\ [][Next]_vars

-----------------------------------------------------------------------------
(* Properties *)

\* Every table and every field of the process holds a value the code gives it.
ServicesTypeOK ==
  /\ cut \subseteq Calls
  /\ BillingTypeOK /\ CodeGrantsTypeOK /\ AccountsTypeOK /\ ProfilesTypeOK /\ TenantsTypeOK
  /\ PolicySetsTypeOK /\ InstamartTypeOK /\ RateLimitTypeOK /\ SearchTypeOK /\ WebhooksTypeOK
=============================================================================
