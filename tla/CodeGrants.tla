------------------------------ MODULE CodeGrants ------------------------------
(***************************************************************************)
(* The two authorization-code flows.  "oauth": a sign-in with Google or    *)
(* GitHub, whose state and verifier travel in the one cookie all tabs of a *)
(* browser share.  "login": a run of cmd/merchant-login, which keeps them  *)
(* in its memory and waits for the redirect on a port all runs share.      *)
(*                                                                         *)
(* A request stands for its attempt: state, PKCE verifier and the code     *)
(* that is issued for them.  What follows the grant is in Accounts and     *)
(* InstamartCart, which go on from "granted".                              *)
(***************************************************************************)
EXTENDS Requests

CONSTANT Sites   \* what a merchant's servers may publish and answer

VARIABLES
  cookie,  \* the browser's state cookie: the attempt it was set by, or NONE
  page,    \* where the provider's page of each attempt stands
  posted   \* history: codes sent to a token endpoint: [by, code]

grantVars == <<cookie, page, posted>>

CodeGrantsInit == cookie = NONE /\ page = [c \in Calls |-> NONE] /\ posted = {}

\* The user allows or refuses what the provider's page asks, and is redirected.
UserAnswers(c) ==
  /\ page[c] = "shown"
  /\ \E answer \in {"code", "denied"} : page' = [page EXCEPT ![c] = answer]
  /\ UNCHANGED <<requests, cookie, posted>>

\* The token endpoint: the code, once, with the verifier of its own challenge.
Redeemable(by, code) == by = code /\ [by |-> by, code |-> code] \notin posted

-----------------------------------------------------------------------------
(* oauthStart, oauthCallback *)

OauthStart(c) ==
  /\ At(c, {"oauth"}, "idle")
  /\ cookie' = c /\ page' = [page EXCEPT ![c] = "shown"]
  /\ Goto(c, "away")
  /\ UNCHANGED posted

\* Broken variant: any redirect goes with the cookie of the day.
StateSigned(attempt, code) == attempt # NONE
VerifyState(attempt, code) == attempt = code

\* The cookie is cleared whatever happens next; it is good for ten minutes.
OauthCallback(c) ==
  /\ At(c, {"oauth"}, "away") /\ page[c] \in {"code", "denied"}
  /\ cookie' = NONE
  /\ \E late \in {FALSE, job.slow} :
       IF page[c] = "code" /\ ~late /\ VerifyState(cookie, c)
         THEN Keep(c, cookie, "exchange")
         ELSE Done(c)
  /\ UNCHANGED <<page, posted>>

\* Provider.Exchange: a profile, or one without a verified email, which is refused.
ExchangeProfile(c) ==
  /\ At(c, {"oauth"}, "exchange")
  /\ posted' = posted \cup {[by |-> mem[c], code |-> c]}
  /\ \E verified \in BOOLEAN :
       IF verified /\ Redeemable(mem[c], c) THEN Goto(c, "granted") ELSE Done(c)
  /\ UNCHANGED <<cookie, page>>

-----------------------------------------------------------------------------
(* Login *)

\* discoverResource: the first of the places to look that answers.
Discovered(site) == \E k \in DOMAIN site.metadata : site.metadata[k]
SameResource(resource) == resource \in {NONE, "endpoint", "origin"}
Linkable(site) ==
  /\ Discovered(site) /\ SameResource(site.resource)
  /\ site.issuer /\ site.pkce

\* registerClient: a public client if the server takes one.
AuthMethod(site) ==
  IF site.methods = {} \/ "none" \in site.methods THEN "none"
  ELSE IF "client_secret_post" \in site.methods THEN "client_secret_post"
  ELSE IF "client_secret_basic" \in site.methods THEN "client_secret_basic" ELSE NONE

DiscoverServer(c) ==
  /\ At(c, {"login"}, "idle")
  /\ \E site \in Sites :
       IF Linkable(site) THEN Keep(c, site, "register") ELSE Done(c)
  /\ UNCHANGED grantVars

RegisterClient(c) ==
  /\ At(c, {"login"}, "register")
  /\ IF mem[c].registers /\ AuthMethod(mem[c]) # NONE
       THEN Keep(c, [iss |-> mem[c].iss, redirect |-> NONE], "listen")
       ELSE Done(c)
  /\ UNCHANGED grantVars

\* The run whose listener has the port, until it returns.
Listeners == {c \in ByOp({"login"}) : pc[c] \in {"wait", "trade"}}

ShowURL(c) ==
  /\ At(c, {"login"}, "listen")
  /\ IF Listeners = {} THEN page' = [page EXCEPT ![c] = "shown"] /\ Goto(c, "wait")
                       ELSE UNCHANGED page /\ Done(c)
  /\ UNCHANGED <<cookie, posted>>

\* callbackHandler: the first redirect that reaches the port is the one that counts,
\* whichever run it was meant for.
Redirected(k) ==
  /\ Op(k) = "login" /\ page[k] \in {"code", "denied"}
  /\ \E c \in Listeners :
       /\ pc[c] = "wait" /\ mem[c].redirect = NONE
       /\ Keep(c, [mem[c] EXCEPT !.redirect = k], "wait")
  /\ UNCHANGED grantVars

\* validateIssuerResponse.
ValidIssuer(iss, supported) == iss = "own" \/ (iss = NONE /\ ~supported)

\* Broken variant: whatever redirect came.
StateIgnored(attempt, code) == TRUE
StateEqual(attempt, code) == attempt = code

TakeRedirect(c) ==
  /\ At(c, {"login"}, "wait") /\ mem[c].redirect # NONE
  /\ \E iss \in {NONE, "own", "other"} :
       IF /\ page[mem[c].redirect] = "code"
          /\ StateEqual(c, mem[c].redirect)
          /\ ValidIssuer(iss, mem[c].iss)
         THEN Goto(c, "trade") ELSE Done(c)
  /\ UNCHANGED grantVars

\* Nobody answers within the timeout.
TimesOut(c) ==
  /\ At(c, {"login"}, "wait") /\ job.slow
  /\ Done(c)
  /\ UNCHANGED grantVars

ExchangeCode(c) ==
  /\ At(c, {"login"}, "trade")
  /\ posted' = posted \cup {[by |-> c, code |-> mem[c].redirect]}
  /\ IF Redeemable(c, mem[c].redirect) THEN Keep(c, NONE, "granted") ELSE Done(c)
  /\ UNCHANGED <<cookie, page>>

CodeGrantsNext ==
  /\ \E c \in Calls :
       \/ UserAnswers(c) \/ OauthStart(c) \/ OauthCallback(c) \/ ExchangeProfile(c)
       \/ DiscoverServer(c) \/ RegisterClient(c) \/ ShowURL(c) \/ Redirected(c)
       \/ TakeRedirect(c) \/ TimesOut(c) \/ ExchangeCode(c)
  /\ UNCHANGED <<job, cut>>

-----------------------------------------------------------------------------
(* Properties *)

CodeGrantsTypeOK ==
  /\ cookie \in Calls \cup {NONE}
  /\ page \in [Calls -> {NONE, "shown", "code", "denied"}]
  /\ posted \subseteq [by : Calls, code : Calls]

\* A code goes to a token endpoint from the attempt it was issued to and no other
\* (auth.go:305-307, login.go:53), though the tabs of a browser overwrite each other's
\* cookie and a redirect may reach the port when another run has it.
CodesAreOwn == \A p \in posted : p.by = p.code
=============================================================================
