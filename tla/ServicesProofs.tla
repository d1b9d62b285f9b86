---------------------------- MODULE ServicesProofs ----------------------------
(* Theorems about Services, for any requests side by side.                   *)
EXTENDS Services, FiniteSetTheorems, TLAPS

-------------------------------------------------------------------------------
(* Requests.  A service moves its own requests only, among its own statements, *)
(* and so what another service knows of its requests stays true.               *)

GrantOps == {"oauth", "login"}
SearchOps == DOMAIN WebLimit \cup {"browse"}
HookOps == {"endpoint", "fire", "inbound"}

BillingLabels == {"plan", "subscribe", "save", "fetch", "stop", "find"}
GrantLabels == {"away", "exchange", "register", "listen", "wait", "trade", "granted"}
AccountLabels == {"agent", "session", "revoke", "disarm", "create", "link", "verify", "profile",
                  "rename", "mail", "password", "list"}
ProfileLabels == {"myname", "home", "setname", "profile?", "profile!", "finish", "store", "revoke row"}
TenantLabels == {"enrol", "whose", "mint", "disown", "permit", "judge"}
PolicyLabels == {"supersede", "insert"}
InstamartLabels == {"fill", "deliver", "price", "look", "terms", "pay", "unknown", "accepted",
                    "declined", "sent", "refused", "choose"}
LimiterLabels == {"count", "expire"}
SearchLabels == {"engine", "resolve", "keep", "browse"}
HookLabels == {"inbound"}

\* The program counters and the memories are one for each request,
Total == pc = [c \in Calls |-> pc[c]] /\ mem = [c \in Calls |-> mem[c]]

\* and a request is at a statement of a service only if it asked for its operation.
PlacedAt(op, label) ==
  /\ label \in BillingLabels => op \in BillingOps
  /\ label \in GrantLabels => op \in GrantOps
  /\ label \in AccountLabels => op \in AccountOps
  /\ label \in ProfileLabels => op \in ProfileOps
  /\ label \in TenantLabels => op \in TenantOps
  /\ label \in PolicyLabels => op \in Scopes
  /\ label \in InstamartLabels => op \in InstamartOps
  /\ label \in LimiterLabels => op \in LimiterOps
  /\ label \in SearchLabels => op \in SearchOps
  /\ label \in HookLabels => op \in HookOps

Placed == \A c \in Calls : PlacedAt(Op(c), pc[c])

RequestsOK == Total /\ Placed

\* A request goes to one of labels or ends.
Travels(c, labels) ==
  /\ pc' = [pc EXCEPT ![c] = pc'[c]] /\ mem' = [mem EXCEPT ![c] = mem'[c]]
  /\ pc'[c] \in labels \cup {"done"}

\* A step moves no request but one that asked for one of ops, to one of labels.
Moves(ops, labels) ==
  /\ job' = job
  /\ \A c \in Calls :
       \/ pc'[c] = pc[c] /\ mem'[c] = mem[c]
       \/ Op(c) \in ops /\ pc'[c] \in labels \cup {"done"}

LEMMA TravelMoves ==
  ASSUME Total, job' = job, NEW ops, NEW labels, NEW c \in Calls, Op(c) \in ops, Travels(c, labels)
  PROVE  Moves(ops, labels) /\ Total'
BY DEF Total, Travels, Moves

LEMMA FailTravels ==
  ASSUME Total, NEW c \in Calls, Fails(c), NEW labels
  PROVE  Travels(c, labels) /\ job' = job
BY DEF Total, Fails, Done, Keep, Travels

LEMMA StandsStill ==
  ASSUME Total, job' = job, UNCHANGED requests, NEW ops, NEW labels
  PROVE  Moves(ops, labels) /\ Total'
BY DEF Total, Moves, requests

LEMMA BillingMoves ==
  ASSUME RequestsOK, BillingNext PROVE Moves(BillingOps, BillingLabels) /\ Total'
<1> Total /\ Placed
  BY DEF RequestsOK
<1>1. ASSUME NEW c \in Calls, BillingStep(c) PROVE Op(c) \in BillingOps
  BY <1>1 DEF BillingStep, StartCheckout, SaveProviderPlanID, CreateSubscription,
     ConfirmCheckout, BillingStatus, GetSubscription, CancelSubscription, GatewayCancels,
     HandleWebhook, GetSubscriptionByProviderID, UpsertSubscription, At, BillingOps, Placed, PlacedAt,
     BillingLabels
<1>2. ASSUME NEW c \in Calls, BillingStep(c) PROVE Travels(c, BillingLabels)
  BY <1>2 DEF BillingStep, StartCheckout, SaveProviderPlanID, CreateSubscription,
     ConfirmCheckout, BillingStatus, GetSubscription, CancelSubscription, GatewayCancels,
     HandleWebhook, GetSubscriptionByProviderID, UpsertSubscription, Reads, At, Keep, Goto,
     Done, Total, Travels, BillingLabels
<1> QED BY <1>1, <1>2, TravelMoves, FailTravels, StandsStill DEF BillingNext

LEMMA GrantsMove ==
  ASSUME RequestsOK, CodeGrantsNext PROVE Moves(GrantOps, GrantLabels) /\ Total'
<1> Total /\ Placed
  BY DEF RequestsOK
<1>1. ASSUME NEW c \in Calls, 
             \/ OauthStart(c) \/ OauthCallback(c) \/ ExchangeProfile(c) \/ DiscoverServer(c)
                   \/ RegisterClient(c)
             \/ ShowURL(c) \/ TakeRedirect(c) \/ TimesOut(c) \/ ExchangeCode(c)
      PROVE Op(c) \in GrantOps
  BY <1>1 DEF OauthStart, OauthCallback, ExchangeProfile, DiscoverServer, RegisterClient,
     ShowURL, TakeRedirect, TimesOut, ExchangeCode, At, GrantOps, Placed, PlacedAt, GrantLabels
<1>2. ASSUME NEW c \in Calls, 
             \/ OauthStart(c) \/ OauthCallback(c) \/ ExchangeProfile(c) \/ DiscoverServer(c)
                   \/ RegisterClient(c)
             \/ ShowURL(c) \/ TakeRedirect(c) \/ TimesOut(c) \/ ExchangeCode(c)
      PROVE Travels(c, GrantLabels)
  BY <1>2 DEF OauthStart, OauthCallback, ExchangeProfile, DiscoverServer, RegisterClient,
     ShowURL, TakeRedirect, TimesOut, ExchangeCode, At, Keep, Goto, Done, Total, Travels,
     GrantLabels
<1>3. ASSUME NEW k \in Calls, Redirected(k), job' = job PROVE Moves(GrantOps, GrantLabels) /\ Total'
  <2>1. PICK c \in Listeners : /\ pc[c] = "wait" /\ mem[c].redirect = NONE
                               /\ Keep(c, [mem[c] EXCEPT !.redirect = k], "wait")
    BY <1>3 DEF Redirected
  <2>2. c \in Calls /\ Op(c) \in GrantOps
    BY <2>1 DEF Listeners, ByOp, GrantOps
  <2>3. Travels(c, GrantLabels)
    BY <2>1, <2>2 DEF Keep, Total, Travels, GrantLabels
  <2> QED BY <1>3, <2>2, <2>3, TravelMoves
<1>4. ASSUME NEW c \in Calls, UserAnswers(c) PROVE UNCHANGED requests
  BY <1>4 DEF UserAnswers
<1> QED BY <1>1, <1>2, <1>3, <1>4, TravelMoves, StandsStill DEF CodeGrantsNext

LEMMA AccountsMove ==
  ASSUME RequestsOK, AccountsNext PROVE Moves(AccountOps, AccountLabels) /\ Total'
<1> Total /\ Placed
  BY DEF RequestsOK
<1>1. ASSUME NEW c \in Calls, AccountsStep(c) \/ ErrorDropped(c) PROVE Op(c) \in AccountOps
  BY <1>1 DEF AccountsStep, SignUp, SignIn, SignInWithOAuth, CreateUser, LinkOAuthIdentity,
     MarkEmailVerified, FillProfile, CreateAgent, CreateSession, SignOut, RevokeSession,
     RevokeAgent, UndoAgent, UpdateName, UpdateUserProfile, RequestPasswordReset, SendMail,
     ResetPassword, SetPassword, ListSessions, PurgeExpired, ErrorDropped, At, AccountOps,
     Placed, PlacedAt, AccountLabels
<1>2. ASSUME NEW c \in Calls, AccountsStep(c) \/ ErrorDropped(c) PROVE Travels(c, AccountLabels)
  BY <1>2 DEF AccountsStep, SignUp, SignIn, SignInWithOAuth, CreateUser, LinkOAuthIdentity,
     MarkEmailVerified, FillProfile, CreateAgent, CreateSession, SignOut, RevokeSession,
     RevokeAgent, UndoAgent, UpdateName, UpdateUserProfile, RequestPasswordReset, SendMail,
     ResetPassword, SetPassword, ListSessions, PurgeExpired, ErrorDropped, NextSession, Drops,
     At, Keep, Goto, Done, Total, Travels, AccountLabels
<1>3. ASSUME NEW c \in Calls, ErrorDropped(c) PROVE job' = job
  BY <1>3 DEF ErrorDropped, Drops
<1>4. ASSUME NEW c \in Calls, TimePasses(c) PROVE job' = job /\ UNCHANGED requests
  BY <1>4 DEF TimePasses
<1>5. ASSUME NEW c \in Calls, Breaks(c) PROVE Op(c) \in AccountOps /\ Fails(c)
  BY <1>5 DEF Breaks
<1> QED
  BY <1>1, <1>2, <1>3, <1>4, <1>5, TravelMoves, FailTravels, StandsStill DEF AccountsNext

\* ProfilesNext without the account's own steps.
ProfilesOwn ==
  \/ \E c \in Calls :
       \/ ProfilesStep(c) /\ UNCHANGED <<job, cut>>
       \/ Op(c) \in ProfileOps /\ Fails(c) /\ UNCHANGED <<accountVars, profileVars>>
  \/ VaultForgets

LEMMA ProfilesMove ==
  ASSUME RequestsOK, ProfilesOwn PROVE Moves(ProfileOps, ProfileLabels) /\ Total'
<1> Total /\ Placed
  BY DEF RequestsOK
<1>1. ASSUME NEW c \in Calls, ProfilesStep(c) PROVE Op(c) \in ProfileOps
  BY <1>1 DEF ProfilesStep, SetGuardrails, Complete, ReadName, WriteName, StoreShipping,
     UpdateProfile, ReadProfile, WriteProfile, MarkOnboarded, AddCard, CreateSource,
     RevokeSource, RevokeRow, At, ProfileOps, Placed, PlacedAt, ProfileLabels
<1>2. ASSUME NEW c \in Calls, ProfilesStep(c) PROVE Travels(c, ProfileLabels)
  BY <1>2 DEF ProfilesStep, SetGuardrails, Complete, ReadName, WriteName, StoreShipping,
     UpdateProfile, ReadProfile, WriteProfile, MarkOnboarded, AddCard, CreateSource,
     RevokeSource, RevokeRow, At, Keep, Goto, Done, Total, Travels, ProfileLabels
<1>3. ASSUME VaultForgets PROVE job' = job /\ UNCHANGED requests
  BY <1>3 DEF VaultForgets
<1> QED BY <1>1, <1>2, <1>3, TravelMoves, FailTravels, StandsStill DEF ProfilesOwn

LEMMA TenantsMove ==
  ASSUME RequestsOK, TenantsNext PROVE Moves(TenantOps, TenantLabels) /\ Total'
<1> Total /\ Placed
  BY DEF RequestsOK
<1>1. ASSUME NEW c \in Calls, 
             \/ Register(c) \/ Close(c) \/ ResolveTenant(c) \/ Enrol(c) \/ CheckOwnUser(c) \/ MintOwn(c)
             \/ Mint(c) \/ ResolveAgent(c) \/ RequireOwnedIntent(c) \/ ResolveIntegrator(c)
                   \/ EvaluateTransaction(c) \/ LoadAgent(c) \/ Disown(c)
      PROVE Op(c) \in TenantOps
  BY <1>1 DEF Register, Close, ResolveTenant, Enrol, CheckOwnUser, MintOwn, Mint, ResolveAgent,
     RequireOwnedIntent, ResolveIntegrator, EvaluateTransaction, LoadAgent, Disown, At,
     TenantOps, Placed, PlacedAt, TenantLabels
<1>2. ASSUME NEW c \in Calls, 
             \/ Register(c) \/ Close(c) \/ ResolveTenant(c) \/ Enrol(c) \/ CheckOwnUser(c) \/ MintOwn(c)
             \/ Mint(c) \/ ResolveAgent(c) \/ RequireOwnedIntent(c) \/ ResolveIntegrator(c)
                   \/ EvaluateTransaction(c) \/ LoadAgent(c) \/ Disown(c)
      PROVE Travels(c, TenantLabels)
  BY <1>2 DEF Register, Close, ResolveTenant, Enrol, CheckOwnUser, MintOwn, Mint, ResolveAgent,
     RequireOwnedIntent, ResolveIntegrator, EvaluateTransaction, LoadAgent, Disown, At, Keep,
     Goto, Done, Total, Travels, TenantLabels
<1> QED BY <1>1, <1>2, TravelMoves, FailTravels DEF TenantsNext

LEMMA PoliciesMove ==
  ASSUME RequestsOK, PolicySetsNext PROVE Moves(Scopes, PolicyLabels) /\ Total'
<1> Total /\ Placed
  BY DEF RequestsOK
<1>1. ASSUME NEW c \in Calls, SetPolicy(c) \/ SupersedeActive(c) \/ CreatePolicySet(c) PROVE Op(c) \in Scopes
  BY <1>1 DEF SetPolicy, SupersedeActive, CreatePolicySet, At, Scopes, Placed, PlacedAt, PolicyLabels
<1>2. ASSUME NEW c \in Calls, SetPolicy(c) \/ SupersedeActive(c) \/ CreatePolicySet(c)
      PROVE Travels(c, PolicyLabels)
  BY <1>2 DEF SetPolicy, SupersedeActive, CreatePolicySet, At, Keep, Goto, Done, Total, Travels,
     PolicyLabels
<1> QED BY <1>1, <1>2, TravelMoves, FailTravels DEF PolicySetsNext

LEMMA InstamartMoves ==
  ASSUME RequestsOK, InstamartNext PROVE Moves(InstamartOps, InstamartLabels) /\ Total'
<1> Total /\ Placed
  BY DEF RequestsOK
<1>1. ASSUME NEW c \in Calls, InstamartStep(c) \/ AnswerLost(c) PROVE Op(c) \in InstamartOps
  BY <1>1 DEF InstamartStep, SearchProducts, SearchAnswered, SearchFails, Expired, CreateCart,
     AddToCart, GetDeliveryOptions, GetCheckoutQuote, ExecuteCheckout, LookAtCart, CheckTerms,
     Checkout, CheckoutUnlinked, CheckoutDeclined, InterpretCheckout, ClassifyFailure, Unlink,
     SaveLogin, ChooseAddress, AnswerLost, At, InstamartOps, Placed, PlacedAt, InstamartLabels
<1>2. ASSUME NEW c \in Calls, InstamartStep(c) \/ AnswerLost(c) PROVE Travels(c, InstamartLabels)
  BY <1>2 DEF InstamartStep, SearchProducts, SearchAnswered, SearchFails, Expired, CreateCart,
     AddToCart, GetDeliveryOptions, GetCheckoutQuote, ExecuteCheckout, LookAtCart, CheckTerms,
     Checkout, CheckoutUnlinked, CheckoutDeclined, InterpretCheckout, ClassifyFailure, Unlink,
     SaveLogin, ChooseAddress, AnswerLost, Answers, Drops, At, Keep, Goto, Done, Total, Travels,
     InstamartLabels
<1>3. ASSUME NEW c \in Calls, AnswerLost(c) PROVE job' = job
  BY <1>3 DEF AnswerLost, Drops
<1> QED BY <1>1, <1>2, <1>3, TravelMoves, FailTravels, StandsStill DEF InstamartNext

LEMMA LimiterMoves ==
  ASSUME RequestsOK, RateLimitNext PROVE Moves(LimiterOps, LimiterLabels) /\ Total'
<1> Total /\ Placed
  BY DEF RequestsOK
<1>1. ASSUME NEW c \in Calls, ArriveAtLimiter(c) \/ Allow(c) \/ SetExpiry(c) \/ FailOpen(c)
      PROVE Op(c) \in LimiterOps
  BY <1>1 DEF ArriveAtLimiter, Allow, SetExpiry, FailOpen, At, LimiterOps, Placed, PlacedAt, LimiterLabels
<1>2. ASSUME NEW c \in Calls, ArriveAtLimiter(c) \/ Allow(c) \/ SetExpiry(c) \/ FailOpen(c)
      PROVE Travels(c, LimiterLabels)
  BY <1>2 DEF ArriveAtLimiter, Allow, SetExpiry, FailOpen, NextKey, Drops, At, Keep, Goto, Done,
     Total, Travels, LimiterLabels
<1>3. ASSUME NEW c \in Calls, FailOpen(c) PROVE job' = job
  BY <1>3 DEF FailOpen, Drops
<1>4. ASSUME NEW k \in Keys, WindowPasses(k) PROVE job' = job /\ UNCHANGED requests
  BY <1>4 DEF WindowPasses
<1> QED BY <1>1, <1>2, <1>3, <1>4, TravelMoves, FailTravels, StandsStill DEF RateLimitNext, DiesInLimiter

LEMMA SearchMoves ==
  ASSUME RequestsOK, SearchNext PROVE Moves(SearchOps, SearchLabels) /\ Total'
<1> Total /\ Placed
  BY DEF RequestsOK
<1>1. ASSUME NEW c \in Calls, 
             \/ WebSearch(c) \/ CustomSearch(c) \/ GeminiSearch(c) \/ EngineFails(c) \/ Resolve(c)
             \/ Collect(c) \/ KeepAnswer(c) \/ BrowseShops(c) \/ BrowseShop(c) \/ ShowShops(c)
      PROVE Op(c) \in SearchOps
  BY <1>1 DEF WebSearch, CustomSearch, GeminiSearch, EngineFails, Resolve, Collect, KeepAnswer,
     BrowseShops, BrowseShop, ShowShops, At, SearchOps, Placed, PlacedAt, SearchLabels
<1>2. ASSUME NEW c \in Calls, 
             \/ WebSearch(c) \/ CustomSearch(c) \/ GeminiSearch(c) \/ EngineFails(c) \/ Resolve(c)
             \/ Collect(c) \/ KeepAnswer(c) \/ BrowseShops(c) \/ BrowseShop(c) \/ ShowShops(c)
      PROVE Travels(c, SearchLabels)
  BY <1>2 DEF WebSearch, CustomSearch, GeminiSearch, EngineFails, Resolve, Collect, KeepAnswer,
     BrowseShops, BrowseShop, ShowShops, AnswerWeb, At, Keep, Goto, Done, Total, Travels,
     SearchLabels
<1>3. ASSUME NEW k \in DOMAIN WebLimit, ForgetAnswer(k) PROVE UNCHANGED requests
  BY <1>3 DEF ForgetAnswer
<1> QED BY <1>1, <1>2, <1>3, TravelMoves, StandsStill DEF SearchNext

LEMMA HooksMove ==
  ASSUME RequestsOK, WebhooksNext PROVE Moves(HookOps, HookLabels) /\ Total'
<1> Total /\ Placed
  BY DEF RequestsOK
<1>1. ASSUME NEW c \in Calls, CreateEndpoint(c) \/ Dispatch(c) \/ Receive(c) \/ AnswerInbound(c)
             \/ DispatchFails(c) PROVE Op(c) \in HookOps
  BY <1>1 DEF CreateEndpoint, Dispatch, Receive, AnswerInbound, DispatchFails, At, HookOps,
     Placed, PlacedAt, HookLabels
<1>2. ASSUME NEW c \in Calls, CreateEndpoint(c) \/ Dispatch(c) \/ Receive(c) \/ AnswerInbound(c)
             \/ DispatchFails(c) PROVE Travels(c, HookLabels)
  BY <1>2 DEF CreateEndpoint, Dispatch, Receive, AnswerInbound, DispatchFails, At, Keep, Goto,
     Done, Total, Travels, HookLabels
<1>3. ASSUME NEW c \in Calls, DispatchFails(c) PROVE job' = job
  BY <1>3 DEF DispatchFails
<1>4. ASSUME \/ \E d \in sending : Delivered(d) \/ NotDelivered(d)
             \/ ForgetDeliveries
      PROVE  UNCHANGED requests
  BY <1>4 DEF Delivered, NotDelivered, ForgetDeliveries, Ends
<1> QED BY <1>1, <1>2, <1>3, <1>4, TravelMoves, FailTravels, StandsStill DEF WebhooksNext, HookFails, HookOps

\* Every request starts at a service's door or does not start.
LEMMA InitRequests == ASSUME Init PROVE RequestsOK
<1>1. /\ pc = [c \in Calls |-> IF Op(c) = "none" THEN "done" ELSE "idle"]
      /\ mem = [c \in Calls |-> NONE]
  BY DEF Init, RequestsInit
<1>2. \A c \in Calls : pc[c] \in {"idle", "done"}
  BY <1>1
<1> QED
  BY <1>1, <1>2 DEF RequestsOK, Total, Placed, PlacedAt, BillingLabels, GrantLabels, AccountLabels,
     ProfileLabels, TenantLabels, PolicyLabels, InstamartLabels, LimiterLabels, SearchLabels,
     HookLabels

\* A step is one service's, and leaves every request where it may be.
LEMMA StepRequests == ASSUME RequestsOK, [Next]_vars PROVE RequestsOK'
<1> USE DEF BillingLabels, GrantLabels, AccountLabels, ProfileLabels, TenantLabels,
     PolicyLabels, InstamartLabels, LimiterLabels, SearchLabels, HookLabels
<1>0. Placed /\ \A op : PlacedAt(op, "done")
  BY DEF RequestsOK, PlacedAt
<1>1. CASE BillingNext
  <2>1. Moves(BillingOps, BillingLabels) /\ Total'
    BY <1>1, BillingMoves
  <2>2. ASSUME NEW op \in BillingOps, NEW label \in BillingLabels PROVE PlacedAt(op, label)
    BY DEF PlacedAt
  <2> QED BY <1>0, <2>1, <2>2 DEF Placed, Moves, Op, RequestsOK
<1>2. CASE CodeGrantsNext
  <2>1. Moves(GrantOps, GrantLabels) /\ Total'
    BY <1>2, GrantsMove
  <2>2. ASSUME NEW op \in GrantOps, NEW label \in GrantLabels PROVE PlacedAt(op, label)
    BY DEF PlacedAt
  <2> QED BY <1>0, <2>1, <2>2 DEF Placed, Moves, Op, RequestsOK
<1>3. CASE AccountsNext
  <2>1. Moves(AccountOps, AccountLabels) /\ Total'
    BY <1>3, AccountsMove
  <2>2. ASSUME NEW op \in AccountOps, NEW label \in AccountLabels PROVE PlacedAt(op, label)
    BY DEF PlacedAt
  <2> QED BY <1>0, <2>1, <2>2 DEF Placed, Moves, Op, RequestsOK
<1>4. CASE ProfilesOwn
  <2>1. Moves(ProfileOps, ProfileLabels) /\ Total'
    BY <1>4, ProfilesMove
  <2>2. ASSUME NEW op \in ProfileOps, NEW label \in ProfileLabels PROVE PlacedAt(op, label)
    BY DEF PlacedAt
  <2> QED BY <1>0, <2>1, <2>2 DEF Placed, Moves, Op, RequestsOK
<1>5. CASE TenantsNext
  <2>1. Moves(TenantOps, TenantLabels) /\ Total'
    BY <1>5, TenantsMove
  <2>2. ASSUME NEW op \in TenantOps, NEW label \in TenantLabels PROVE PlacedAt(op, label)
    BY DEF PlacedAt
  <2> QED BY <1>0, <2>1, <2>2 DEF Placed, Moves, Op, RequestsOK
<1>6. CASE PolicySetsNext
  <2>1. Moves(Scopes, PolicyLabels) /\ Total'
    BY <1>6, PoliciesMove
  <2>2. ASSUME NEW op \in Scopes, NEW label \in PolicyLabels PROVE PlacedAt(op, label)
    BY DEF PlacedAt
  <2> QED BY <1>0, <2>1, <2>2 DEF Placed, Moves, Op, RequestsOK
<1>7. CASE InstamartNext
  <2>1. Moves(InstamartOps, InstamartLabels) /\ Total'
    BY <1>7, InstamartMoves
  <2>2. ASSUME NEW op \in InstamartOps, NEW label \in InstamartLabels PROVE PlacedAt(op, label)
    BY DEF PlacedAt
  <2> QED BY <1>0, <2>1, <2>2 DEF Placed, Moves, Op, RequestsOK
<1>8. CASE RateLimitNext
  <2>1. Moves(LimiterOps, LimiterLabels) /\ Total'
    BY <1>8, LimiterMoves
  <2>2. ASSUME NEW op \in LimiterOps, NEW label \in LimiterLabels PROVE PlacedAt(op, label)
    BY DEF PlacedAt
  <2> QED BY <1>0, <2>1, <2>2 DEF Placed, Moves, Op, RequestsOK
<1>9. CASE SearchNext
  <2>1. Moves(SearchOps, SearchLabels) /\ Total'
    BY <1>9, SearchMoves
  <2>2. ASSUME NEW op \in SearchOps, NEW label \in SearchLabels PROVE PlacedAt(op, label)
    BY DEF PlacedAt
  <2> QED BY <1>0, <2>1, <2>2 DEF Placed, Moves, Op, RequestsOK
<1>10. CASE WebhooksNext
  <2>1. Moves(HookOps, HookLabels) /\ Total'
    BY <1>10, HooksMove
  <2>2. ASSUME NEW op \in HookOps, NEW label \in HookLabels PROVE PlacedAt(op, label)
    BY DEF PlacedAt
  <2> QED BY <1>0, <2>1, <2>2 DEF Placed, Moves, Op, RequestsOK
<1>11. CASE UNCHANGED vars
  BY <1>11 DEF RequestsOK, Total, Placed, Op, vars, requests
<1> QED
  BY <1>1, <1>2, <1>3, <1>4, <1>5, <1>6, <1>7, <1>8, <1>9, <1>10, <1>11 DEF Next, ProfilesNext, ProfilesOwn

\* A request at a statement of a service asked for that service's operation.
THEOREM RequestsAreSorted == Spec => []RequestsOK
BY InitRequests, StepRequests, PTL DEF Spec

-------------------------------------------------------------------------------
(* What the other services leave alone.                                        *)

\* No request that asked for one of ops moves, and none comes to one of labels or waits
\* there with something else in its memory.
Stays(ops, labels) ==
  \A c \in Calls : Op(c) \in ops \/ pc'[c] \in labels \cup {"idle"} =>
    pc'[c] = pc[c] /\ mem'[c] = mem[c]

LEMMA LabelsApart ==
  /\ \A l \in BillingLabels : /\ l \notin GrantLabels /\ l \notin AccountLabels
                              /\ l \notin ProfileLabels /\ l \notin TenantLabels
                              /\ l \notin PolicyLabels /\ l \notin InstamartLabels
                              /\ l \notin LimiterLabels /\ l \notin SearchLabels /\ l \notin HookLabels
                              /\ l # "done"
  /\ \A l \in GrantLabels : /\ l \notin BillingLabels /\ l \notin AccountLabels
                            /\ l \notin ProfileLabels /\ l \notin TenantLabels
                            /\ l \notin PolicyLabels /\ l \notin InstamartLabels
                            /\ l \notin LimiterLabels /\ l \notin SearchLabels /\ l \notin HookLabels
                            /\ l # "done"
  /\ \A l \in AccountLabels : /\ l \notin BillingLabels /\ l \notin GrantLabels
                              /\ l \notin ProfileLabels /\ l \notin TenantLabels
                              /\ l \notin PolicyLabels /\ l \notin InstamartLabels
                              /\ l \notin LimiterLabels /\ l \notin SearchLabels /\ l \notin HookLabels
                              /\ l # "done"
  /\ \A l \in ProfileLabels : /\ l \notin BillingLabels /\ l \notin GrantLabels
                              /\ l \notin AccountLabels /\ l \notin TenantLabels
                              /\ l \notin PolicyLabels /\ l \notin InstamartLabels
                              /\ l \notin LimiterLabels /\ l \notin SearchLabels /\ l \notin HookLabels
                              /\ l # "done"
  /\ \A l \in TenantLabels : /\ l \notin BillingLabels /\ l \notin GrantLabels
                             /\ l \notin AccountLabels /\ l \notin ProfileLabels
                             /\ l \notin PolicyLabels /\ l \notin InstamartLabels
                             /\ l \notin LimiterLabels /\ l \notin SearchLabels /\ l \notin HookLabels
                             /\ l # "done"
  /\ \A l \in PolicyLabels : /\ l \notin BillingLabels /\ l \notin GrantLabels
                             /\ l \notin AccountLabels /\ l \notin ProfileLabels /\ l \notin TenantLabels
                             /\ l \notin InstamartLabels /\ l \notin LimiterLabels
                             /\ l \notin SearchLabels /\ l \notin HookLabels /\ l # "done"
  /\ \A l \in InstamartLabels : /\ l \notin BillingLabels /\ l \notin GrantLabels
                                /\ l \notin AccountLabels /\ l \notin ProfileLabels /\ l \notin TenantLabels
                                /\ l \notin PolicyLabels /\ l \notin LimiterLabels
                                /\ l \notin SearchLabels /\ l \notin HookLabels /\ l # "done"
  /\ \A l \in LimiterLabels : /\ l \notin BillingLabels /\ l \notin GrantLabels
                              /\ l \notin AccountLabels /\ l \notin ProfileLabels /\ l \notin TenantLabels
                              /\ l \notin PolicyLabels /\ l \notin InstamartLabels
                              /\ l \notin SearchLabels /\ l \notin HookLabels /\ l # "done"
  /\ \A l \in SearchLabels : /\ l \notin BillingLabels /\ l \notin GrantLabels
                             /\ l \notin AccountLabels /\ l \notin ProfileLabels /\ l \notin TenantLabels
                             /\ l \notin PolicyLabels /\ l \notin InstamartLabels
                             /\ l \notin LimiterLabels /\ l \notin HookLabels /\ l # "done"
  /\ \A l \in HookLabels : /\ l \notin BillingLabels /\ l \notin GrantLabels /\ l \notin AccountLabels
                           /\ l \notin ProfileLabels /\ l \notin TenantLabels
                           /\ l \notin PolicyLabels /\ l \notin InstamartLabels
                           /\ l \notin LimiterLabels /\ l \notin SearchLabels /\ l # "done"
  /\ "idle" \notin BillingLabels /\ "idle" \notin GrantLabels /\ "idle" \notin AccountLabels
  /\ "idle" \notin ProfileLabels /\ "idle" \notin TenantLabels
  /\ "idle" \notin PolicyLabels /\ "idle" \notin InstamartLabels /\ "idle" \notin LimiterLabels
  /\ "idle" \notin SearchLabels /\ "idle" \notin HookLabels
BY DEF BillingLabels, GrantLabels, AccountLabels, ProfileLabels, TenantLabels, PolicyLabels,
     InstamartLabels, LimiterLabels, SearchLabels, HookLabels

LEMMA OpsApart ==
  /\ \A o \in BillingOps : /\ o \notin GrantOps /\ o \notin AccountOps /\ o \notin ProfileOps
                           /\ o \notin TenantOps /\ o \notin Scopes
                           /\ o \notin InstamartOps /\ o \notin LimiterOps /\ o \notin SearchOps
                           /\ o \notin HookOps
  /\ \A o \in AccountOps \ GrantOps : /\ o \notin BillingOps /\ o \notin GrantOps
                                      /\ o \notin ProfileOps /\ o \notin TenantOps /\ o \notin Scopes
                                      /\ o \notin InstamartOps /\ o \notin LimiterOps
                                      /\ o \notin SearchOps /\ o \notin HookOps
  /\ \A o \in ProfileOps : /\ o \notin BillingOps /\ o \notin GrantOps /\ o \notin AccountOps
                           /\ o \notin TenantOps /\ o \notin Scopes
                           /\ o \notin InstamartOps /\ o \notin LimiterOps /\ o \notin SearchOps
                           /\ o \notin HookOps
  /\ \A o \in TenantOps : /\ o \notin BillingOps /\ o \notin GrantOps /\ o \notin AccountOps
                          /\ o \notin ProfileOps /\ o \notin Scopes
                          /\ o \notin InstamartOps /\ o \notin LimiterOps /\ o \notin SearchOps
                          /\ o \notin HookOps
  /\ \A o \in Scopes : /\ o \notin BillingOps /\ o \notin GrantOps /\ o \notin AccountOps
                       /\ o \notin ProfileOps /\ o \notin TenantOps
                       /\ o \notin InstamartOps /\ o \notin LimiterOps /\ o \notin SearchOps
                       /\ o \notin HookOps
  /\ \A o \in InstamartOps \ GrantOps : /\ o \notin BillingOps /\ o \notin GrantOps
                                        /\ o \notin AccountOps /\ o \notin ProfileOps /\ o \notin TenantOps
                                        /\ o \notin Scopes /\ o \notin LimiterOps /\ o \notin SearchOps
                                        /\ o \notin HookOps
  /\ \A o \in LimiterOps : /\ o \notin BillingOps /\ o \notin GrantOps /\ o \notin AccountOps
                           /\ o \notin ProfileOps /\ o \notin TenantOps
                           /\ o \notin Scopes /\ o \notin InstamartOps /\ o \notin SearchOps
                           /\ o \notin HookOps
  /\ \A o \in SearchOps : /\ o \notin BillingOps /\ o \notin GrantOps /\ o \notin AccountOps
                          /\ o \notin ProfileOps /\ o \notin TenantOps
                          /\ o \notin Scopes /\ o \notin InstamartOps /\ o \notin LimiterOps
                          /\ o \notin HookOps
  /\ \A o \in HookOps : /\ o \notin BillingOps /\ o \notin GrantOps /\ o \notin AccountOps
                        /\ o \notin ProfileOps /\ o \notin TenantOps
                        /\ o \notin Scopes /\ o \notin InstamartOps /\ o \notin LimiterOps
                        /\ o \notin SearchOps
<1> USE SearchOpsAssumption DEF BillingOps, GrantOps, AccountOps, ProfileOps, TenantOps, Scopes,
        InstamartOps, LimiterOps, SearchOps, HookOps
<1>1. ASSUME NEW o \in BillingOps
      PROVE  /\ o \notin GrantOps /\ o \notin AccountOps /\ o \notin ProfileOps /\ o \notin TenantOps
             /\ o \notin Scopes
             /\ o \notin InstamartOps /\ o \notin LimiterOps /\ o \notin SearchOps /\ o \notin HookOps
  OBVIOUS
<1>2. ASSUME NEW o \in AccountOps \ GrantOps
      PROVE  /\ o \notin BillingOps /\ o \notin GrantOps /\ o \notin ProfileOps /\ o \notin TenantOps
             /\ o \notin Scopes
             /\ o \notin InstamartOps /\ o \notin LimiterOps /\ o \notin SearchOps /\ o \notin HookOps
  OBVIOUS
<1>3. ASSUME NEW o \in ProfileOps
      PROVE  /\ o \notin BillingOps /\ o \notin GrantOps /\ o \notin AccountOps /\ o \notin TenantOps
             /\ o \notin Scopes
             /\ o \notin InstamartOps /\ o \notin LimiterOps /\ o \notin SearchOps /\ o \notin HookOps
  OBVIOUS
<1>4. ASSUME NEW o \in TenantOps
      PROVE  /\ o \notin BillingOps /\ o \notin GrantOps /\ o \notin AccountOps /\ o \notin ProfileOps
             /\ o \notin Scopes
             /\ o \notin InstamartOps /\ o \notin LimiterOps /\ o \notin SearchOps /\ o \notin HookOps
  OBVIOUS
<1>5. ASSUME NEW o \in Scopes
      PROVE  /\ o \notin BillingOps /\ o \notin GrantOps /\ o \notin AccountOps /\ o \notin ProfileOps
             /\ o \notin TenantOps
             /\ o \notin InstamartOps /\ o \notin LimiterOps /\ o \notin SearchOps /\ o \notin HookOps
  OBVIOUS
<1>6. ASSUME NEW o \in InstamartOps \ GrantOps
      PROVE  /\ o \notin BillingOps /\ o \notin GrantOps /\ o \notin AccountOps /\ o \notin ProfileOps
             /\ o \notin TenantOps
             /\ o \notin Scopes /\ o \notin LimiterOps /\ o \notin SearchOps /\ o \notin HookOps
  OBVIOUS
<1>7. ASSUME NEW o \in LimiterOps
      PROVE  /\ o \notin BillingOps /\ o \notin GrantOps /\ o \notin AccountOps /\ o \notin ProfileOps
             /\ o \notin TenantOps
             /\ o \notin Scopes /\ o \notin InstamartOps /\ o \notin SearchOps /\ o \notin HookOps
  OBVIOUS
<1>8. ASSUME NEW o \in SearchOps
      PROVE  /\ o \notin BillingOps /\ o \notin GrantOps /\ o \notin AccountOps /\ o \notin ProfileOps
             /\ o \notin TenantOps
             /\ o \notin Scopes /\ o \notin InstamartOps /\ o \notin LimiterOps /\ o \notin HookOps
  OBVIOUS
<1>9. ASSUME NEW o \in HookOps
      PROVE  /\ o \notin BillingOps /\ o \notin GrantOps /\ o \notin AccountOps /\ o \notin ProfileOps
             /\ o \notin TenantOps
             /\ o \notin Scopes /\ o \notin InstamartOps /\ o \notin LimiterOps /\ o \notin SearchOps
  OBVIOUS
<1> HIDE SearchOpsAssumption DEF BillingOps, GrantOps, AccountOps, ProfileOps, TenantOps, Scopes,
         InstamartOps, LimiterOps, SearchOps, HookOps
<1> QED BY <1>1, <1>2, <1>3, <1>4, <1>5, <1>6, <1>7, <1>8, <1>9

LEMMA MovesStay ==
  ASSUME NEW theirs, NEW mine, "idle" \notin mine, Moves(theirs, mine), NEW ops, NEW labels,
         \A o \in ops : o \notin theirs,
         \A l \in labels : l \notin mine /\ l # "done"
  PROVE  Stays(ops, labels) /\ job' = job
BY DEF Moves, Stays

\* A step is one service's, and the others' requests and tables are as they were.
LEMMA OthersStay ==
  ASSUME RequestsOK, [Next]_vars
  PROVE  /\ job' = job
         /\ BillingNext \/ (Stays(BillingOps, BillingLabels) /\ UNCHANGED billingVars)
         /\ CodeGrantsNext \/ (Stays({}, GrantLabels) /\ UNCHANGED grantVars)
         /\ AccountsNext \/ Stays(AccountOps \ GrantOps, AccountLabels)
         /\ ProfilesOwn \/ (Stays(ProfileOps, ProfileLabels) /\ UNCHANGED profileVars)
         /\ TenantsNext \/ (Stays(TenantOps, TenantLabels) /\ UNCHANGED tenantVars)
         /\ PolicySetsNext \/ (Stays(Scopes, PolicyLabels) /\ UNCHANGED policyVars)
         /\ InstamartNext \/ (Stays(InstamartOps \ GrantOps, InstamartLabels) /\ UNCHANGED instamartVars)
         /\ RateLimitNext \/ (Stays(LimiterOps, LimiterLabels) /\ UNCHANGED limiterVars)
         /\ SearchNext \/ (Stays(SearchOps, SearchLabels) /\ UNCHANGED searchVars)
         /\ WebhooksNext \/ (Stays(HookOps, HookLabels) /\ UNCHANGED hookVars)
<1> USE LabelsApart, OpsApart
<1>1. CASE /\ BillingNext
          /\ UNCHANGED <<grantVars, profileVars, tenantVars, policyVars, instamartVars, limiterVars,
                searchVars, hookVars>>
  <2>1. Moves(BillingOps, BillingLabels)
    BY <1>1, BillingMoves
  <2>2. Stays({}, GrantLabels) /\ Stays(AccountOps \ GrantOps, AccountLabels)
        /\ Stays(ProfileOps, ProfileLabels) /\ Stays(TenantOps, TenantLabels) /\ Stays(Scopes, PolicyLabels)
    BY <2>1, MovesStay
  <2>3. Stays(InstamartOps \ GrantOps, InstamartLabels) /\ Stays(LimiterOps, LimiterLabels)
        /\ Stays(SearchOps, SearchLabels) /\ Stays(HookOps, HookLabels) /\ job' = job
    BY <2>1, MovesStay
  <2> QED BY <1>1, <2>2, <2>3
<1>2. CASE /\ CodeGrantsNext
          /\ UNCHANGED <<billingVars, profileVars, tenantVars, policyVars, instamartVars, limiterVars,
                searchVars, hookVars>>
  <2>1. Moves(GrantOps, GrantLabels)
    BY <1>2, GrantsMove
  <2>2. Stays(BillingOps, BillingLabels) /\ Stays(AccountOps \ GrantOps, AccountLabels)
        /\ Stays(ProfileOps, ProfileLabels) /\ Stays(TenantOps, TenantLabels) /\ Stays(Scopes, PolicyLabels)
    BY <2>1, MovesStay
  <2>3. Stays(InstamartOps \ GrantOps, InstamartLabels) /\ Stays(LimiterOps, LimiterLabels)
        /\ Stays(SearchOps, SearchLabels) /\ Stays(HookOps, HookLabels) /\ job' = job
    BY <2>1, MovesStay
  <2> QED BY <1>2, <2>2, <2>3
<1>3. CASE /\ AccountsNext
          /\ UNCHANGED <<billingVars, grantVars, profileVars, tenantVars, policyVars, instamartVars,
                limiterVars, searchVars, hookVars>>
  <2>1. Moves(AccountOps, AccountLabels)
    BY <1>3, AccountsMove
  <2>2. Stays(BillingOps, BillingLabels) /\ Stays({}, GrantLabels) /\ Stays(ProfileOps, ProfileLabels)
        /\ Stays(TenantOps, TenantLabels) /\ Stays(Scopes, PolicyLabels)
    BY <2>1, MovesStay
  <2>3. Stays(InstamartOps \ GrantOps, InstamartLabels) /\ Stays(LimiterOps, LimiterLabels)
        /\ Stays(SearchOps, SearchLabels) /\ Stays(HookOps, HookLabels) /\ job' = job
    BY <2>1, MovesStay
  <2> QED BY <1>3, <2>2, <2>3
<1>4. CASE /\ ProfilesOwn
          /\ UNCHANGED <<billingVars, grantVars, tenantVars, policyVars, instamartVars, limiterVars,
                searchVars, hookVars>>
  <2>1. Moves(ProfileOps, ProfileLabels)
    BY <1>4, ProfilesMove
  <2>2. Stays(BillingOps, BillingLabels) /\ Stays({}, GrantLabels)
        /\ Stays(AccountOps \ GrantOps, AccountLabels) /\ Stays(TenantOps, TenantLabels)
        /\ Stays(Scopes, PolicyLabels)
    BY <2>1, MovesStay
  <2>3. Stays(InstamartOps \ GrantOps, InstamartLabels) /\ Stays(LimiterOps, LimiterLabels)
        /\ Stays(SearchOps, SearchLabels) /\ Stays(HookOps, HookLabels) /\ job' = job
    BY <2>1, MovesStay
  <2> QED BY <1>4, <2>2, <2>3
<1>5. CASE /\ TenantsNext
          /\ UNCHANGED <<billingVars, grantVars, profileVars, policyVars, instamartVars, limiterVars,
                searchVars, hookVars>>
  <2>1. Moves(TenantOps, TenantLabels)
    BY <1>5, TenantsMove
  <2>2. Stays(BillingOps, BillingLabels) /\ Stays({}, GrantLabels)
        /\ Stays(AccountOps \ GrantOps, AccountLabels) /\ Stays(ProfileOps, ProfileLabels)
        /\ Stays(Scopes, PolicyLabels)
    BY <2>1, MovesStay
  <2>3. Stays(InstamartOps \ GrantOps, InstamartLabels) /\ Stays(LimiterOps, LimiterLabels)
        /\ Stays(SearchOps, SearchLabels) /\ Stays(HookOps, HookLabels) /\ job' = job
    BY <2>1, MovesStay
  <2> QED BY <1>5, <2>2, <2>3
<1>6. CASE /\ PolicySetsNext
          /\ UNCHANGED <<billingVars, grantVars, profileVars, tenantVars, instamartVars, limiterVars,
                searchVars, hookVars>>
  <2>1. Moves(Scopes, PolicyLabels)
    BY <1>6, PoliciesMove
  <2>2. Stays(BillingOps, BillingLabels) /\ Stays({}, GrantLabels)
        /\ Stays(AccountOps \ GrantOps, AccountLabels) /\ Stays(ProfileOps, ProfileLabels)
        /\ Stays(TenantOps, TenantLabels)
    BY <2>1, MovesStay
  <2>3. Stays(InstamartOps \ GrantOps, InstamartLabels) /\ Stays(LimiterOps, LimiterLabels)
        /\ Stays(SearchOps, SearchLabels) /\ Stays(HookOps, HookLabels) /\ job' = job
    BY <2>1, MovesStay
  <2> QED BY <1>6, <2>2, <2>3
<1>7. CASE /\ InstamartNext
          /\ UNCHANGED <<billingVars, grantVars, profileVars, tenantVars, policyVars, limiterVars,
                searchVars, hookVars>>
  <2>1. Moves(InstamartOps, InstamartLabels)
    BY <1>7, InstamartMoves
  <2>2. Stays(BillingOps, BillingLabels) /\ Stays({}, GrantLabels)
        /\ Stays(AccountOps \ GrantOps, AccountLabels) /\ Stays(ProfileOps, ProfileLabels)
        /\ Stays(TenantOps, TenantLabels)
    BY <2>1, MovesStay
  <2>3. Stays(Scopes, PolicyLabels) /\ Stays(LimiterOps, LimiterLabels)
        /\ Stays(SearchOps, SearchLabels) /\ Stays(HookOps, HookLabels) /\ job' = job
    BY <2>1, MovesStay
  <2> QED BY <1>7, <2>2, <2>3
<1>8. CASE /\ RateLimitNext
          /\ UNCHANGED <<billingVars, grantVars, profileVars, tenantVars, policyVars, instamartVars,
                searchVars, hookVars>>
  <2>1. Moves(LimiterOps, LimiterLabels)
    BY <1>8, LimiterMoves
  <2>2. Stays(BillingOps, BillingLabels) /\ Stays({}, GrantLabels)
        /\ Stays(AccountOps \ GrantOps, AccountLabels) /\ Stays(ProfileOps, ProfileLabels)
        /\ Stays(TenantOps, TenantLabels)
    BY <2>1, MovesStay
  <2>3. Stays(Scopes, PolicyLabels) /\ Stays(InstamartOps \ GrantOps, InstamartLabels)
        /\ Stays(SearchOps, SearchLabels) /\ Stays(HookOps, HookLabels) /\ job' = job
    BY <2>1, MovesStay
  <2> QED BY <1>8, <2>2, <2>3
<1>9. CASE /\ SearchNext
          /\ UNCHANGED <<billingVars, grantVars, profileVars, tenantVars, policyVars, instamartVars,
                limiterVars, hookVars>>
  <2>1. Moves(SearchOps, SearchLabels)
    BY <1>9, SearchMoves
  <2>2. Stays(BillingOps, BillingLabels) /\ Stays({}, GrantLabels)
        /\ Stays(AccountOps \ GrantOps, AccountLabels) /\ Stays(ProfileOps, ProfileLabels)
        /\ Stays(TenantOps, TenantLabels)
    BY <2>1, MovesStay
  <2>3. Stays(Scopes, PolicyLabels) /\ Stays(InstamartOps \ GrantOps, InstamartLabels)
        /\ Stays(LimiterOps, LimiterLabels) /\ Stays(HookOps, HookLabels) /\ job' = job
    BY <2>1, MovesStay
  <2> QED BY <1>9, <2>2, <2>3
<1>10. CASE /\ WebhooksNext
          /\ UNCHANGED <<billingVars, grantVars, profileVars, tenantVars, policyVars, instamartVars,
                limiterVars, searchVars>>
  <2>1. Moves(HookOps, HookLabels)
    BY <1>10, HooksMove
  <2>2. Stays(BillingOps, BillingLabels) /\ Stays({}, GrantLabels)
        /\ Stays(AccountOps \ GrantOps, AccountLabels) /\ Stays(ProfileOps, ProfileLabels)
        /\ Stays(TenantOps, TenantLabels)
    BY <2>1, MovesStay
  <2>3. Stays(Scopes, PolicyLabels) /\ Stays(InstamartOps \ GrantOps, InstamartLabels)
        /\ Stays(LimiterOps, LimiterLabels) /\ Stays(SearchOps, SearchLabels) /\ job' = job
    BY <2>1, MovesStay
  <2> QED BY <1>10, <2>2, <2>3
<1>11. CASE UNCHANGED vars
  <2>1. job' = job /\ \A c \in Calls : pc'[c] = pc[c] /\ mem'[c] = mem[c]
    BY <1>11 DEF vars, requests
  <2> QED BY <1>11, <2>1 DEF Stays, vars, services
<1> QED
  BY <1>1, <1>2, <1>3, <1>4, <1>5, <1>6, <1>7, <1>8, <1>9, <1>10, <1>11
     DEF Next, ProfilesNext, ProfilesOwn

-------------------------------------------------------------------------------
(* Code grants.  The state has been compared by the time a code is posted.     *)

GrantsOK ==
  /\ CodesAreOwn
  /\ \A c \in Calls : /\ pc[c] = "exchange" => mem[c] = c
                      /\ pc[c] = "trade" => mem[c].redirect = c

LEMMA GrantsStep == ASSUME RequestsOK, GrantsOK, CodeGrantsNext PROVE GrantsOK'
<1> Total
  BY DEF RequestsOK
<1>1. ASSUME NEW c \in Calls, UserAnswers(c) PROVE GrantsOK'
  BY <1>1 DEF UserAnswers, requests, GrantsOK, CodesAreOwn
<1>2. ASSUME NEW c \in Calls, Travels(c, GrantLabels), posted' = posted, pc'[c] \notin {"exchange", "trade"}
      PROVE GrantsOK'
  BY <1>2 DEF Travels, Total, GrantsOK, CodesAreOwn
<1>3. ASSUME NEW c \in Calls,
             \/ OauthStart(c) \/ DiscoverServer(c) \/ RegisterClient(c) \/ ShowURL(c) \/ TimesOut(c)
      PROVE  GrantsOK'
  <2>1. posted' = posted
    BY <1>3 DEF OauthStart, DiscoverServer, RegisterClient, ShowURL, TimesOut, grantVars
  <2>2. pc'[c] \notin {"exchange", "trade"}
    BY <1>3 DEF OauthStart, DiscoverServer, RegisterClient, ShowURL, TimesOut, At, Keep, Goto,
       Done, Total
  <2>3. Travels(c, GrantLabels)
    BY <1>3 DEF OauthStart, DiscoverServer, RegisterClient, ShowURL, TimesOut, At, Keep, Goto,
       Done, Total, Travels, GrantLabels
  <2> QED BY <1>2, <2>1, <2>2, <2>3
<1>4. ASSUME NEW c \in Calls, OauthCallback(c) PROVE GrantsOK'
  BY <1>4 DEF OauthCallback, VerifyState, Keep, Done, Total, GrantsOK, CodesAreOwn
<1>5. ASSUME NEW c \in Calls, ExchangeProfile(c) PROVE GrantsOK'
  BY <1>5 DEF ExchangeProfile, At, Keep, Goto, Done, Total, GrantsOK, CodesAreOwn
<1>6. ASSUME NEW k \in Calls, Redirected(k) PROVE GrantsOK'
  BY <1>6 DEF Redirected, Listeners, ByOp, Keep, Total, grantVars, GrantsOK, CodesAreOwn
<1>7. ASSUME NEW c \in Calls, TakeRedirect(c) PROVE GrantsOK'
  BY <1>7 DEF TakeRedirect, StateEqual, Keep, Goto, Done, Total, grantVars, GrantsOK, CodesAreOwn
<1>8. ASSUME NEW c \in Calls, ExchangeCode(c) PROVE GrantsOK'
  BY <1>8 DEF ExchangeCode, At, Keep, Done, Total, GrantsOK, CodesAreOwn
<1> QED BY <1>1, <1>3, <1>4, <1>5, <1>6, <1>7, <1>8 DEF CodeGrantsNext

LEMMA GrantsHold == Spec => []GrantsOK
<1>1. Init => GrantsOK
  BY InitRequests DEF Init, RequestsInit, CodeGrantsInit, GrantsOK, CodesAreOwn
<1>2. ASSUME RequestsOK, GrantsOK, [Next]_vars PROVE GrantsOK'
  <2>1. CASE CodeGrantsNext
    BY <1>2, <2>1, GrantsStep
  <2>2. CASE Stays({}, GrantLabels) /\ UNCHANGED grantVars
    BY <1>2, <2>2 DEF Stays, GrantLabels, grantVars, GrantsOK, CodesAreOwn
  <2> QED BY <1>2, <2>1, <2>2, OthersStay
<1> QED BY <1>1, <1>2, RequestsAreSorted, PTL DEF Spec

\* Whatever the tabs of a browser and the runs of cmd/merchant-login do to the cookie and
\* the port they share, a code goes to a token endpoint from its own attempt.
THEOREM CodesStayOwn == Spec => []CodesAreOwn
<1>1. GrantsOK => CodesAreOwn
  BY DEF GrantsOK
<1> QED BY <1>1, GrantsHold, PTL

-------------------------------------------------------------------------------
(* Billing.  What is paid stays paid and what has ended stays ended, so that a *)
(* status is true of its subscription however late it is written to the row.   *)

\* A status that was once the subscription's, of the gateway's g.
BackedBy(g, id, status) ==
  /\ id \in Calls /\ g[id] # NONE
  /\ Grants(status) => g[id].paid
  /\ Terminal(status) => Terminal(g[id].status)
Backed(id, status) == BackedBy(gateway, id, status)

\* The subscription a new one takes the place of was unfinished a day after it was made, or
\* has ended.
TakenOver(row) ==
  row # NONE => /\ row.id \in Calls /\ gateway[row.id] # NONE
                /\ \/ row.status = "created" /\ row.id \in lapsed
                   \/ Terminal(gateway[row.id].status)

BillingCallOK(c) ==
  /\ pc[c] \in {"idle", "plan", "subscribe"} => gateway[c] = NONE
  /\ pc[c] \in {"plan", "subscribe"} =>
       /\ mem[c] = [read |-> mem[c].read, plan |-> mem[c].plan]
       /\ TakenOver(mem[c].read)
       /\ Op(c) = "checkout"
  /\ pc[c] = "subscribe" => mem[c].plan \in Calls
  /\ pc[c] \in {"fetch", "stop", "save"} =>
       /\ mem[c] = [row |-> mem[c].row, read |-> mem[c].read, event |-> mem[c].event]
       /\ mem[c].row \in Subscription
       /\ Backed(mem[c].row.id, mem[c].row.status)
       /\ mem[c].event \in recorded \cup {NONE}
       /\ IF Op(c) = "checkout" THEN mem[c].row.id = c /\ TakenOver(mem[c].read)
                                ELSE mem[c].read # NONE /\ mem[c].read.id = mem[c].row.id
  /\ pc[c] = "fetch" /\ Op(c) = "confirm" => gateway[mem[c].row.id].paid
  /\ pc[c] = "find" => mem[c] \in recorded /\ Op(c) = "event"

BillingTablesOK ==
  /\ gateway = [s \in Calls |-> gateway[s]]
  /\ planId \in Calls \cup {NONE}
  /\ sub # NONE => Backed(sub.id, sub.status)
  /\ \A e \in notices : Backed(e.of, e.status)
  /\ \A s \in Calls : gateway[s] # NONE =>
       /\ Grants(gateway[s].status) => gateway[s].paid
       /\ gateway[s].paid => s \in offered
  /\ \A s \in offered \ (abandoned \cup clobbered) :
       (sub # NONE /\ sub.id = s) \/ Terminal(gateway[s].status)

BillingOK == BillingTypeOK /\ BillingTablesOK /\ \A c \in Calls : BillingCallOK(c)

\* What a billing step never takes back.
BillingGrows ==
  /\ \A s \in Calls : gateway[s] # NONE =>
       /\ gateway'[s] # NONE
       /\ gateway[s].paid => gateway'[s].paid
       /\ Terminal(gateway[s].status) => Terminal(gateway'[s].status)
  /\ recorded \subseteq recorded' /\ lapsed \subseteq lapsed'

LEMMA BackedStays ==
  ASSUME BillingGrows, NEW id, NEW status, Backed(id, status)
  PROVE  Backed(id, status)'
BY DEF BillingGrows, Backed, BackedBy

LEMMA BillingCallStays ==
  ASSUME BillingOK, BillingGrows, job' = job, NEW c \in Calls, pc'[c] = pc[c], mem'[c] = mem[c],
         gateway[c] = NONE => gateway'[c] = NONE
  PROVE  BillingCallOK(c)'
<1>1. BillingCallOK(c)
  BY DEF BillingOK
<1>2. TakenOver(mem[c].read) => TakenOver(mem[c].read)'
  BY DEF TakenOver, BillingGrows
<1>3. pc[c] \in {"fetch", "stop", "save"} => Backed(mem[c].row.id, mem[c].row.status)'
  BY <1>1 DEF BillingCallOK, Backed, BackedBy, BillingGrows
<1>4. pc[c] \in {"fetch", "stop", "save"} =>
        mem[c].row.id \in Calls /\ gateway[mem[c].row.id] # NONE
  BY <1>1 DEF BillingCallOK, Backed, BackedBy
<1> QED BY <1>1, <1>2, <1>3, <1>4 DEF BillingCallOK, BillingGrows, Op

LEMMA BillingMoved ==
  ASSUME RequestsOK, BillingOK, BillingGrows, job' = job, NEW c \in Calls, Travels(c, BillingLabels),
         \A d \in Calls \ {c} : gateway[d] = NONE => gateway'[d] = NONE,
         BillingTypeOK', BillingTablesOK', BillingCallOK(c)'
  PROVE  BillingOK'
<1>1. ASSUME NEW d \in Calls, d # c PROVE BillingCallOK(d)'
  BY <1>1, BillingCallStays DEF RequestsOK, Total, Travels
<1> QED BY <1>1 DEF BillingOK

\* A step that only reads.
LEMMA BillingRead ==
  ASSUME RequestsOK, BillingOK, UNCHANGED billingVars, job' = job, NEW c \in Calls,
         Travels(c, BillingLabels), BillingCallOK(c)'
  PROVE  BillingOK'
<1>1. BillingGrows
  BY DEF BillingGrows, billingVars
<1>2. BillingTypeOK' /\ BillingTablesOK'
  BY DEF BillingOK, BillingTypeOK, BillingTablesOK, Backed, BackedBy, billingVars
<1> QED BY <1>1, <1>2, BillingMoved DEF billingVars

LEMMA CheckoutKeeps ==
  ASSUME RequestsOK, BillingOK, NEW c \in Calls, StartCheckout(c), job' = job PROVE BillingOK'
<1> Total /\ BillingTypeOK /\ BillingTablesOK /\ BillingCallOK(c)
  BY DEF RequestsOK, BillingOK
<1>1. Travels(c, BillingLabels)
  BY DEF StartCheckout, Keep, Done, Total, Travels, BillingLabels
<1>2. BillingGrows /\ gateway' = gateway
  BY DEF StartCheckout, billingRows, BillingGrows
<1>3. BillingTypeOK'
  BY DEF StartCheckout, Unfinished, billingRows, BillingTypeOK, BillingTablesOK, Backed, BackedBy,
       Subscription
<1>4. BillingTablesOK'
  BY DEF StartCheckout, Unfinished, billingRows, BillingTablesOK, Backed, BackedBy
<1>5. BillingCallOK(c)'
  <2>1. CASE Unfinished(sub)
    BY <2>1 DEF StartCheckout, Done, Keep, Total, BillingCallOK
  <2>2. CASE ~Unfinished(sub)
    <3>1. TakenOver(sub)
      BY <2>2 DEF StartCheckout, Unfinished, TakenOver, BillingTablesOK, BillingTypeOK, Backed, BackedBy,
         Subscription, Status, Grants, Terminal
    <3>2. mem'[c] = [read |-> sub, plan |-> planId] /\ pc'[c] \in {"plan", "subscribe"}
      BY <2>2 DEF StartCheckout, Keep, Total
    <3>3. pc'[c] = "subscribe" => planId \in Calls
      BY <2>2 DEF StartCheckout, Keep, Total, BillingTablesOK
    <3>4. gateway[c] = NONE
      BY DEF StartCheckout, At, BillingCallOK
    <3> QED BY <1>2, <3>1, <3>2, <3>3, <3>4 DEF StartCheckout, BillingCallOK, TakenOver, At, Op
  <2> QED BY <2>1, <2>2
<1> QED BY <1>1, <1>2, <1>3, <1>4, <1>5, BillingMoved

LEMMA PlanKeeps ==
  ASSUME RequestsOK, BillingOK, NEW c \in Calls, SaveProviderPlanID(c), job' = job PROVE BillingOK'
<1> Total /\ BillingTypeOK /\ BillingTablesOK /\ BillingCallOK(c)
  BY DEF RequestsOK, BillingOK
<1> UNCHANGED <<sub, recorded, gateway, notices, acked, offered, lapsed, abandoned, clobbered>>
  BY DEF SaveProviderPlanID, billingWorld
<1>1. Travels(c, BillingLabels)
  BY DEF SaveProviderPlanID, Keep, Total, Travels, BillingLabels
<1>2. BillingGrows
  BY DEF BillingGrows
<1>3. BillingTypeOK' /\ BillingTablesOK'
  BY DEF SaveProviderPlanID, BillingTypeOK, BillingTablesOK, Backed, BackedBy
<1>4. mem'[c] = [mem[c] EXCEPT !.plan = c] /\ pc'[c] = "subscribe" /\ pc[c] = "plan"
  BY DEF SaveProviderPlanID, Keep, Total
<1>5. mem'[c] = [read |-> mem[c].read, plan |-> c] /\ TakenOver(mem[c].read) /\ gateway[c] = NONE
  BY <1>4 DEF BillingCallOK
<1>6. BillingCallOK(c)'
  BY <1>4, <1>5 DEF BillingCallOK, TakenOver, Op
<1> QED BY <1>1, <1>2, <1>3, <1>6, BillingMoved

LEMMA SubscriptionKeeps ==
  ASSUME RequestsOK, BillingOK, NEW c \in Calls, CreateSubscription(c), job' = job PROVE BillingOK'
<1> Total /\ BillingTypeOK /\ BillingTablesOK /\ BillingCallOK(c) /\ pc[c] = "subscribe"
  BY DEF RequestsOK, BillingOK, CreateSubscription
<1> DEFINE new == [status |-> "created", ending |-> FALSE, paid |-> FALSE, plan |-> mem[c].plan]
           row == [id |-> c, status |-> "created", ending |-> FALSE]
<1>1. UNCHANGED <<sub, planId, recorded, notices, acked, offered, lapsed, abandoned, clobbered>>
  BY DEF CreateSubscription, billingRows
<1>2. /\ gateway' = [gateway EXCEPT ![c] = new] /\ gateway'[c] = new
      /\ \A s \in Calls \ {c} : gateway'[s] = gateway[s]
  BY DEF CreateSubscription, BillingTablesOK
<1>3. gateway[c] = NONE
  BY DEF BillingCallOK
<1>4. new \in GatewaySubscription /\ new # NONE /\ row \in Subscription
  <2>1. new \in GatewaySubscription /\ row \in Subscription
    BY DEF BillingCallOK, GatewaySubscription, Subscription, Status
  <2> QED BY <2>1, NoSubscriptionAssumption
<1>5. /\ pc'[c] = "save" /\ mem'[c] = [row |-> row, read |-> mem[c].read, event |-> NONE]
      /\ Travels(c, BillingLabels)
  BY DEF CreateSubscription, Keep, Total, Travels, BillingLabels
<1>6. BillingGrows
  BY <1>1, <1>2, <1>3 DEF BillingGrows
<1>7. BillingTypeOK'
  BY <1>1, <1>2, <1>4 DEF BillingTypeOK
<1>8. BillingTablesOK'
  <2>1. /\ gateway' = [s \in Calls |-> gateway'[s]] /\ planId' \in Calls \cup {NONE}
        /\ sub' # NONE => Backed(sub.id, sub.status)'
        /\ \A e \in notices' : Backed(e.of, e.status)'
    BY <1>1, <1>2, <1>6 DEF BillingTablesOK, Backed, BackedBy, BillingGrows
  <2>2. \A s \in Calls : gateway'[s] # NONE =>
       /\ Grants(gateway'[s].status) => gateway'[s].paid
       /\ gateway'[s].paid => s \in offered'
    BY <1>1, <1>2, <1>3 DEF BillingTablesOK, Grants
  <2>3. \A s \in offered' \ (abandoned' \cup clobbered') :
          (sub' # NONE /\ sub'.id = s) \/ Terminal(gateway'[s].status)
    BY <1>1, <1>2, <1>3 DEF BillingTablesOK, BillingTypeOK
  <2> QED BY <1>1, <2>1, <2>2, <2>3 DEF BillingTablesOK, Backed, BackedBy
<1>9. BillingCallOK(c)'
  <2>1. TakenOver(mem[c].read)'
    BY <1>1, <1>2, <1>3, <1>5 DEF BillingCallOK, TakenOver
  <2>2. Backed(c, "created")'
    BY <1>2, <1>4 DEF Backed, BackedBy, Grants, Terminal
  <2> QED BY <1>1, <1>4, <1>5, <2>1, <2>2 DEF BillingCallOK, Op
<1> QED BY <1>1, <1>2, <1>5, <1>6, <1>7, <1>8, <1>9, BillingMoved

LEMMA ReadsKeep ==
  ASSUME RequestsOK, BillingOK, NEW c \in Calls, job' = job,
         ConfirmCheckout(c) \/ BillingStatus(c) \/ CancelSubscription(c)
  PROVE  BillingOK'
<1> Total /\ BillingTypeOK /\ BillingTablesOK
  BY DEF RequestsOK, BillingOK
<1>1. /\ UNCHANGED billingVars /\ sub # NONE /\ Op(c) # "checkout"
      /\ pc'[c] \in {"fetch", "stop"} /\ mem'[c] = [row |-> sub, read |-> sub, event |-> NONE]
      /\ Travels(c, BillingLabels)
  BY DEF ConfirmCheckout, BillingStatus, CancelSubscription, At, Reads, Keep, Total, Travels,
     BillingLabels
<1>2. Op(c) = "confirm" => gateway[sub.id].paid
  BY DEF ConfirmCheckout, BillingStatus, CancelSubscription, At, VerifySubscriptionPayment
<1>3. sub \in Subscription /\ Backed(sub.id, sub.status)
  BY <1>1 DEF BillingTypeOK, BillingTablesOK
<1>4. BillingCallOK(c)'
  BY <1>1, <1>2, <1>3 DEF BillingCallOK, Backed, BackedBy, Op, billingVars
<1> QED BY <1>1, <1>4, BillingRead

\* The gateway's status is its own, and a row that had one keeps what was true of it.
LEMMA ApplyKeeps ==
  ASSUME NEW row \in Subscription, NEW status \in Status, Backed(row.id, row.status),
         Backed(row.id, status)
  PROVE  /\ ApplyGateway(row, status) \in Subscription
         /\ ApplyGateway(row, status).id = row.id
         /\ Backed(row.id, ApplyGateway(row, status).status)
BY DEF ApplyGateway, Subscription, Terminal

LEMMA FetchKeeps ==
  ASSUME RequestsOK, BillingOK, NEW c \in Calls, GetSubscription(c), job' = job PROVE BillingOK'
<1> Total /\ BillingTypeOK /\ BillingTablesOK /\ BillingCallOK(c) /\ pc[c] = "fetch"
  BY DEF RequestsOK, BillingOK, GetSubscription
<1> DEFINE m == mem[c]
           row == ApplyGateway(m.row, gateway[m.row.id].status)
           new == IF Op(c) = "confirm" /\ row.status = "created"
                    THEN [row EXCEPT !.status = "authenticated"] ELSE row
<1>1. /\ m = [row |-> m.row, read |-> m.read, event |-> m.event]
      /\ m.row \in Subscription /\ Backed(m.row.id, m.row.status)
      /\ m.event \in recorded \cup {NONE}
      /\ IF Op(c) = "checkout" THEN m.row.id = c /\ TakenOver(m.read)
                               ELSE m.read # NONE /\ m.read.id = m.row.id
      /\ Op(c) = "confirm" => gateway[m.row.id].paid
  BY DEF BillingCallOK
<1>2. gateway[m.row.id].status \in Status /\ Backed(m.row.id, gateway[m.row.id].status)
  BY <1>1 DEF Backed, BackedBy, BillingTypeOK, BillingTablesOK, GatewaySubscription
<1>3. row \in Subscription /\ row.id = m.row.id /\ Backed(m.row.id, row.status)
  BY <1>1, <1>2, ApplyKeeps
<1>4. new \in Subscription /\ new.id = m.row.id /\ Backed(m.row.id, new.status)
  BY <1>1, <1>3 DEF Subscription, Status, Backed, BackedBy, Grants, Terminal
<1>5. /\ UNCHANGED billingVars /\ pc'[c] = "save"
      /\ mem'[c] = [m EXCEPT !.row = new]
      /\ Travels(c, BillingLabels)
  BY DEF GetSubscription, Keep, Total, Travels, BillingLabels
<1>6. mem'[c] = [row |-> new, read |-> m.read, event |-> m.event]
  BY <1>1, <1>5
<1> HIDE DEF new
<1>7. BillingCallOK(c)'
  BY <1>1, <1>4, <1>5, <1>6 DEF BillingCallOK, Backed, BackedBy, TakenOver, Op, billingVars
<1> QED BY <1>5, <1>7, BillingRead

LEMMA CancelKeeps ==
  ASSUME RequestsOK, BillingOK, NEW c \in Calls, GatewayCancels(c), job' = job PROVE BillingOK'
<1> Total /\ BillingTypeOK /\ BillingTablesOK /\ BillingCallOK(c) /\ pc[c] = "stop"
  BY DEF RequestsOK, BillingOK, GatewayCancels
<1> DEFINE m == mem[c]
           s == m.row.id
           atEnd == m.row.status \in {"active", "pending"}
           status == IF atEnd THEN gateway[s].status ELSE "cancelled"
           row == ApplyGateway(m.row, status)
           new == [row EXCEPT !.ending = atEnd]
<1>1. /\ m = [row |-> m.row, read |-> m.read, event |-> m.event]
      /\ m.row \in Subscription /\ Backed(s, m.row.status) /\ s \in Calls
      /\ m.event \in recorded \cup {NONE}
      /\ IF Op(c) = "checkout" THEN s = c /\ TakenOver(m.read)
                               ELSE m.read # NONE /\ m.read.id = s
  BY DEF BillingCallOK, Subscription
<1>2. gateway[s] # NONE /\ gateway[s] \in GatewaySubscription
  BY <1>1 DEF Backed, BackedBy, BillingTypeOK
<1>3. Travels(c, BillingLabels)
  BY DEF GatewayCancels, Done, Keep, Total, Travels, BillingLabels
<1>4. CASE Terminal(gateway[s].status)
  <2>1. UNCHANGED billingVars /\ pc'[c] = "done"
    BY <1>4 DEF GatewayCancels, Done, Keep, Total, billingVars, billingRows
  <2> QED BY <1>3, <2>1, BillingRead DEF BillingCallOK
<1>5. CASE ~Terminal(gateway[s].status)
  <2>1. /\ UNCHANGED <<sub, planId, recorded, acked, offered, lapsed, abandoned, clobbered>>
        /\ pc'[c] = "save" /\ mem'[c] = [m EXCEPT !.row = new]
    BY <1>5 DEF GatewayCancels, Keep, Total, billingRows
  <2>2. /\ \A t \in Calls \ {s} : gateway'[t] = gateway[t]
        /\ gateway'[s] = [gateway[s] EXCEPT !.status = status, !.ending = atEnd]
        /\ gateway' = [t \in Calls |-> gateway'[t]]
    <3>1. gateway' = [gateway EXCEPT ![s] = [@ EXCEPT !.status = status, !.ending = atEnd]]
      BY <1>5 DEF GatewayCancels
    <3>2. gateway = [t \in Calls |-> gateway[t]] /\ s \in Calls
      BY <1>1 DEF BillingTablesOK
    <3> HIDE DEF status, atEnd
    <3> QED BY <3>1, <3>2
  <2>3. notices' = IF atEnd THEN notices
                       ELSE notices \cup {[of |-> s, was |-> gateway[s].status, status |-> status]}
    BY <1>5 DEF GatewayCancels, Event
  <2>4. status \in Status /\ (Terminal(status) \/ status = gateway[s].status)
    BY <1>2 DEF GatewaySubscription, Status, Terminal
  <2> HIDE DEF status, atEnd
  <2>5. atEnd \in BOOLEAN
    BY DEF atEnd
  <2>6. /\ gateway'[s] \in GatewaySubscription /\ gateway'[s].status = status
        /\ gateway'[s].paid = gateway[s].paid
    BY <1>2, <2>2, <2>4, <2>5 DEF GatewaySubscription
  <2>7. gateway'[s] # NONE
    BY <2>6, NoSubscriptionAssumption
  <2>8. BillingGrows
    BY <1>5, <2>1, <2>2, <2>6, <2>7 DEF BillingGrows
  <2>9. /\ Grants(gateway'[s].status) => gateway'[s].paid
        /\ BackedBy(gateway', s, status)
    BY <1>1, <1>2, <2>4, <2>6, <2>7 DEF BillingTablesOK, Backed, BackedBy, Grants, Terminal
  <2>10. BillingTypeOK'
    <3>1. notices' \subseteq [of : Calls, was : Status, status : Status]
      BY <1>1, <1>2, <2>3, <2>4 DEF BillingTypeOK, GatewaySubscription
    <3> QED BY <2>1, <2>2, <2>3, <2>6, <2>7, <3>1 DEF BillingTypeOK
  <2>11. BillingTablesOK'
    <3>1. \A e \in notices : BackedBy(gateway', e.of, e.status)
      BY <2>8 DEF BillingTablesOK, Backed, BackedBy, BillingGrows
    <3>2. \A e \in notices' : BackedBy(gateway', e.of, e.status)
      BY <2>3, <2>9, <3>1
    <3>3. sub' # NONE => Backed(sub.id, sub.status)'
      BY <2>1, <2>8 DEF BillingTablesOK, Backed, BackedBy, BillingGrows
    <3>4. \A t \in Calls : gateway'[t] # NONE =>
            /\ Grants(gateway'[t].status) => gateway'[t].paid
            /\ gateway'[t].paid => t \in offered'
      BY <1>2, <2>1, <2>2, <2>6, <2>9 DEF BillingTablesOK
    <3>5. \A t \in offered' \ (abandoned' \cup clobbered') :
            (sub' # NONE /\ sub'.id = t) \/ Terminal(gateway'[t].status)
      BY <2>1, <2>8 DEF BillingTablesOK, BillingTypeOK, BillingGrows
    <3> QED BY <2>1, <2>2, <3>2, <3>3, <3>4, <3>5 DEF BillingTablesOK, Backed
  <2>12. new \in Subscription /\ new.id = s /\ BackedBy(gateway', s, new.status)
    <3>1. row \in Subscription /\ row.id = s /\ row.status \in {status, m.row.status}
      BY <1>1, <2>4 DEF ApplyGateway, Subscription
    <3>2. new \in Subscription /\ new.id = s /\ new.status \in {status, m.row.status}
      BY <2>5, <3>1 DEF Subscription
    <3>3. BackedBy(gateway', s, m.row.status)
      BY <1>1, <2>1, <2>8 DEF Backed, BackedBy, BillingGrows
    <3> QED BY <2>9, <3>2, <3>3
  <2>13. mem'[c] = [row |-> new, read |-> m.read, event |-> m.event]
    BY <1>1, <2>1
  <2> HIDE DEF new
  <2>14. Op(c) = "checkout" => TakenOver(m.read)'
    BY <1>1, <2>1, <2>8, <2>13 DEF TakenOver, BillingGrows
  <2>15. BillingCallOK(c)'
    BY <1>1, <2>1, <2>12, <2>13, <2>14 DEF BillingCallOK, Backed, Op
  <2> QED BY <1>2, <1>3, <2>2, <2>8, <2>10, <2>11, <2>15, BillingMoved
<1> QED BY <1>4, <1>5

LEMMA EventKeeps ==
  ASSUME RequestsOK, BillingOK, NEW c \in Calls, HandleWebhook(c), job' = job PROVE BillingOK'
<1> Total /\ BillingTypeOK /\ BillingTablesOK
  BY DEF RequestsOK, BillingOK
<1>1. PICK e \in notices :
        IF e \in recorded
          THEN acked' = acked \cup {e} /\ Done(c) /\ UNCHANGED recorded
          ELSE recorded' = recorded \cup {e} /\ Keep(c, e, "find") /\ UNCHANGED acked
  BY DEF HandleWebhook
<1>2. UNCHANGED <<sub, planId, gateway, notices, offered, lapsed, abandoned, clobbered>> /\ Op(c) = "event"
  BY DEF HandleWebhook, At
<1>3. Travels(c, BillingLabels)
  BY <1>1 DEF Done, Keep, Total, Travels, BillingLabels
<1>4. BillingGrows
  BY <1>1, <1>2 DEF BillingGrows
<1>5. BillingTypeOK' /\ BillingTablesOK'
  BY <1>1, <1>2 DEF BillingTypeOK, BillingTablesOK, Backed
<1>6. BillingCallOK(c)'
  BY <1>1, <1>2 DEF Done, Keep, Total, BillingCallOK, Op
<1> QED BY <1>2, <1>3, <1>4, <1>5, <1>6, BillingMoved

LEMMA FindKeeps ==
  ASSUME RequestsOK, BillingOK, NEW c \in Calls, GetSubscriptionByProviderID(c), job' = job
  PROVE  BillingOK'
<1> Total /\ BillingTypeOK /\ BillingTablesOK /\ BillingCallOK(c) /\ pc[c] = "find"
  BY DEF RequestsOK, BillingOK, GetSubscriptionByProviderID
<1> DEFINE e == mem[c]
<1>1. e \in recorded /\ e \in notices /\ Op(c) = "event" /\ Backed(e.of, e.status) /\ e.status \in Status
  BY DEF BillingCallOK, BillingTypeOK, BillingTablesOK
<1>2. UNCHANGED <<sub, planId, recorded, gateway, notices, offered, lapsed, abandoned, clobbered>>
  BY DEF GetSubscriptionByProviderID, billingRows
<1>3. BillingGrows
  BY <1>2 DEF BillingGrows
<1>4. BillingTypeOK' /\ BillingTablesOK'
  BY <1>1, <1>2 DEF GetSubscriptionByProviderID, BillingTypeOK, BillingTablesOK, Backed
<1>5. Travels(c, BillingLabels)
  BY DEF GetSubscriptionByProviderID, Done, Keep, Total, Travels, BillingLabels
<1>6. BillingCallOK(c)'
  <2>1. CASE sub # NONE /\ sub.id = e.of
    <3>1. sub \in Subscription /\ Backed(sub.id, sub.status) /\ Backed(sub.id, e.status)
      BY <1>1, <2>1 DEF BillingTypeOK, BillingTablesOK
    <3>2. PICK row : row = ApplyGateway(sub, e.status)
      OBVIOUS
    <3>3. row \in Subscription /\ row.id = sub.id /\ Backed(sub.id, row.status)
      BY <1>1, <3>1, <3>2, ApplyKeeps
    <3>4. pc'[c] = "save" /\ mem'[c] = [row |-> row, read |-> sub, event |-> e]
      BY <2>1, <3>2 DEF GetSubscriptionByProviderID, Keep, Total
    <3> QED BY <1>1, <1>2, <2>1, <3>3, <3>4 DEF BillingCallOK, Backed, Op
  <2>2. CASE ~(sub # NONE /\ sub.id = e.of)
    BY <2>2 DEF GetSubscriptionByProviderID, Done, Keep, Total, BillingCallOK
  <2> QED BY <2>1, <2>2
<1> QED BY <1>2, <1>3, <1>4, <1>5, <1>6, BillingMoved

\* The row is replaced: a payable subscription it named is on record as replaced unread, or
\* the new one takes its place.
LEMMA UpsertKeeps ==
  ASSUME RequestsOK, BillingOK, NEW c \in Calls, UpsertSubscription(c), job' = job PROVE BillingOK'
<1> Total /\ BillingTypeOK /\ BillingTablesOK /\ BillingCallOK(c) /\ pc[c] = "save"
  BY DEF RequestsOK, BillingOK, UpsertSubscription
<1> DEFINE m == mem[c]
           over == IF sub = NONE \/ sub.id = m.row.id THEN {} ELSE {sub.id}
           known == IF m.read = NONE THEN {} ELSE {m.read.id}
<1>1. /\ m.row \in Subscription /\ Backed(m.row.id, m.row.status)
      /\ m.event \in recorded \cup {NONE}
      /\ IF Op(c) = "checkout" THEN m.row.id = c /\ TakenOver(m.read)
                               ELSE m.read # NONE /\ m.read.id = m.row.id
  BY DEF BillingCallOK
<1>2. /\ UNCHANGED <<planId, recorded, gateway, notices, lapsed>>
      /\ sub' = m.row
      /\ offered' = IF Op(c) = "checkout" THEN offered \cup {c} ELSE offered
      /\ acked' = acked \cup ({m.event} \ {NONE})
      /\ clobbered' = clobbered \cup (over \ known)
      /\ abandoned' = IF m.read # NONE /\ m.read.status = "created"
                        THEN abandoned \cup (over \cap known \cap lapsed) ELSE abandoned
  BY DEF UpsertSubscription
<1>3. Travels(c, BillingLabels) /\ pc'[c] = "done"
  BY DEF UpsertSubscription, Done, Keep, Total, Travels
<1>4. BillingGrows
  BY <1>2 DEF BillingGrows
<1>5. m.row.id \in Calls /\ gateway[m.row.id] # NONE
  BY <1>1 DEF Backed, BackedBy
<1>6. BillingTypeOK'
  <2>1. offered' \cup lapsed' \cup abandoned' \cup clobbered' \subseteq {s \in Calls : gateway'[s] # NONE}
    BY <1>1, <1>2, <1>5 DEF BillingTypeOK, BillingTablesOK, Backed, BackedBy
  <2> QED BY <1>1, <1>2, <2>1 DEF BillingTypeOK
<1>7. \A s \in offered' \ (abandoned' \cup clobbered') :
         (sub' # NONE /\ sub'.id = s) \/ Terminal(gateway'[s].status)
  <2> SUFFICES ASSUME NEW s \in offered', s \notin abandoned', s \notin clobbered', sub'.id # s
               PROVE  Terminal(gateway[s].status)
    <3>1. sub' # NONE
      BY <1>1, <1>2, NoSubscriptionAssumption
    <3> QED BY <1>2, <3>1
  <2>1. s \in offered
    BY <1>1, <1>2
  <2>2. (sub # NONE /\ sub.id = s) \/ Terminal(gateway[s].status)
    BY <1>2, <2>1 DEF BillingTablesOK
  <2>3. CASE sub # NONE /\ sub.id = s
    <3>1. m.row.id # s /\ over = {s} /\ s \in known
      BY <1>2, <2>3
    <3>2. m.read # NONE /\ m.read.id = s
      BY <3>1
    <3>3. ~(m.read.status = "created" /\ s \in lapsed)
      BY <1>2, <3>1, <3>2
    <3> QED BY <1>1, <3>1, <3>2, <3>3 DEF TakenOver
  <2> QED BY <2>2, <2>3
<1>8. BillingTablesOK'
  BY <1>1, <1>2, <1>7 DEF BillingTablesOK, Backed
<1>9. BillingCallOK(c)'
  BY <1>3 DEF BillingCallOK
<1> QED BY <1>2, <1>3, <1>4, <1>6, <1>8, <1>9, BillingMoved

LEMMA BillingFailKeeps ==
  ASSUME RequestsOK, BillingOK, NEW c \in Calls, Op(c) \in BillingOps, Fails(c), UNCHANGED billingVars
  PROVE  BillingOK'
<1>1. Travels(c, BillingLabels) /\ job' = job
  BY FailTravels DEF RequestsOK
<1>2. BillingCallOK(c)'
  BY DEF Fails, Done, Keep, BillingCallOK, RequestsOK, Total
<1> QED BY <1>1, <1>2, BillingRead

\* What the gateway, its user and time do.
LEMMA GatewayKeeps ==
  ASSUME RequestsOK, BillingOK, UNCHANGED <<job, requests>>,
         BillingGrows, BillingTypeOK', BillingTablesOK',
         \A s \in Calls : gateway[s] = NONE => gateway'[s] = NONE
  PROVE  BillingOK'
BY BillingCallStays DEF BillingOK, requests

LEMMA PaymentKeeps ==
  ASSUME RequestsOK, BillingOK, NEW s \in Calls, UserPays(s), UNCHANGED <<job, requests>>
  PROVE  BillingOK'
<1> BillingTypeOK /\ BillingTablesOK
  BY DEF BillingOK
<1>1. UNCHANGED <<sub, planId, recorded, notices, acked, offered, lapsed, abandoned, clobbered>>
  BY DEF UserPays, billingRows
<1>2. gateway[s] # NONE /\ gateway[s] \in GatewaySubscription /\ s \in offered
  BY DEF UserPays, BillingTypeOK
<1>3. /\ \A t \in Calls \ {s} : gateway'[t] = gateway[t]
      /\ gateway'[s] = [gateway[s] EXCEPT !.paid = TRUE]
      /\ gateway' = [t \in Calls |-> gateway'[t]]
  BY DEF UserPays, BillingTablesOK
<1>4. gateway'[s] \in GatewaySubscription /\ gateway'[s].status = gateway[s].status /\ gateway'[s].paid
  BY <1>2, <1>3 DEF GatewaySubscription
<1>5. gateway'[s] # NONE
  BY <1>4, NoSubscriptionAssumption
<1>6. BillingGrows
  BY <1>1, <1>3, <1>4, <1>5 DEF BillingGrows
<1>7. BillingTypeOK'
  BY <1>1, <1>3, <1>4, <1>5 DEF BillingTypeOK
<1>8. BillingTablesOK'
  BY <1>1, <1>2, <1>3, <1>4, <1>6 DEF BillingTablesOK, BillingTypeOK, Backed, BackedBy, BillingGrows
<1> QED BY <1>2, <1>3, <1>6, <1>7, <1>8, GatewayKeeps

LEMMA GatewayMoveKeeps ==
  ASSUME RequestsOK, BillingOK, NEW s \in Calls, NEW to \in Status, GatewayMoves(s, to),
         UNCHANGED <<job, requests>>
  PROVE  BillingOK'
<1> BillingTypeOK /\ BillingTablesOK
  BY DEF BillingOK
<1>1. /\ UNCHANGED <<sub, planId, recorded, acked, offered, lapsed, abandoned, clobbered>>
      /\ notices' = notices \cup {[of |-> s, was |-> gateway[s].status, status |-> to]}
  BY DEF GatewayMoves, Event, billingRows
<1>2. gateway[s] # NONE /\ gateway[s] \in GatewaySubscription
  BY DEF GatewayMoves, BillingTypeOK
<1>3. /\ \A t \in Calls \ {s} : gateway'[t] = gateway[t]
      /\ gateway'[s] = [gateway[s] EXCEPT !.status = to]
      /\ gateway' = [t \in Calls |-> gateway'[t]]
  BY DEF GatewayMoves, BillingTablesOK
<1>4. /\ gateway'[s] \in GatewaySubscription /\ gateway'[s].status = to
      /\ gateway'[s].paid = gateway[s].paid
  BY <1>2, <1>3 DEF GatewaySubscription
<1>5. gateway'[s] # NONE
  BY <1>4, NoSubscriptionAssumption
<1>6. ~Terminal(gateway[s].status) /\ (Grants(to) => gateway[s].paid)
  BY <1>2 DEF GatewayMoves, GatewaySubscription, Status, Terminal, Grants, BillingTablesOK
<1>7. BillingGrows
  BY <1>1, <1>3, <1>4, <1>5, <1>6 DEF BillingGrows
<1>8. BillingTypeOK'
  BY <1>1, <1>2, <1>3, <1>4, <1>5 DEF BillingTypeOK, GatewaySubscription
<1>9. BillingTablesOK'
  <2>1. BackedBy(gateway', s, to)
    BY <1>4, <1>5, <1>6 DEF BackedBy
  <2>2. \A e \in notices' : BackedBy(gateway', e.of, e.status)
    BY <1>1, <1>7, <2>1 DEF BillingTablesOK, Backed, BackedBy, BillingGrows
  <2>3. sub' # NONE => BackedBy(gateway', sub'.id, sub'.status)
    BY <1>1, <1>7 DEF BillingTablesOK, Backed, BackedBy, BillingGrows
  <2> QED
    BY <1>1, <1>2, <1>3, <1>4, <1>6, <1>7, <2>2, <2>3
       DEF BillingTablesOK, BillingTypeOK, Backed, BillingGrows
<1> QED BY <1>2, <1>3, <1>7, <1>8, <1>9, GatewayKeeps

LEMMA DayKeeps ==
  ASSUME RequestsOK, BillingOK, NEW s \in Calls, DayPasses(s), UNCHANGED <<job, requests>>
  PROVE  BillingOK'
<1> BillingTypeOK /\ BillingTablesOK
  BY DEF BillingOK
<1>1. /\ UNCHANGED <<sub, planId, recorded, gateway, notices, acked, offered, abandoned, clobbered>>
      /\ gateway[s] # NONE /\ lapsed' = lapsed \cup {s}
  BY DEF DayPasses, billingRows
<1>2. BillingGrows
  BY <1>1 DEF BillingGrows
<1>3. BillingTypeOK' /\ BillingTablesOK'
  BY <1>1 DEF BillingTypeOK, BillingTablesOK, Backed
<1> QED BY <1>1, <1>2, <1>3, GatewayKeeps

LEMMA BillingSteps == ASSUME RequestsOK, BillingOK, BillingNext PROVE BillingOK'
BY CheckoutKeeps, PlanKeeps, SubscriptionKeeps, ReadsKeep, FetchKeeps, CancelKeeps, EventKeeps,
   FindKeeps, UpsertKeeps, BillingFailKeeps, PaymentKeeps, GatewayMoveKeeps, DayKeeps
   DEF BillingNext, BillingStep

LEMMA BillingHolds == Spec => []BillingOK
<1>1. ASSUME Init PROVE BillingOK
  <2>1. \A c \in Calls : pc[c] \in {"idle", "done"}
    BY <1>1 DEF Init, RequestsInit
  <2>2. BillingTypeOK /\ BillingTablesOK
    BY <1>1 DEF Init, BillingInit, BillingTypeOK, BillingTablesOK
  <2>3. \A c \in Calls : BillingCallOK(c)
    BY <1>1, <2>1 DEF Init, BillingInit, BillingCallOK
  <2> QED BY <2>2, <2>3 DEF BillingOK
<1>2. ASSUME RequestsOK, BillingOK, [Next]_vars PROVE BillingOK'
  <2>1. CASE Stays(BillingOps, BillingLabels) /\ UNCHANGED billingVars
    <3>1. job' = job
      BY <1>2, OthersStay
    <3>2. BillingTypeOK' /\ BillingTablesOK'
      BY <1>2, <2>1 DEF BillingOK, BillingTypeOK, BillingTablesOK, Backed, billingVars
    <3>3. BillingGrows /\ gateway' = gateway
      BY <2>1 DEF BillingGrows, billingVars
    <3>4. ASSUME NEW c \in Calls PROVE BillingCallOK(c)'
      <4>1. CASE pc'[c] \in BillingLabels \cup {"idle"}
        BY <1>2, <2>1, <3>1, <3>3, <4>1, BillingCallStays DEF Stays
      <4>2. CASE pc'[c] \notin BillingLabels \cup {"idle"}
        BY <4>2 DEF BillingCallOK, BillingLabels
      <4> QED BY <4>1, <4>2
    <3> QED BY <3>2, <3>4 DEF BillingOK
  <2> QED BY <1>2, <2>1, BillingSteps, OthersStay
<1> QED BY <1>1, <1>2, RequestsAreSorted, PTL DEF Spec

\* In whatever order events, refreshes, cancellations and checkouts write the row, a row
\* that grants the plan names a subscription that the user has paid.
THEOREM PlansArePaidFor == Spec => []PlanWasPaidFor
<1>1. BillingOK => PlanWasPaidFor
  BY DEF BillingOK, BillingTablesOK, Backed, BackedBy, PlanWasPaidFor
<1> QED BY <1>1, BillingHolds, PTL

\* The row names the subscription the user pays for, whenever it is paid and in whatever
\* order requests and events write, but where a checkout replaced one it had found still
\* created a day after it was made, or a request that had not read the row wrote over it.
THEOREM PaymentsAreRemembered == Spec => []PaidIsRemembered
<1>1. BillingOK => PaidIsRemembered
  BY DEF BillingOK, BillingTablesOK, PaidIsRemembered, Grants, Terminal
<1> QED BY <1>1, BillingHolds, PTL

-------------------------------------------------------------------------------
(* Webhooks.  Each endpoint that wanted an event has one account of what became *)
(* of it: it is being tried, was told, was given up or was forgotten.           *)

Wanting(f) == {ep.id : ep \in {e \in f.listed :
                 e.tenant = f.tenant /\ (e.types = {} \/ f.type \in e.types)}}

Answered(event, to) ==
  \/ \E d \in sending \cup hooks.received \cup hooks.forgotten : d.event = event /\ d.to = to
  \/ \E e \in hooks.ended : e.attempt = 3 /\ ~e.ok /\ e.delivery.event = event /\ e.delivery.to = to

\* A delivery under way or made is of an event that was fired, to an endpoint that wants it.
Rightful(d) == \E f \in hooks.fired : f.event = d.event /\ d.to \in Wanting(f)

OutboundOK ==
  /\ hooks = [fired |-> hooks.fired, received |-> hooks.received, ended |-> hooks.ended,
              forgotten |-> hooks.forgotten, asNew |-> hooks.asNew]
  /\ \A d \in sending : /\ d = [event |-> d.event, to |-> d.to, attempt |-> d.attempt]
                        /\ d.attempt \in 1 .. 3
  /\ \A f \in hooks.fired : f.event \in Calls /\ pc[f.event] # "idle"
  /\ \A f, g \in hooks.fired : f.event = g.event => f = g
  /\ \A d \in sending \cup hooks.received : Rightful(d)
  /\ \A f \in hooks.fired : \A to \in Wanting(f) : Answered(f.event, to)

\* The one that put an event on record, if it has not answered yet.
Newcomer(c, key) == pc[c] = "inbound" /\ mem[c].new /\ mem[c].key = key

InboundOK ==
  /\ \A a \in hooks.asNew : a.key \in inbox /\ \A c \in Calls : ~Newcomer(c, a.key)
  /\ \A a, b \in hooks.asNew : a.key = b.key => a.by = b.by
  /\ \A c \in Calls : pc[c] = "inbound" => mem[c].key \in inbox
  /\ \A c, d \in Calls : pc[d] = "inbound" /\ Newcomer(d, mem[d].key) /\ Newcomer(c, mem[d].key)
                          => c = d

HooksOK == OutboundOK /\ InboundOK

LEMMA HooksInit == Init => HooksOK
BY DEF Init, WebhooksInit, RequestsInit, HooksOK, OutboundOK, InboundOK, Newcomer

LEMMA DispatchKeeps ==
  ASSUME RequestsOK, HooksOK, NEW c \in Calls, Dispatch(c), UNCHANGED job PROVE HooksOK'
<1> Total
  BY DEF RequestsOK
<1>1. PICK tenant \in Tenants, type \in EventTypes :
        LET told == {ep \in ListActiveByTenant(tenant) : Wants(ep, type)}
        IN  /\ sending' = sending \cup {[event |-> c, to |-> ep.id, attempt |-> 1] : ep \in told}
            /\ hooks' = [hooks EXCEPT !.fired = @ \cup
                 {[event |-> c, tenant |-> tenant, type |-> type, listed |-> endpoints]}]
  BY DEF Dispatch
<1> DEFINE told == {ep \in ListActiveByTenant(tenant) : Wants(ep, type)}
           new == [event |-> c, tenant |-> tenant, type |-> type, listed |-> endpoints]
<1>2. /\ pc[c] = "idle" /\ pc'[c] = "done" /\ \A d \in Calls \ {c} : pc'[d] = pc[d] /\ mem'[d] = mem[d]
      /\ UNCHANGED <<endpoints, inbox>>
  BY DEF Dispatch, At, Done, Keep, Total
<1>3. /\ sending' = sending \cup {[event |-> c, to |-> ep.id, attempt |-> 1] : ep \in told}
      /\ hooks'.fired = hooks.fired \cup {new} /\ hooks'.received = hooks.received
      /\ hooks'.ended = hooks.ended /\ hooks'.forgotten = hooks.forgotten /\ hooks'.asNew = hooks.asNew
      /\ hooks' = [fired |-> hooks'.fired, received |-> hooks'.received, ended |-> hooks'.ended,
                   forgotten |-> hooks'.forgotten, asNew |-> hooks'.asNew]
  BY <1>1 DEF HooksOK, OutboundOK
<1>4. \A to : to \in Wanting(new) <=> \E ep \in told : ep.id = to
  BY DEF Wanting, Wants, ListActiveByTenant
<1>5. OutboundOK'
  <2>1. \A d \in sending' : /\ d = [event |-> d.event, to |-> d.to, attempt |-> d.attempt]
                            /\ d.attempt \in 1 .. 3
    BY <1>3 DEF HooksOK, OutboundOK
  <2>2. /\ \A f \in hooks'.fired : f.event \in Calls /\ pc'[f.event] # "idle"
        /\ \A f, g \in hooks'.fired : f.event = g.event => f = g
    BY <1>2, <1>3 DEF HooksOK, OutboundOK
  <2>3. ASSUME NEW d \in sending' \cup hooks'.received
        PROVE  \E f \in hooks'.fired : f.event = d.event /\ d.to \in Wanting(f)
    <3>1. CASE d \in sending \cup hooks.received
      BY <1>3, <3>1 DEF HooksOK, OutboundOK, Rightful
    <3>2. CASE d \in {[event |-> c, to |-> ep.id, attempt |-> 1] : ep \in told}
      BY <1>3, <1>4, <3>2
    <3> QED BY <1>3, <3>1, <3>2
  <2>4. ASSUME NEW f \in hooks'.fired, NEW to \in Wanting(f) PROVE Answered(f.event, to)'
    <3>1. CASE f \in hooks.fired
      BY <1>3, <3>1 DEF HooksOK, OutboundOK, Answered
    <3>2. CASE f = new
      <4>1. PICK ep \in told : ep.id = to
        BY <1>4, <3>2
      <4>2. [event |-> c, to |-> ep.id, attempt |-> 1] \in sending'
        BY <1>3
      <4> QED BY <3>2, <4>1, <4>2 DEF Answered
    <3> QED BY <1>3, <3>1, <3>2
  <2> QED BY <1>3, <2>1, <2>2, <2>3, <2>4 DEF OutboundOK, Rightful, Wanting
<1>6. InboundOK'
  BY <1>2, <1>3 DEF HooksOK, InboundOK, Newcomer
<1> QED BY <1>5, <1>6 DEF HooksOK

\* A delivery that moves on leaves behind what answers for it.
LEMMA DeliveryKeeps ==
  ASSUME RequestsOK, HooksOK, UNCHANGED job,
         \/ \E d \in sending : Delivered(d) \/ NotDelivered(d)
         \/ ForgetDeliveries
  PROVE  HooksOK'
<1> OutboundOK /\ InboundOK
  BY DEF HooksOK
<1>1. UNCHANGED <<inbox, requests>>
  BY DEF Delivered, NotDelivered, ForgetDeliveries, Ends
<1>2. ASSUME NEW R, NEW E, NEW F,
             hooks' = [fired |-> hooks.fired, received |-> R, ended |-> E, forgotten |-> F,
                       asNew |-> hooks.asNew],
             hooks.received \subseteq R, hooks.ended \subseteq E, hooks.forgotten \subseteq F,
             \A d \in sending' : /\ d = [event |-> d.event, to |-> d.to, attempt |-> d.attempt]
                                 /\ d.attempt \in 1 .. 3,
             \A d \in sending' \cup R :
               \E e \in sending \cup hooks.received : e.event = d.event /\ e.to = d.to,
             \A d \in sending :
               \/ \E e \in sending' \cup R \cup F : e.event = d.event /\ e.to = d.to
               \/ \E e \in E : /\ e.attempt = 3 /\ ~e.ok
                               /\ e.delivery.event = d.event /\ e.delivery.to = d.to
      PROVE  HooksOK'
  <2>1. InboundOK'
    BY <1>1, <1>2 DEF InboundOK, Newcomer, requests
  <2>2. \A d \in sending' \cup R : \E f \in hooks.fired : f.event = d.event /\ d.to \in Wanting(f)
    BY <1>2 DEF OutboundOK, Rightful
  <2>3. ASSUME NEW event, NEW to, Answered(event, to) PROVE Answered(event, to)'
    BY <1>2, <2>3 DEF Answered
  <2>4. OutboundOK'
    BY <1>1, <1>2, <2>2, <2>3 DEF OutboundOK, Rightful, Wanting, requests
  <2> QED BY <2>1, <2>4 DEF HooksOK
<1>3. ASSUME NEW d \in sending, Delivered(d) PROVE HooksOK'
  <2> DEFINE R == hooks.received \cup {[event |-> d.event, to |-> d.to]}
             E == hooks.ended \cup {[delivery |-> DeliveryOf(d), attempt |-> d.attempt, ok |-> TRUE]}
  <2>1. sending' = sending \ {d}
    BY <1>3 DEF Delivered, Ends
  <2>2. hooks' = [hooks EXCEPT !.received = R, !.ended = E]
    BY <1>3 DEF Delivered, DeliveryOf, OutboundOK
  <2>3. hooks' = [fired |-> hooks.fired, received |-> R, ended |-> E, forgotten |-> hooks.forgotten,
                  asNew |-> hooks.asNew]
    BY <2>2 DEF OutboundOK
  <2>4. /\ hooks.received \subseteq R /\ hooks.ended \subseteq E
        /\ \A e \in R : e \in hooks.received \/ (e.event = d.event /\ e.to = d.to)
        /\ \E e \in R : e.event = d.event /\ e.to = d.to
    <3>1. [event |-> d.event, to |-> d.to] \in R
      OBVIOUS
    <3>2. \E e \in R : e.event = d.event /\ e.to = d.to
      BY <3>1
    <3> QED BY <3>2
  <2> HIDE DEF R, E
  <2> QED BY <1>2, <2>1, <2>3, <2>4 DEF OutboundOK
<1>4. ASSUME NEW d \in sending, NotDelivered(d) PROVE HooksOK'
  <2>1. PICK heard \in {FALSE, job.slow} :
          LET received == hooks.received \cup (IF heard THEN {DeliveryOf(d)} ELSE {})
          IN  IF LastAttempt(d.attempt)
                THEN /\ Ends(d)
                     /\ hooks' = [hooks EXCEPT !.received = received,
                          !.ended = @ \cup {[delivery |-> DeliveryOf(d), attempt |-> d.attempt, ok |-> FALSE]}]
                ELSE /\ sending' = (sending \ {d}) \cup {[d EXCEPT !.attempt = @ + 1]}
                     /\ hooks' = [hooks EXCEPT !.received = received]
                     /\ UNCHANGED <<endpoints, inbox, requests>>
    BY <1>4 DEF NotDelivered
  <2> DEFINE R == hooks.received \cup (IF heard THEN {DeliveryOf(d)} ELSE {})
             lost == [delivery |-> DeliveryOf(d), attempt |-> d.attempt, ok |-> FALSE]
             E == hooks.ended \cup {lost}
             again == [event |-> d.event, to |-> d.to, attempt |-> d.attempt + 1]
  <2>2. \A e \in R : e \in hooks.received \/ (e.event = d.event /\ e.to = d.to)
    BY DEF DeliveryOf
  <2>3. /\ lost.attempt = d.attempt /\ ~lost.ok
        /\ lost.delivery.event = d.event /\ lost.delivery.to = d.to
    BY DEF DeliveryOf
  <2>4. hooks.received \subseteq R
    OBVIOUS
  <2> HIDE DEF R, lost
  <2>5. CASE LastAttempt(d.attempt)
    <3>1. sending' = sending \ {d} /\ d.attempt = 3
      BY <2>1, <2>5 DEF Ends, LastAttempt
    <3>2. hooks' = [hooks EXCEPT !.received = R, !.ended = E]
      BY <2>1, <2>5 DEF R, lost
    <3>3. hooks' = [fired |-> hooks.fired, received |-> R, ended |-> E, forgotten |-> hooks.forgotten,
                    asNew |-> hooks.asNew]
      BY <3>2 DEF OutboundOK
    <3> QED BY <1>2, <2>2, <2>3, <2>4, <3>1, <3>3 DEF OutboundOK
  <2>6. CASE ~LastAttempt(d.attempt)
    <3>1. sending' = (sending \ {d}) \cup {again} /\ d.attempt + 1 \in 1 .. 3
      BY <2>1, <2>6 DEF LastAttempt, OutboundOK
    <3>2. hooks' = [hooks EXCEPT !.received = R]
      BY <2>1, <2>6 DEF R
    <3>3. hooks' = [fired |-> hooks.fired, received |-> R, ended |-> hooks.ended,
                    forgotten |-> hooks.forgotten, asNew |-> hooks.asNew]
      BY <3>2 DEF OutboundOK
    <3>4. /\ again = [event |-> again.event, to |-> again.to, attempt |-> again.attempt]
          /\ again.attempt \in 1 .. 3 /\ again.event = d.event /\ again.to = d.to
      BY <3>1
    <3> HIDE DEF again
    <3> QED BY <1>2, <2>2, <2>4, <3>1, <3>3, <3>4 DEF OutboundOK
  <2> QED BY <2>5, <2>6
<1>5. ASSUME ForgetDeliveries PROVE HooksOK'
  <2> DEFINE F == hooks.forgotten \cup {[event |-> d.event, to |-> d.to] : d \in sending}
  <2>1. sending' = {} /\ hooks' = [hooks EXCEPT !.forgotten = F]
    BY <1>5 DEF ForgetDeliveries, DeliveryOf, OutboundOK
  <2>2. hooks' = [fired |-> hooks.fired, received |-> hooks.received, ended |-> hooks.ended,
                  forgotten |-> F, asNew |-> hooks.asNew]
    BY <2>1 DEF OutboundOK
  <2>3. /\ hooks.forgotten \subseteq F
        /\ \A d \in sending : \E e \in F : e.event = d.event /\ e.to = d.to
    <3>1. ASSUME NEW d \in sending PROVE \E e \in F : e.event = d.event /\ e.to = d.to
      <4>1. [event |-> d.event, to |-> d.to] \in F
        OBVIOUS
      <4> HIDE DEF F
      <4> QED BY <4>1
    <3> QED BY <3>1
  <2> HIDE DEF F
  <2> QED BY <1>2, <2>1, <2>2, <2>3 DEF OutboundOK
<1> QED BY <1>3, <1>4, <1>5

\* A request that touches no delivery: an endpoint is made, an event comes in, or it fails.
LEMMA ReceiptKeeps ==
  ASSUME RequestsOK, HooksOK, NEW c \in Calls, UNCHANGED job,
         CreateEndpoint(c) \/ Receive(c) \/ AnswerInbound(c) \/ DispatchFails(c) \/ HookFails(c)
  PROVE  HooksOK'
<1> Total /\ OutboundOK /\ InboundOK
  BY DEF RequestsOK, HooksOK
<1>1. /\ sending' = sending /\ hooks'.fired = hooks.fired /\ hooks'.received = hooks.received
      /\ hooks'.ended = hooks.ended /\ hooks'.forgotten = hooks.forgotten
      /\ hooks' = [fired |-> hooks'.fired, received |-> hooks'.received, ended |-> hooks'.ended,
                   forgotten |-> hooks'.forgotten, asNew |-> hooks'.asNew]
  BY DEF CreateEndpoint, Receive, AnswerInbound, DispatchFails, HookFails, hookVars, OutboundOK
<1>2. /\ \A d \in Calls \ {c} : pc'[d] = pc[d] /\ mem'[d] = mem[d]
      /\ pc'[c] \in {"done", "inbound"}
  BY DEF CreateEndpoint, Receive, AnswerInbound, DispatchFails, HookFails, Fails, Done, Keep, Total
<1>3. OutboundOK'
  <2>1. \A event, to : Answered(event, to) => Answered(event, to)'
    BY <1>1 DEF Answered
  <2>2. \A d : Rightful(d) => Rightful(d)'
    BY <1>1 DEF Rightful, Wanting
  <2>3. \A f \in hooks'.fired : \A to : to \in Wanting(f)' <=> to \in Wanting(f)
    BY DEF Wanting
  <2> QED BY <1>1, <1>2, <2>1, <2>2, <2>3 DEF OutboundOK, Wanting
<1>4. InboundOK'
  <2>1. CASE Receive(c)
    <3>1. PICK d \in Deliveries :
            /\ inbox' = inbox \cup {EventKey(d)}
            /\ Keep(c, [key |-> EventKey(d), new |-> IsNew(EventKey(d))], "inbound")
      BY <2>1 DEF Receive
    <3>2. PICK key : key = EventKey(d)
      OBVIOUS
    <3>3. /\ inbox' = inbox \cup {key} /\ hooks' = hooks /\ pc'[c] = "inbound"
          /\ mem'[c] = [key |-> key, new |-> key \notin inbox]
      BY <2>1, <3>1, <3>2 DEF Receive, Keep, Total, IsNew
    <3>4. \A k : \A e \in Calls \ {c} : Newcomer(e, k)' <=> Newcomer(e, k)
      BY <1>2 DEF Newcomer
    <3>5. \A k : Newcomer(c, k)' <=> key \notin inbox /\ k = key
      <4>1. CASE key \in inbox
        <5>1. mem'[c] = [key |-> key, new |-> FALSE]
          BY <3>3, <4>1
        <5> QED BY <3>3, <4>1, <5>1 DEF Newcomer
      <4>2. CASE key \notin inbox
        <5>1. mem'[c] = [key |-> key, new |-> TRUE]
          BY <3>3, <4>2
        <5> QED BY <3>3, <4>2, <5>1 DEF Newcomer
      <4> QED BY <4>1, <4>2
    <3>6. \A k : \A e \in Calls : Newcomer(e, k) => k \in inbox
      BY DEF InboundOK, Newcomer
    <3> QED BY <1>2, <3>3, <3>4, <3>5, <3>6 DEF InboundOK, Newcomer
  <2>2. CASE AnswerInbound(c)
    BY <1>2, <2>2 DEF AnswerInbound, At, Done, Keep, Total, InboundOK, Newcomer, OutboundOK
  <2>3. CASE CreateEndpoint(c) \/ DispatchFails(c) \/ HookFails(c)
    <3>1. hooks' = hooks /\ inbox' = inbox /\ pc'[c] = "done"
      BY <2>3 DEF CreateEndpoint, DispatchFails, HookFails, Fails, Done, Keep, Total, hookVars
    <3> QED BY <1>2, <3>1 DEF InboundOK, Newcomer
  <2> QED BY <2>1, <2>2, <2>3
<1> QED BY <1>3, <1>4 DEF HooksOK

LEMMA HooksHold == Spec => []HooksOK
<1>1. ASSUME RequestsOK, HooksOK, [Next]_vars PROVE HooksOK'
  <2>1. CASE WebhooksNext
    <3>1. job' = job
      BY <1>1, OthersStay
    <3> QED BY <1>1, <2>1, <3>1, DispatchKeeps, DeliveryKeeps, ReceiptKeeps DEF WebhooksNext
  <2>2. CASE Stays(HookOps, HookLabels) /\ UNCHANGED hookVars
    <3>1. /\ \A c \in Calls : pc'[c] = "idle" => pc[c] = "idle"
          /\ \A c \in Calls : pc'[c] = "inbound" => pc[c] = "inbound" /\ mem'[c] = mem[c]
      BY <2>2 DEF Stays, HookLabels
    <3>2. UNCHANGED <<sending, inbox, hooks>>
      BY <2>2 DEF hookVars
    <3>3. OutboundOK'
      <4>1. \A event, to : Answered(event, to) => Answered(event, to)'
        BY <3>2 DEF Answered
      <4>2. \A d : Rightful(d) => Rightful(d)'
        BY <3>2 DEF Rightful
      <4> QED BY <1>1, <3>1, <3>2, <4>1, <4>2 DEF HooksOK, OutboundOK
    <3>4. InboundOK'
      BY <1>1, <3>1, <3>2 DEF HooksOK, InboundOK, Newcomer
    <3> QED BY <3>3, <3>4 DEF HooksOK
  <2> QED BY <1>1, <2>1, <2>2, OthersStay
<1> QED BY <1>1, HooksInit, RequestsAreSorted, PTL DEF Spec

\* Every endpoint that wants an event is told it, or was tried three times, or a restart
\* forgot it, no other endpoint is, and an inbound event is answered as new once.
THEOREM HooksDoArrive == Spec => []HooksArrive
<1>1. ASSUME HooksOK PROVE HooksArrive
  <2> OutboundOK /\ InboundOK
    BY <1>1 DEF HooksOK
  <2>1. ASSUME NEW f \in hooks.fired
        PROVE LET wanting == {ep.id : ep \in {e \in f.listed :
                         e.tenant = f.tenant /\ (e.types = {} \/ f.type \in e.types)}}
                  ofEvent(S) == {d.to : d \in {e \in S : e.event = f.event}}
                  gaveUp == {[event |-> e.delivery.event, to |-> e.delivery.to] :
                               e \in {n \in hooks.ended : n.attempt = 3 /\ ~n.ok}}
              IN  /\ ofEvent(hooks.received) \subseteq wanting
                  /\ wanting \subseteq ofEvent(sending \cup hooks.received \cup gaveUp \cup hooks.forgotten)
    <3> DEFINE ofEvent(S) == {d.to : d \in {e \in S : e.event = f.event}}
               gaveUp == {[event |-> e.delivery.event, to |-> e.delivery.to] :
                            e \in {n \in hooks.ended : n.attempt = 3 /\ ~n.ok}}
    <3>1. ASSUME NEW d \in hooks.received, d.event = f.event PROVE d.to \in Wanting(f)
      <4>1. PICK g \in hooks.fired : g.event = d.event /\ d.to \in Wanting(g)
        BY DEF OutboundOK, Rightful
      <4> QED BY <3>1, <4>1 DEF OutboundOK
    <3>2. ASSUME NEW to \in Wanting(f)
          PROVE  to \in ofEvent(sending \cup hooks.received \cup gaveUp \cup hooks.forgotten)
      <4>1. Answered(f.event, to)
        BY DEF OutboundOK
      <4>2. CASE \E d \in sending \cup hooks.received \cup hooks.forgotten : d.event = f.event /\ d.to = to
        BY <4>2
      <4>3. ASSUME NEW e \in hooks.ended, e.attempt = 3, ~e.ok, e.delivery.event = f.event, e.delivery.to = to
            PROVE  to \in ofEvent(sending \cup hooks.received \cup gaveUp \cup hooks.forgotten)
        <5>1. [event |-> f.event, to |-> to] \in gaveUp
          BY <4>3
        <5> HIDE DEF gaveUp
        <5> QED BY <5>1
      <4> QED BY <4>1, <4>2, <4>3 DEF Answered
    <3> QED BY <3>1, <3>2 DEF Wanting
  <2> QED BY <2>1 DEF HooksArrive, InboundOK
<1> QED BY <1>1, HooksHold, PTL

-------------------------------------------------------------------------------
(* Instamart.  A checkout has the account to itself from its look at the cart to *)
(* its answer, so that what it ordered is what it saw and what it says of it.    *)

Checking == {"look", "terms", "pay", "accepted", "declined", "unknown"}

OrderCallOK(c) ==
  /\ pc[c] \in Checking =>
       /\ Op(c) = "order" /\ holder = c /\ result[c] = NONE
       /\ mem[c] = [cart |-> mem[c].cart, was |-> mem[c].was, grant |-> mem[c].grant]
  /\ pc[c] \in {"terms", "pay"} => c \in edited \/ remote.items = mem[c].was.lines
  /\ pc[c] = "accepted" => \E o \in orders : o.by = c
  /\ Op(c) = "order" /\ result[c] # NONE => pc[c] = "done"
  /\ Op(c) = "order" /\ result[c] = "placed" => \E o \in orders : o.by = c

PlacedOrderOK(o) ==
  /\ o.by \in Calls /\ Op(o.by) = "order" /\ pc[o.by] \in {"accepted", "unknown", "done"}
  /\ o.items = o.lines \/ o.by \in edited
  /\ \/ result[o.by] \in {NONE, "placed", "merchant"}
     \/ result[o.by] = "user" /\ dead # {}

InstamartOK ==
  /\ result = [c \in Calls |-> result[c]]
  /\ remote = [address |-> remote.address, items |-> remote.items]
  /\ authFailed => dead # {}
  /\ \A c \in Calls : OrderCallOK(c)
  /\ \A o \in orders : PlacedOrderOK(o)

LEMMA InstamartMoved ==
  ASSUME RequestsOK, InstamartOK, job' = job, NEW c \in Calls,
         \A d \in Calls \ {c} : /\ pc'[d] = pc[d] /\ mem'[d] = mem[d]
                                /\ Op(d) = "order" => result'[d] = result[d]
                                /\ holder = d => holder' = d /\ remote'.items = remote.items,
         orders \subseteq orders', \A o \in orders' \ orders : o.by = c,
         edited' = edited, dead' = dead,
         result' = [d \in Calls |-> result'[d]],
         remote' = [address |-> remote'.address, items |-> remote'.items],
         authFailed' => dead # {},
         OrderCallOK(c)', \A o \in orders' : o.by = c => PlacedOrderOK(o)'
  PROVE  InstamartOK'
<1>1. ASSUME NEW d \in Calls, d # c PROVE OrderCallOK(d)'
  <2>1. OrderCallOK(d)
    BY DEF InstamartOK
  <2> QED BY <1>1, <2>1 DEF OrderCallOK, Checking, Op
<1>2. ASSUME NEW o \in orders', o.by # c PROVE PlacedOrderOK(o)'
  <2>1. PlacedOrderOK(o)
    BY <1>2 DEF InstamartOK
  <2> QED BY <1>2, <2>1 DEF PlacedOrderOK, Op
<1> QED BY <1>1, <1>2 DEF InstamartOK

\* Whoever is not ordering holds no lock and reports no order.
LEMMA ShopperMoved ==
  ASSUME RequestsOK, InstamartOK, job' = job, NEW c \in Calls, Op(c) # "order",
         Travels(c, InstamartLabels \ Checking),
         \A d \in Calls \ {c} : /\ Op(d) = "order" => result'[d] = result[d]
                                /\ holder = d => holder' = d /\ remote'.items = remote.items,
         UNCHANGED <<orders, dead, edited>>,
         result' = [d \in Calls |-> result'[d]],
         remote' = [address |-> remote'.address, items |-> remote'.items],
         authFailed' => dead # {}
  PROVE  InstamartOK'
<1>1. pc'[c] \notin Checking
  BY DEF Travels, Checking
<1>2. OrderCallOK(c)'
  BY <1>1 DEF OrderCallOK, Checking, Op
<1>3. \A o \in orders' : o.by # c
  BY DEF InstamartOK, PlacedOrderOK
<1>4. \A d \in Calls \ {c} : pc'[d] = pc[d] /\ mem'[d] = mem[d]
  BY DEF RequestsOK, Total, Travels
<1> QED BY <1>2, <1>3, <1>4, InstamartMoved

LEMMA ShoppingKeeps ==
  ASSUME RequestsOK, InstamartOK, NEW c \in Calls, job' = job,
         \/ SearchProducts(c) \/ SearchAnswered(c) \/ SearchFails(c) \/ (Expired(c) /\ Op(c) # "order")
         \/ CreateCart(c) \/ AddToCart(c) \/ GetDeliveryOptions(c) \/ GetCheckoutQuote(c)
         \/ Unlink(c) \/ SaveLogin(c) \/ ChooseAddress(c)
  PROVE  InstamartOK'
<1> Total
  BY DEF RequestsOK
<1>1. Op(c) # "order"
  BY DEF SearchProducts, SearchAnswered, SearchFails, CreateCart, AddToCart, GetDeliveryOptions,
     GetCheckoutQuote, Unlink, SaveLogin, ChooseAddress, At
<1>2. Travels(c, InstamartLabels \ Checking)
  BY DEF SearchProducts, SearchAnswered, SearchFails, Expired, CreateCart, AddToCart,
     GetDeliveryOptions, GetCheckoutQuote, Unlink, SaveLogin, ChooseAddress, Answers, Keep, Goto, Done,
     Total, Travels, InstamartLabels, Checking
<1>3. UNCHANGED <<orders, dead, edited>>
  BY DEF SearchProducts, SearchAnswered, SearchFails, Expired, CreateCart, AddToCart,
     GetDeliveryOptions, GetCheckoutQuote, Unlink, SaveLogin, ChooseAddress
<1>4. /\ result' = [d \in Calls |-> result'[d]]
      /\ \A d \in Calls \ {c} : result'[d] = result[d]
  BY DEF SearchProducts, SearchAnswered, SearchFails, Expired, CreateCart, AddToCart,
     GetDeliveryOptions, GetCheckoutQuote, Unlink, SaveLogin, ChooseAddress, Answers, InstamartOK
<1>5. \A d \in Calls \ {c} : holder = d /\ holder # NONE => holder' = d /\ remote'.items = remote.items
  BY DEF SearchProducts, SearchAnswered, SearchFails, Expired, CreateCart, AddToCart,
     GetDeliveryOptions, GetCheckoutQuote, Unlink, SaveLogin, ChooseAddress, Unlock
<1>6. remote' = [address |-> remote'.address, items |-> remote'.items]
  BY DEF SearchProducts, SearchAnswered, SearchFails, Expired, CreateCart, AddToCart,
     GetDeliveryOptions, GetCheckoutQuote, Unlink, SaveLogin, ChooseAddress, InstamartOK
<1>7. authFailed' => dead # {}
  <2>1. CASE SearchProducts(c) \/ AddToCart(c) \/ GetCheckoutQuote(c)
    <3>1. authFailed' = (session # NONE /\ authFailed)
      BY <2>1 DEF SearchProducts, AddToCart, GetCheckoutQuote, Connect, Open
    <3> QED BY <3>1 DEF InstamartOK
  <2>2. CASE SearchAnswered(c)
    BY <2>2 DEF SearchAnswered, InstamartOK
  <2>3. CASE Expired(c)
    <3>1. authFailed' = (authFailed \/ Grant \in dead)
      BY <2>3 DEF Expired
    <3> QED BY <3>1 DEF InstamartOK
  <2>4. CASE \/ SearchFails(c) \/ CreateCart(c) \/ GetDeliveryOptions(c) \/ Unlink(c)
             \/ SaveLogin(c) \/ ChooseAddress(c)
    BY <2>4 DEF SearchFails, CreateCart, GetDeliveryOptions, Unlink, SaveLogin, ChooseAddress,
       connection, InstamartOK
  <2> QED BY <2>1, <2>2, <2>3, <2>4
<1> QED BY <1>1, <1>2, <1>3, <1>4, <1>5, <1>6, <1>7, ShopperMoved, NobodyAssumption

\* An order's step that places none.
LEMMA OrdererMoved ==
  ASSUME RequestsOK, InstamartOK, job' = job, NEW c \in Calls, Op(c) = "order",
         holder \in {c, NONE} /\ holder' \in {c, NONE},
         Travels(c, InstamartLabels),
         \A d \in Calls \ {c} : Op(d) = "order" => result'[d] = result[d],
         UNCHANGED <<orders, dead, edited>>,
         result' = [d \in Calls |-> result'[d]], remote' = remote,
         authFailed' => dead # {},
         OrderCallOK(c)', \A o \in orders : o.by = c => PlacedOrderOK(o)'
  PROVE  InstamartOK'
<1>1. \A d \in Calls \ {c} : holder # d
  BY NobodyAssumption
<1>2. \A d \in Calls \ {c} : pc'[d] = pc[d] /\ mem'[d] = mem[d]
  BY DEF RequestsOK, Total, Travels
<1>3. remote' = [address |-> remote'.address, items |-> remote'.items]
  BY DEF InstamartOK
<1> QED BY <1>1, <1>2, <1>3, InstamartMoved

\* An order that ends before the checkout is sent.
LEMMA RefusalKeeps ==
  ASSUME RequestsOK, InstamartOK, NEW c \in Calls, job' = job,
         \/ Expired(c) /\ Op(c) = "order"
         \/ LookAtCart(c) \/ CheckTerms(c) \/ CheckoutUnlinked(c)
  PROVE  InstamartOK'
<1> Total /\ OrderCallOK(c)
  BY DEF RequestsOK, InstamartOK
<1>1. pc[c] \in {"look", "terms", "pay"}
  BY DEF Expired, LookAtCart, CheckTerms, CheckoutUnlinked, At
<1>2. Op(c) = "order" /\ holder = c /\ result[c] = NONE
  BY <1>1 DEF OrderCallOK, Checking
<1>3. /\ UNCHANGED <<orders, dead, edited, remote>>
      /\ Travels(c, InstamartLabels)
  BY DEF Expired, LookAtCart, CheckTerms, CheckoutUnlinked, Answers, Goto, Done, Keep, Total, Travels,
     InstamartLabels
<1>4. /\ result' = [d \in Calls |-> result'[d]]
      /\ \A d \in Calls \ {c} : result'[d] = result[d]
  BY DEF Expired, LookAtCart, CheckTerms, CheckoutUnlinked, Answers, InstamartOK
<1>5. authFailed' => dead # {}
  <2>1. CASE Expired(c)
    <3>1. authFailed' = (authFailed \/ Grant \in dead)
      BY <2>1 DEF Expired
    <3> QED BY <3>1 DEF InstamartOK
  <2>2. CASE LookAtCart(c) \/ CheckTerms(c)
    <3>1. authFailed' = (session # NONE /\ authFailed)
      BY <2>2 DEF LookAtCart, CheckTerms, Connect, Open
    <3> QED BY <3>1 DEF InstamartOK
  <2>3. CASE CheckoutUnlinked(c)
    BY <2>3 DEF CheckoutUnlinked, InstamartOK
  <2> QED BY <2>1, <2>2, <2>3
<1>6. /\ holder' \in {c, NONE}
      /\ \/ /\ holder' = c /\ result' = result /\ mem' = mem
            /\ pc'[c] \in {"terms", "pay"}
            /\ pc[c] = "look" => remote.items = mem[c].was.lines
            /\ pc[c] = "look" \/ pc[c] = "terms"
         \/ pc'[c] = "done" /\ result'[c] \in {"error", "user", "merchant"}
  BY <1>2 DEF Expired, LookAtCart, CheckTerms, CheckoutUnlinked, Answers, Goto, Done, Keep, Total, At,
     VerifyRemote, Unlock, InstamartOK
<1>7. OrderCallOK(c)'
  BY <1>2, <1>3, <1>6 DEF OrderCallOK, Checking, Op
<1>8. \A o \in orders : o.by # c
  BY <1>1 DEF InstamartOK, PlacedOrderOK
<1> QED BY <1>2, <1>3, <1>4, <1>5, <1>6, <1>7, <1>8, OrdererMoved

\* One approval, one execution: the cart's discovery is told, and the lock taken.
LEMMA ExecutionKeeps ==
  ASSUME RequestsOK, InstamartOK, NEW c \in Calls, job' = job, ExecuteCheckout(c) PROVE InstamartOK'
<1> Total /\ OrderCallOK(c)
  BY DEF RequestsOK, InstamartOK
<1>1. Op(c) = "order" /\ pc[c] = "idle"
  BY DEF ExecuteCheckout, At
<1>2. PICK k \in ByOp({"shop"}) :
       /\ result[k] = "quoted"
       /\ IF ~ready \/ carts[k] = NONE
            THEN /\ result' = [result EXCEPT ![k] = "taken", ![c] = IF ready THEN "error" ELSE "user"]
                 /\ Done(c) /\ UNCHANGED holder
            ELSE /\ holder = NONE /\ holder' = c
                 /\ result' = [result EXCEPT ![k] = "taken"]
                 /\ Keep(c, [cart |-> k, was |-> carts[k], grant |-> NONE], "look")
  BY DEF ExecuteCheckout
<1>3. k \in Calls /\ Op(k) # "order" /\ k # c
  BY <1>1 DEF ByOp
<1>4. UNCHANGED <<remote, authFailed, dead, orders, edited>> /\ Travels(c, InstamartLabels)
  BY <1>2 DEF ExecuteCheckout, connection, Done, Keep, Total, Travels, InstamartLabels
<1>5. result' = [d \in Calls |-> result'[d]] /\ \A d \in Calls \ {c} : Op(d) = "order"
      => result'[d] = result[d]
  BY <1>2, <1>3 DEF InstamartOK
<1>6. \/ pc'[c] = "done" /\ result'[c] \in {"error", "user"} /\ holder' = holder
      \/ /\ pc'[c] = "look" /\ result'[c] = result[c] /\ holder' = c /\ holder = NONE
         /\ mem'[c] = [cart |-> k, was |-> carts[k], grant |-> NONE]
  BY <1>2, <1>3 DEF Done, Keep, Total, InstamartOK
<1>7. result[c] = NONE
  BY <1>1 DEF OrderCallOK
<1>8. OrderCallOK(c)'
  BY <1>1, <1>6, <1>7, NobodyAssumption DEF OrderCallOK, Checking, Op, Outcomes
<1>9. \A o \in orders : o.by # c
  BY <1>1 DEF InstamartOK, PlacedOrderOK
<1>10. \A d \in Calls \ {c} : /\ pc'[d] = pc[d] /\ mem'[d] = mem[d]
                              /\ holder = d => holder' = d
  BY <1>4, <1>6, NobodyAssumption DEF Travels, Total
<1>11. /\ remote' = [address |-> remote'.address, items |-> remote'.items]
       /\ authFailed' => dead # {}
  BY <1>4 DEF InstamartOK
<1> QED BY <1>4, <1>5, <1>8, <1>9, <1>10, <1>11, InstamartMoved

\* The checkout: what is ordered was checked under the lock, or edited in the app since.
LEMMA OrderKeeps ==
  ASSUME RequestsOK, InstamartOK, NEW c \in Calls, job' = job, Checkout(c) PROVE InstamartOK'
<1> Total /\ OrderCallOK(c)
  BY DEF RequestsOK, InstamartOK
<1> DEFINE order == [by |-> c, items |-> remote.items, lines |-> mem[c].was.lines]
<1>1. pc[c] = "pay" /\ Op(c) = "order"
  BY DEF Checkout, At
<1>2. /\ holder = c /\ result[c] = NONE
      /\ mem[c] = [cart |-> mem[c].cart, was |-> mem[c].was, grant |-> mem[c].grant]
      /\ c \in edited \/ remote.items = mem[c].was.lines
  BY <1>1 DEF OrderCallOK, Checking
<1>3. UNCHANGED <<holder, dead, result, edited>> /\ \A d \in Calls \ {c} : holder # d
  BY <1>2 DEF Checkout
<1>4. \A o \in orders : o.by # c
  BY <1>1 DEF InstamartOK, PlacedOrderOK
<1>5. CASE /\ Connect /\ remote.items # {}
           /\ orders' = orders \cup {order}
           /\ remote' = [remote EXCEPT !.items = {}]
           /\ Keep(c, [mem[c] EXCEPT !.grant = Grant], "accepted")
  <2>1. /\ pc'[c] = "accepted" /\ mem'[c] = [mem[c] EXCEPT !.grant = Grant]
        /\ \A d \in Calls \ {c} : pc'[d] = pc[d] /\ mem'[d] = mem[d]
    BY <1>5 DEF Keep, Total
  <2>2. mem'[c] = [cart |-> mem'[c].cart, was |-> mem'[c].was, grant |-> mem'[c].grant]
    BY <1>2, <2>1
  <2>3. order \in orders' /\ order.by = c
    BY <1>5
  <2>4. OrderCallOK(c)'
    BY <1>1, <1>2, <1>3, <2>1, <2>2, <2>3, NobodyAssumption DEF OrderCallOK, Checking, Op, Outcomes
  <2>5. ASSUME NEW o \in orders', o.by = c PROVE PlacedOrderOK(o)'
    <3>1. o = order
      BY <1>4, <1>5, <2>5
    <3> QED BY <1>1, <1>2, <1>3, <2>1, <3>1 DEF PlacedOrderOK, Op
  <2>6. \A o \in orders' : o.by = c => PlacedOrderOK(o)'
    BY <2>5
  <2>7. remote' = [address |-> remote'.address, items |-> remote'.items]
    BY <1>5 DEF InstamartOK
  <2>8. authFailed' => dead # {}
    <3>1. authFailed' = (session # NONE /\ authFailed)
      BY <1>5 DEF Connect, Open
    <3> QED BY <3>1 DEF InstamartOK
  <2>9. orders \subseteq orders' /\ \A o \in orders' \ orders : o.by = c
    BY <1>5
  <2> HIDE DEF order
  <2> QED BY <1>3, <2>1, <2>4, <2>6, <2>7, <2>8, <2>9, InstamartMoved DEF InstamartOK
<1>6. ASSUME \/ /\ Connect
                /\ Keep(c, [mem[c] EXCEPT !.grant = Grant], "declined")
                /\ UNCHANGED <<remote, orders>>
             \/ /\ Grant \in dead /\ authFailed' = TRUE
                /\ Goto(c, "unknown")
                /\ UNCHANGED <<session, remote, orders>>
      PROVE  InstamartOK'
  <2>1. /\ pc'[c] \in {"declined", "unknown"}
        /\ mem'[c] = [cart |-> mem'[c].cart, was |-> mem'[c].was, grant |-> mem'[c].grant]
        /\ Travels(c, InstamartLabels)
    BY <1>2, <1>6 DEF Keep, Goto, Total, Travels, InstamartLabels
  <2>2. OrderCallOK(c)'
    BY <1>1, <1>2, <1>3, <2>1, NobodyAssumption DEF OrderCallOK, Checking, Op, Outcomes
  <2>3. authFailed' => dead # {}
    <3>1. CASE Connect
      <4>1. authFailed' = (session # NONE /\ authFailed)
        BY <3>1 DEF Connect, Open
      <4> QED BY <4>1 DEF InstamartOK
    <3> QED BY <1>6, <3>1
  <2> QED BY <1>1, <1>2, <1>3, <1>4, <1>6, <2>1, <2>2, <2>3, OrdererMoved DEF InstamartOK
<1> QED BY <1>5, <1>6 DEF Checkout

\* The answer is read, refused or lost, or the outcome is classified.
LEMMA AnswerKeeps ==
  ASSUME RequestsOK, InstamartOK, NEW c \in Calls, job' = job,
         CheckoutDeclined(c) \/ InterpretCheckout(c) \/ AnswerLost(c) \/ ClassifyFailure(c)
  PROVE  InstamartOK'
<1> Total /\ OrderCallOK(c)
  BY DEF RequestsOK, InstamartOK
<1>1. pc[c] \in {"declined", "accepted", "unknown"} /\ Op(c) = "order"
  BY DEF CheckoutDeclined, InterpretCheckout, AnswerLost, ClassifyFailure, At
<1>2. /\ holder = c /\ result[c] = NONE
      /\ mem[c] = [cart |-> mem[c].cart, was |-> mem[c].was, grant |-> mem[c].grant]
  BY <1>1 DEF OrderCallOK, Checking
<1>3. /\ UNCHANGED <<orders, dead, edited, remote>>
      /\ authFailed' = authFailed
  BY DEF CheckoutDeclined, InterpretCheckout, AnswerLost, ClassifyFailure, instamartVars, connection
<1>4. Travels(c, InstamartLabels)
  BY DEF CheckoutDeclined, InterpretCheckout, AnswerLost, ClassifyFailure, Answers, Drops, Goto, Done,
     Keep, Total, Travels, InstamartLabels
<1>5. /\ result' = [d \in Calls |-> result'[d]]
      /\ \A d \in Calls \ {c} : result'[d] = result[d]
  BY DEF CheckoutDeclined, InterpretCheckout, AnswerLost, ClassifyFailure, Answers, instamartVars,
     InstamartOK
<1>6. /\ holder' \in {c, NONE}
      /\ \/ /\ pc[c] \in {"accepted", "declined"} /\ pc'[c] = "unknown"
            /\ mem'[c] = mem[c] /\ holder' = c /\ result' = result
         \/ /\ pc'[c] = "done"
            /\ \/ pc[c] = "declined" /\ result'[c] = "failed"
               \/ pc[c] = "accepted" /\ result'[c] \in {"placed", "merchant"}
               \/ pc[c] = "unknown" /\ authFailed /\ result'[c] = "user"
               \/ pc[c] = "unknown" /\ result'[c] = "merchant"
  <2>1. CASE CheckoutDeclined(c) \/ InterpretCheckout(c) \/ ClassifyFailure(c)
    BY <1>2, <2>1 DEF CheckoutDeclined, InterpretCheckout, ClassifyFailure, Answers, Done, Keep, Total, At,
       Unlock, InstamartOK, OutcomeUnknown
  <2>2. CASE AnswerLost(c)
    BY <1>2, <2>2 DEF AnswerLost, Drops, Goto, Keep, Total, At, instamartVars
  <2> QED BY <2>1, <2>2
<1>7. OrderCallOK(c)'
  BY <1>1, <1>2, <1>3, <1>6, NobodyAssumption DEF OrderCallOK, Checking, Op, Outcomes
<1>8. ASSUME NEW o \in orders, o.by = c PROVE PlacedOrderOK(o)'
  <2>1. PlacedOrderOK(o)
    BY DEF InstamartOK
  <2>2. authFailed => dead # {}
    BY DEF InstamartOK
  <2> QED BY <1>3, <1>6, <1>8, <2>1, <2>2 DEF PlacedOrderOK, Op
<1>9. authFailed' => dead # {}
  BY <1>3 DEF InstamartOK
<1> QED BY <1>1, <1>2, <1>3, <1>4, <1>5, <1>6, <1>7, <1>8, <1>9, OrdererMoved

\* A call that fails gives the account back and answers nothing.
LEMMA InstamartFailKeeps ==
  ASSUME RequestsOK, InstamartOK, NEW c \in Calls, job' = job, Fails(c), Unlock(c),
         UNCHANGED <<carts, remote, link, connection, dead, orders, result, edited>>
  PROVE  InstamartOK'
<1> Total
  BY DEF RequestsOK
<1>1. pc'[c] = "done" /\ \A d \in Calls \ {c} : pc'[d] = pc[d] /\ mem'[d] = mem[d]
  BY DEF Fails, Done, Keep, Total
<1>2. OrderCallOK(c)'
  <2>1. OrderCallOK(c)
    BY DEF InstamartOK
  <2> QED BY <1>1, <2>1 DEF OrderCallOK, Checking, Op
<1>3. \A o \in orders : o.by = c => PlacedOrderOK(o)'
  <2>1. ASSUME NEW o \in orders, o.by = c PROVE PlacedOrderOK(o)'
    <3>1. PlacedOrderOK(o)
      BY DEF InstamartOK
    <3> QED BY <1>1, <2>1, <3>1 DEF PlacedOrderOK, Op
  <2> QED BY <2>1
<1>4. /\ result' = [d \in Calls |-> result'[d]]
      /\ remote' = [address |-> remote'.address, items |-> remote'.items]
      /\ authFailed' => dead # {}
  BY DEF connection, InstamartOK
<1> QED BY <1>1, <1>2, <1>3, <1>4, InstamartMoved DEF Unlock

\* The user, Swiggy and the client's own upkeep: an edit is remembered for every checkout
\* that has looked already.
LEMMA UpkeepKeeps ==
  ASSUME InstamartOK, AppEdits \/ SessionEnds \/ Warm \/ Refresh, UNCHANGED <<job, cut, requests>>
  PROVE  InstamartOK'
<1>1. /\ pc' = pc /\ mem' = mem /\ job' = job /\ holder' = holder /\ orders' = orders /\ result' = result
      /\ edited \subseteq edited' /\ (dead # {} => dead' # {})
      /\ \/ remote' = remote
         \/ remote' = [remote EXCEPT !.items = remote'.items]
            /\ \A c \in ByOp({"order"}) : pc[c] \in {"terms", "pay"} => c \in edited'
  BY DEF AppEdits, SessionEnds, Warm, Refresh, requests
<1>2. \A c \in Calls : OrderCallOK(c)'
  <2>1. ASSUME NEW c \in Calls PROVE OrderCallOK(c)'
    <3>1. OrderCallOK(c)
      BY DEF InstamartOK
    <3>2. Op(c) = "order" => c \in ByOp({"order"})
      BY DEF ByOp
    <3> QED BY <1>1, <3>1, <3>2 DEF OrderCallOK, Checking, Op
  <2> QED BY <2>1
<1>3. \A o \in orders' : PlacedOrderOK(o)'
  BY <1>1 DEF InstamartOK, PlacedOrderOK, Op
<1>4. authFailed' => dead' # {}
  <2>1. CASE AppEdits \/ SessionEnds \/ Refresh
    BY <1>1, <2>1 DEF AppEdits, SessionEnds, Refresh, connection, InstamartOK
  <2>2. CASE Warm /\ Connect
    <3>1. authFailed' = (session # NONE /\ authFailed) /\ dead' = dead
      BY <2>2 DEF Warm, Connect, Open
    <3> QED BY <3>1 DEF InstamartOK
  <2>3. CASE Warm /\ Grant \in dead
    BY <1>1, <2>3 DEF Warm
  <2> QED BY <2>1, <2>2, <2>3 DEF Warm
<1>5. remote' = [address |-> remote'.address, items |-> remote'.items]
  BY <1>1 DEF InstamartOK
<1> QED BY <1>1, <1>2, <1>3, <1>4, <1>5 DEF InstamartOK

LEMMA InstamartKeeps == ASSUME RequestsOK, InstamartOK, job' = job, InstamartNext PROVE InstamartOK'
<1>1. ASSUME NEW c \in Calls, InstamartStep(c) PROVE InstamartOK'
  <2>1. CASE Expired(c)
    BY <2>1, ShoppingKeeps, RefusalKeeps
  <2> QED BY <1>1, <2>1, ShoppingKeeps, RefusalKeeps, ExecutionKeeps, OrderKeeps, AnswerKeeps
        DEF InstamartStep
<1>2. ASSUME NEW c \in Calls, Fails(c) /\ Unlock(c),
             UNCHANGED <<carts, remote, link, connection, dead, orders, result, edited>>
      PROVE  InstamartOK'
  BY <1>2, InstamartFailKeeps
<1>3. ASSUME NEW c \in Calls, AnswerLost(c) PROVE InstamartOK'
  BY <1>3, AnswerKeeps
<1>4. ASSUME AppEdits \/ SessionEnds \/ Warm \/ Refresh, UNCHANGED <<job, cut, requests>> PROVE InstamartOK'
  BY <1>4, UpkeepKeeps
<1> QED BY <1>1, <1>2, <1>3, <1>4 DEF InstamartNext

LEMMA InstamartHolds == Spec => []InstamartOK
<1>1. ASSUME Init PROVE InstamartOK
  <2>1. \A c \in Calls : pc[c] \in {"done", "idle"} /\ result[c] = NONE
    BY <1>1 DEF Init, RequestsInit, InstamartInit
  <2>2. \A c \in Calls : OrderCallOK(c)
    BY <2>1, NobodyAssumption DEF OrderCallOK, Checking, Outcomes
  <2>3. /\ result = [c \in Calls |-> NONE] /\ remote = [address |-> link.address, items |-> {}]
        /\ authFailed = FALSE /\ orders = {}
    BY <1>1 DEF Init, InstamartInit
  <2> QED BY <2>2, <2>3 DEF InstamartOK
<1>2. ASSUME RequestsOK, InstamartOK, [Next]_vars PROVE InstamartOK'
  <2>1. job' = job
    BY <1>2, OthersStay
  <2>2. CASE Stays(InstamartOps \ GrantOps, InstamartLabels) /\ UNCHANGED instamartVars
    <3>1. ASSUME NEW c \in Calls PROVE OrderCallOK(c)'
      <4>1. OrderCallOK(c)
        BY <1>2 DEF InstamartOK
      <4> QED BY <1>2, <2>1, <2>2, <3>1, <4>1
              DEF Stays, InstamartOps, GrantOps, InstamartLabels, OrderCallOK, Checking, Op, instamartVars
    <3>2. ASSUME NEW o \in orders PROVE PlacedOrderOK(o)'
      <4>1. PlacedOrderOK(o)
        BY <1>2 DEF InstamartOK
      <4> QED BY <1>2, <2>1, <2>2, <3>2, <4>1
              DEF Stays, InstamartOps, GrantOps, InstamartLabels, PlacedOrderOK, Op, instamartVars
    <3> QED BY <1>2, <2>2, <3>1, <3>2 DEF InstamartOK, instamartVars, connection
  <2> QED BY <1>2, <2>1, <2>2, OthersStay, InstamartKeeps
<1> QED BY <1>1, <1>2, RequestsAreSorted, PTL DEF Spec

\* Every order holds what its discovery put in the cart, or the user edited the cart after
\* the last look at it, however many intents share the account and whatever fails.
THEOREM OrdersHoldTheirCarts == Spec => []OrderHoldsCart
<1>1. ASSUME InstamartOK PROVE OrderHoldsCart
  BY <1>1 DEF InstamartOK, PlacedOrderOK, OrderHoldsCart
<1> QED BY <1>1, InstamartHolds, PTL

\* A placed order is never reported as failed, as the user's to settle only after Swiggy
\* ended the session, and what is reported as placed was.
THEOREM ReportsAreTrue == Spec => []ReportedTruly
<1>1. ASSUME InstamartOK PROVE ReportedTruly
  BY <1>1 DEF InstamartOK, PlacedOrderOK, OrderCallOK, ReportedTruly, ByOp
<1> QED BY <1>1, InstamartHolds, PTL

-------------------------------------------------------------------------------
(* Searches.  What is selected from a sequence keeps its order, and the slots of *)
(* the look-ups hold only what the search engine listed there.                   *)

\* The positions of a set, in order: each has one more of the set up to it than the last.
LEMMA NthFacts ==
  ASSUME NEW m \in Nat, NEW K \in SUBSET (1 .. m)
  PROVE  /\ Cardinality(K) \in Nat
         /\ \A n \in 1 .. Cardinality(K) : Nth(K, n) \in K
         /\ \A k, n \in 1 .. Cardinality(K) : k < n => Nth(K, k) < Nth(K, n)
<1> DEFINE UpTo(k) == {j \in K : j <= k}
           rank == [k \in K |-> Cardinality(UpTo(k))]
           N == Cardinality(K)
<1>1. IsFiniteSet(K) /\ N \in Nat
  <2>1. IsFiniteSet(1 .. m)
    BY FS_Interval
  <2> QED BY <2>1, FS_Subset, FS_CardinalityType
<1>2. \A k \in K : IsFiniteSet(UpTo(k)) /\ Cardinality(UpTo(k)) \in 1 .. N
  <2> SUFFICES ASSUME NEW k \in K PROVE IsFiniteSet(UpTo(k)) /\ Cardinality(UpTo(k)) \in 1 .. N
    OBVIOUS
  <2>1. UpTo(k) \subseteq K /\ UpTo(k) # {}
    OBVIOUS
  <2> HIDE DEF UpTo
  <2>2. IsFiniteSet(UpTo(k)) /\ Cardinality(UpTo(k)) <= N
    BY <1>1, <2>1, FS_Subset
  <2>3. Cardinality(UpTo(k)) \in Nat /\ Cardinality(UpTo(k)) # 0
    BY <2>1, <2>2, FS_EmptySet, FS_CardinalityType
  <2> QED BY <1>1, <2>2, <2>3
<1>3. \A j, k \in K : j < k => rank[j] < rank[k]
  <2> SUFFICES ASSUME NEW j \in K, NEW k \in K, j < k PROVE Cardinality(UpTo(j)) < Cardinality(UpTo(k))
    OBVIOUS
  <2>1. UpTo(j) \subseteq UpTo(k) /\ k \in UpTo(k) /\ k \notin UpTo(j)
    <3>1. j \in Nat /\ k \in Nat /\ \A i \in K : i \in Nat
      OBVIOUS
    <3>2. \A i \in Nat : i <= j => i <= k
      BY <3>1
    <3>3. UpTo(j) \subseteq UpTo(k)
      BY <3>1, <3>2
    <3>4. ~ (k <= j) /\ k <= k
      BY <3>1
    <3> QED BY <3>3, <3>4
  <2> HIDE DEF UpTo
  <2>2. Cardinality(UpTo(j)) <= Cardinality(UpTo(k)) /\ Cardinality(UpTo(j)) # Cardinality(UpTo(k))
    BY <1>2, <2>1, FS_Subset
  <2> QED BY <1>1, <1>2, <2>2
<1>4. rank \in [K -> 1 .. N]
  BY <1>2
<1> HIDE DEF rank
<1>5. \A j, k \in K : rank[j] = rank[k] => j = k
  <2> SUFFICES ASSUME NEW j \in K, NEW k \in K, rank[j] = rank[k], j # k PROVE FALSE
    OBVIOUS
  <2>1. j < k \/ k < j
    OBVIOUS
  <2>2. rank[j] \in Int /\ rank[k] \in Int
    BY <1>1, <1>4
  <2> QED BY <1>3, <2>1, <2>2
<1>6. rank \in Surjection(K, 1 .. N)
  <2>1. rank \in Injection(K, 1 .. N)
    BY <1>4, <1>5 DEF Injection, IsInjective
  <2>2. IsFiniteSet(1 .. N) /\ Cardinality(1 .. N) = Cardinality(K)
    BY <1>1, FS_Interval
  <2> HIDE DEF N
  <2> QED BY <2>1, <2>2, FS_Injection
<1>7. \A n \in 1 .. N : Nth(K, n) \in K /\ rank[Nth(K, n)] = n
  <2> SUFFICES ASSUME NEW n \in 1 .. N PROVE Nth(K, n) \in K /\ rank[Nth(K, n)] = n
    OBVIOUS
  <2>1. PICK k \in K : rank[k] = n
    BY <1>6 DEF Surjection
  <2>2. Cardinality({j \in K : j <= k}) = n
    BY <2>1 DEF rank
  <2>3. Nth(K, n) \in K /\ Cardinality({j \in K : j <= Nth(K, n)}) = n
    BY <2>2 DEF Nth
  <2> QED BY <2>3 DEF rank
<1>8. ASSUME NEW k \in 1 .. N, NEW n \in 1 .. N, k < n PROVE Nth(K, k) < Nth(K, n)
  <2> DEFINE i == Nth(K, k)
             j == Nth(K, n)
  <2>1. i \in K /\ j \in K /\ rank[i] = k /\ rank[j] = n
    BY <1>7, <1>8
  <2> HIDE DEF i, j
  <2>2. i \in Nat /\ j \in Nat
    BY <2>1
  <2>3. CASE j < i
    BY <1>1, <1>3, <1>8, <2>1, <2>3
  <2>4. CASE i = j
    BY <1>1, <1>8, <2>1, <2>4
  <2> QED BY <2>2, <2>3, <2>4 DEF i, j
<1> QED BY <1>1, <1>7, <1>8

\* The first of what is selected: at most so many, from those positions, in their order.
LEMMA SelectFacts ==
  ASSUME NEW m \in Nat, NEW s, NEW K \in SUBSET (1 .. m), NEW limit \in Nat
  PROVE  LET a == Prefix(Select(s, K), limit)
         IN  /\ DOMAIN a = 1 .. Len(a) /\ Len(a) \in Nat /\ Len(a) <= limit
             /\ \E at \in [DOMAIN a -> K] :
                  /\ \A k \in DOMAIN a : a[k] = s[at[k]]
                  /\ \A k, n \in DOMAIN a : k < n => at[k] < at[n]
<1> DEFINE all == Select(s, K)
           a == Prefix(all, limit)
           N == Cardinality(K)
           at == [k \in DOMAIN a |-> Nth(K, k)]
<1>1. N \in Nat /\ all \in Seq({s[k] : k \in K}) /\ Len(all) = N
      /\ \A k \in 1 .. N : all[k] = s[Nth(K, k)]
  <2>1. N \in Nat /\ \A n \in 1 .. N : Nth(K, n) \in K
    BY NthFacts
  <2>2. all = [n \in 1 .. N |-> s[Nth(K, n)]]
    BY DEF Select
  <2> HIDE DEF N, all
  <2> QED BY <2>1, <2>2
<1> HIDE DEF all, N
<1>2. /\ a \in Seq({s[k] : k \in K}) /\ Len(a) <= limit /\ Len(a) <= N
      /\ \A k \in 1 .. Len(a) : a[k] = all[k]
  <2>1. CASE N <= limit
    BY <1>1, <2>1 DEF Prefix
  <2>2. CASE ~(N <= limit)
    <3>1. a = SubSeq(all, 1, limit)
      BY <1>1, <2>2 DEF Prefix
    <3> HIDE DEF a
    <3> QED BY <1>1, <2>2, <3>1
  <2> QED BY <2>1, <2>2
<1> HIDE DEF a
<1>3. DOMAIN a = 1 .. Len(a) /\ Len(a) \in Nat
  BY <1>2
<1>4. \A k \in DOMAIN a : k \in 1 .. N
  BY <1>1, <1>2, <1>3
<1>5. at \in [DOMAIN a -> K]
  BY <1>4, NthFacts DEF N
<1>6. \A k \in DOMAIN a : at[k] = Nth(K, k) /\ a[k] = s[at[k]]
  BY <1>1, <1>2, <1>3, <1>4
<1>7. \A k, n \in DOMAIN a : k < n => at[k] < at[n]
  BY <1>4, <1>6, NthFacts DEF N
<1> HIDE DEF at
<1> QED BY <1>2, <1>3, <1>5, <1>6, <1>7 DEF a, all

FromListings(pages) == \E l \in Listings : pages = [k \in DOMAIN l |-> l[k].to]

\* An answer as an agent should get it.
Ranked(a, limit) ==
  /\ FromListings(a.listed)
  /\ Len(a.given) <= limit
  /\ \A k \in DOMAIN a.given : Public(a.given[k])
  /\ \A k, n \in DOMAIN a.given :
       k < n => \E i, j \in DOMAIN a.listed :
                  i < j /\ a.listed[i] = a.given[k] /\ a.listed[j] = a.given[n]

\* A slot holds the page listed at its place, if any.
SlotsOK(m) ==
  /\ m \in [listed : {m.listed}, slots : {m.slots}, open : {m.open}]
  /\ FromListings(m.listed) /\ m.slots = [k \in DOMAIN m.listed |-> m.slots[k]]
  /\ \A k \in DOMAIN m.slots : m.slots[k] # NONE => m.slots[k] = m.listed[k] /\ Public(m.slots[k])

Allowed(shown) ==
  \A s \in shown : \A url \in {s.link} \cup {s.products[k].url : k \in DOMAIN s.products} :
    url = NONE \/ (url.public /\ url.known)

SearcherOK(c) ==
  /\ pc[c] = "resolve" => SlotsOK(mem[c])
  /\ pc[c] = "keep" => Ranked(mem[c], WebLimit[Op(c)])
  /\ pc[c] = "browse" => Allowed(mem[c].shown)

SearchTablesOK ==
  /\ cached = [k \in DOMAIN WebLimit |-> cached[k]]
  /\ \A k \in DOMAIN WebLimit : cached[k] # NONE =>
       Ranked(cached[k], WebLimit[k]) /\ cached[k].given # <<>>
  /\ \A a \in answered : a.op \in DOMAIN WebLimit /\ Ranked(a, WebLimit[a.op])
  /\ \A shown \in browsed : Allowed(shown)

SearchOK == SearchTablesOK /\ \A c \in Calls : SearcherOK(c)

LEMMA ListedAreSequences ==
  ASSUME NEW pages, FromListings(pages)
  PROVE  \E m \in Nat : DOMAIN pages = 1 .. m /\ pages = [k \in 1 .. m |-> pages[k]]
<1>1. PICK l \in Listings : pages = [k \in DOMAIN l |-> l[k].to]
  BY DEF FromListings
<1>2. l \in Seq({l[k] : k \in DOMAIN l})
  BY <1>1, ListingsAssumption
<1>3. Len(l) \in Nat /\ DOMAIN l = 1 .. Len(l)
  BY <1>2
<1> QED BY <1>1, <1>3

\* What is given is a selection of what was listed.
LEMMA SelectionIsRanked ==
  ASSUME NEW listed, FromListings(listed), NEW limit \in Nat,
         NEW s, NEW K \in SUBSET DOMAIN listed, \A k \in K : s[k] = listed[k] /\ Public(s[k])
  PROVE  Ranked([listed |-> listed, given |-> Prefix(Select(s, K), limit)], limit)
<1>1. PICK m \in Nat : DOMAIN listed = 1 .. m
  BY ListedAreSequences
<1> DEFINE a == Prefix(Select(s, K), limit)
<1>2. PICK at \in [DOMAIN a -> K] : /\ Len(a) <= limit
                                    /\ \A k \in DOMAIN a : a[k] = s[at[k]]
                                    /\ \A k, n \in DOMAIN a : k < n => at[k] < at[n]
  BY <1>1, SelectFacts
<1> HIDE DEF a
<1>3. \A k \in DOMAIN a : at[k] \in DOMAIN listed /\ a[k] = listed[at[k]] /\ Public(a[k])
  BY <1>2
<1>4. \A k, n \in DOMAIN a : k < n =>
        \E i, j \in DOMAIN listed : i < j /\ listed[i] = a[k] /\ listed[j] = a[n]
  BY <1>2, <1>3
<1> QED BY <1>2, <1>3, <1>4 DEF Ranked, a

\* A search step moves one request; it is enough to look at that one and at the tables.
LEMMA SearcherMoved ==
  ASSUME RequestsOK, SearchOK, job' = job, NEW c \in Calls, NEW l, NEW m, Keep(c, m, l),
         l = "resolve" => SlotsOK(m),
         l = "keep" => Ranked(m, WebLimit[Op(c)]),
         l = "browse" => Allowed(m.shown),
         SearchTablesOK'
  PROVE  SearchOK'
<1>1. pc'[c] = l /\ mem'[c] = m /\ \A d \in Calls \ {c} : pc'[d] = pc[d] /\ mem'[d] = mem[d]
  BY DEF Keep, RequestsOK, Total
<1>2. \A d \in Calls : Op(d)' = Op(d)
  BY DEF Op
<1>3. \A d \in Calls : SearcherOK(d)'
  BY <1>1, <1>2 DEF SearchOK, SearcherOK
<1> QED BY <1>3 DEF SearchOK

LEMMA SearchTablesStay == ASSUME SearchOK, UNCHANGED searchVars PROVE SearchTablesOK'
BY DEF SearchOK, SearchTablesOK, searchVars


LEMMA AskingKeepsSearch ==
  ASSUME RequestsOK, SearchOK, job' = job, NEW c \in Calls,
         WebSearch(c) \/ CustomSearch(c) \/ GeminiSearch(c) \/ EngineFails(c)
  PROVE  SearchOK'
<1>1. ASSUME NEW l, Goto(c, l) PROVE Keep(c, mem[c], l)
  BY <1>1 DEF Goto, Keep, RequestsOK, Total
<1>2. Op(c) \in DOMAIN WebLimit /\ WebLimit[Op(c)] \in Nat
  BY LimitAssumption DEF WebSearch, CustomSearch, GeminiSearch, EngineFails, At
<1>3. CASE WebSearch(c)
  <2>1. CASE cached[Op(c)] # NONE /\ AnswerWeb(c, cached[Op(c)])
    <3> DEFINE kept == cached[Op(c)]
               a == [op |-> Op(c), listed |-> kept.listed, given |-> kept.given]
    <3>1. Ranked(kept, WebLimit[Op(c)])
      BY <1>2, <2>1 DEF SearchOK, SearchTablesOK
    <3>2. Ranked(a, WebLimit[a.op]) /\ a.op \in DOMAIN WebLimit
      BY <1>2, <3>1 DEF Ranked
    <3>3. /\ answered' = answered \cup {a} /\ UNCHANGED <<cached, browsed>>
          /\ Keep(c, NONE, "done")
      BY <1>3, <2>1 DEF AnswerWeb, WebSearch, Done
    <3> HIDE DEF a
    <3>4. SearchTablesOK'
      BY <3>2, <3>3 DEF SearchOK, SearchTablesOK
    <3> QED BY <3>3, <3>4, SearcherMoved
  <2>2. CASE Goto(c, "engine") /\ UNCHANGED <<answered, browsed>>
    BY <1>1, <1>3, <2>2, SearcherMoved, SearchTablesStay DEF WebSearch, searchVars
  <2> QED BY <1>3, <2>1, <2>2 DEF WebSearch, CacheKey
<1>4. CASE CustomSearch(c)
  <2>1. PICK listed \in Listings :
          LET pages == [k \in DOMAIN listed |-> listed[k].to]
              public == {k \in DOMAIN pages : Public(pages[k])}
          IN  Keep(c, [listed |-> pages, given |-> Prefix(Select(pages, public), WebLimit[Op(c)])], "keep")
    BY <1>4 DEF CustomSearch
  <2> DEFINE pages == [k \in DOMAIN listed |-> listed[k].to]
             public == {k \in DOMAIN pages : Public(pages[k])}
             m == [listed |-> pages, given |-> Prefix(Select(pages, public), WebLimit[Op(c)])]
  <2>2. Keep(c, m, "keep")
    BY <2>1
  <2>3. FromListings(pages) /\ public \in SUBSET DOMAIN pages /\ \A k \in public : Public(pages[k])
    BY DEF FromListings
  <2>4. Ranked(m, WebLimit[Op(c)])
    <3> HIDE DEF pages, public
    <3> QED BY <1>2, <2>3, SelectionIsRanked
  <2> HIDE DEF m
  <2> QED BY <1>4, <2>2, <2>4, SearcherMoved, SearchTablesStay DEF CustomSearch
<1>5. CASE GeminiSearch(c)
  <2>1. PICK listed \in Listings :
          Keep(c, [listed |-> [k \in DOMAIN listed |-> listed[k].to],
                   slots |-> [k \in DOMAIN listed |-> NONE],
                   open |-> {k \in DOMAIN listed : k <= 2 * WebLimit[Op(c)] /\ listed[k].trusted}],
               "resolve")
    BY <1>5 DEF GeminiSearch
  <2> DEFINE m == [listed |-> [k \in DOMAIN listed |-> listed[k].to],
                   slots |-> [k \in DOMAIN listed |-> NONE],
                   open |-> {k \in DOMAIN listed : k <= 2 * WebLimit[Op(c)] /\ listed[k].trusted}]
  <2>2. SlotsOK(m)
    BY DEF SlotsOK, FromListings
  <2> HIDE DEF m
  <2> QED BY <1>5, <2>1, <2>2, SearcherMoved, SearchTablesStay DEF GeminiSearch, m
<1>6. CASE EngineFails(c)
  BY <1>6, SearcherMoved, SearchTablesStay DEF EngineFails, Done
<1> QED BY <1>3, <1>4, <1>5, <1>6

LEMMA LookingUpKeepsSearch ==
  ASSUME RequestsOK, SearchOK, job' = job, NEW c \in Calls, Resolve(c) \/ Collect(c)
  PROVE  SearchOK'
<1>1. SlotsOK(mem[c]) /\ UNCHANGED searchVars
  BY DEF Resolve, Collect, At, SearchOK, SearcherOK
<1>2. CASE Resolve(c)
  <2>1. PICK k \in mem[c].open, found \in BOOLEAN :
          Keep(c, [mem[c] EXCEPT !.open = @ \ {k},
                     !.slots = IF found /\ Public(mem[c].listed[k])
                                 THEN PutAt(@, k, mem[c].listed[k]) ELSE @], "resolve")
    BY <1>2 DEF Resolve
  <2> DEFINE slots == IF found /\ Public(mem[c].listed[k])
                        THEN PutAt(mem[c].slots, k, mem[c].listed[k]) ELSE mem[c].slots
             m == [mem[c] EXCEPT !.open = @ \ {k}, !.slots = slots]
  <2>2. Keep(c, m, "resolve")
    BY <2>1
  <2>3. /\ slots = [j \in DOMAIN mem[c].listed |-> slots[j]]
        /\ \A j \in DOMAIN slots : slots[j] # NONE => slots[j] = mem[c].listed[j] /\ Public(slots[j])
    BY <1>1 DEF SlotsOK, PutAt
  <2> HIDE DEF slots
  <2>4. /\ m \in [listed : {mem[c].listed}, slots : {slots}, open : {mem[c].open \ {k}}]
        /\ m.listed = mem[c].listed /\ m.slots = slots /\ m.open = mem[c].open \ {k}
    BY <1>1 DEF SlotsOK
  <2>5. SlotsOK(m)
    BY <1>1, <2>3, <2>4 DEF SlotsOK
  <2> HIDE DEF m
  <2> QED BY <1>1, <2>2, <2>5, SearcherMoved, SearchTablesStay
<1>3. CASE Collect(c)
  <2> DEFINE s == mem[c].slots
             new == {k \in DOMAIN s : s[k] # NONE /\ \A j \in 1 .. (k - 1) : s[j] # s[k]}
             m == [listed |-> mem[c].listed, given |-> Prefix(Select(s, new), WebLimit[Op(c)])]
  <2>1. Keep(c, m, "keep") /\ WebLimit[Op(c)] \in Nat
    BY <1>3, LimitAssumption DEF Collect, Verified, At
  <2>2. /\ FromListings(mem[c].listed) /\ new \in SUBSET DOMAIN mem[c].listed
        /\ \A k \in new : s[k] = mem[c].listed[k] /\ Public(s[k])
    BY <1>1 DEF SlotsOK
  <2>3. Ranked(m, WebLimit[Op(c)])
    <3> HIDE DEF s, new
    <3> QED BY <2>1, <2>2, SelectionIsRanked
  <2> HIDE DEF m
  <2> QED BY <1>1, <2>1, <2>3, SearcherMoved, SearchTablesStay
<1> QED BY <1>2, <1>3

LEMMA AnsweringKeepsSearch ==
  ASSUME RequestsOK, SearchOK, job' = job, NEW c \in Calls, KeepAnswer(c)
  PROVE  SearchOK'
<1>1. Op(c) \in DOMAIN WebLimit /\ Ranked(mem[c], WebLimit[Op(c)])
  BY DEF KeepAnswer, At, SearchOK, SearcherOK
<1> DEFINE a == [op |-> Op(c), listed |-> mem[c].listed, given |-> mem[c].given]
<1>2. Ranked(a, WebLimit[a.op]) /\ a.op \in DOMAIN WebLimit
  BY <1>1 DEF Ranked
<1>3. answered' = answered \cup {a} /\ UNCHANGED browsed /\ Keep(c, NONE, "done")
  BY DEF KeepAnswer, AnswerWeb, Done
<1> HIDE DEF a
<1>4. \/ cached' = cached
      \/ mem[c].given # <<>> /\ cached' = [cached EXCEPT ![Op(c)] = mem[c]]
  BY DEF KeepAnswer, CacheKey
<1>5. /\ cached' = [k \in DOMAIN WebLimit |-> cached'[k]]
      /\ \A k \in DOMAIN WebLimit : cached'[k] # NONE =>
           Ranked(cached'[k], WebLimit[k]) /\ cached'[k].given # <<>>
  BY <1>1, <1>4 DEF SearchOK, SearchTablesOK
<1>6. SearchTablesOK'
  BY <1>2, <1>3, <1>5 DEF SearchOK, SearchTablesOK
<1> QED BY <1>3, <1>6, SearcherMoved

LEMMA ForgettingKeepsSearch ==
  ASSUME SearchOK, job' = job, NEW k \in DOMAIN WebLimit, ForgetAnswer(k)
  PROVE  SearchOK'
<1>1. UNCHANGED <<pc, mem, answered, browsed>> /\ cached' = [cached EXCEPT ![k] = NONE]
  BY DEF ForgetAnswer, requests
<1>2. SearchTablesOK'
  BY <1>1 DEF SearchOK, SearchTablesOK
<1>3. \A d \in Calls : SearcherOK(d)'
  BY <1>1 DEF SearchOK, SearcherOK, Op
<1> QED BY <1>2, <1>3 DEF SearchOK

\* A link a connector gives is on the allowlist.
LEMMA LinksAreAllowed ==
  ASSUME NEW p
  PROVE  LET url == SanitizeProductURL(p) IN url = NONE \/ (url.public /\ url.known)
BY DEF SanitizeProductURL, Public

\* The link of a product found is a sanitised one (discovery_service.go:85-87).
LEMMA FoundLinks ==
  ASSUME NEW shop, NEW limit, NEW k \in DOMAIN Found(shop, limit)
  PROVE  \E p : Found(shop, limit)[k].url = SanitizeProductURL(p)
<1> DEFINE whole == {n \in DOMAIN shop.items : shop.items[n].whole /\ shop.items[n].price > 0}
           items == Prefix(Select(shop.items, whole), limit)
           product(n) == [price |-> items[n].price, url |-> SanitizeProductURL(items[n].url),
                          confidence |-> RankConfidence(n - 1)]
<1>1. Found(shop, limit) = [n \in DOMAIN items |-> product(n)]
  BY DEF Found
<1>2. product(k).url = SanitizeProductURL(items[k].url)
  OBVIOUS
<1> HIDE DEF items, whole, product
<1>3. Found(shop, limit)[k] = product(k)
  BY <1>1
<1> QED BY <1>2, <1>3

LEMMA BrowsingKeepsSearch ==
  ASSUME RequestsOK, SearchOK, job' = job, NEW c \in Calls, BrowseShops(c) \/ BrowseShop(c) \/ ShowShops(c)
  PROVE  SearchOK'
<1>1. CASE BrowseShops(c)
  <2> DEFINE m == [left |-> Shops, shown |-> {}]
  <2>1. Keep(c, m, "browse") /\ Allowed(m.shown) /\ UNCHANGED searchVars
    BY <1>1 DEF BrowseShops, Allowed
  <2> HIDE DEF m
  <2> QED BY <2>1, SearcherMoved, SearchTablesStay
<1>2. CASE BrowseShop(c)
  <2>1. PICK shop \in mem[c].left, answers \in BOOLEAN :
          LET handoff == SanitizeProductURL(shop.page)
              found == SearchShop(shop, answers)
              new == CASE ~shop.search /\ handoff # NONE -> {[shop |-> shop, products |-> <<>>, link |-> handoff]}
                       [] found # <<>>                -> {[shop |-> shop, products |-> found, link |-> NONE]}
                       [] OTHER                       -> {}
          IN  Keep(c, [left |-> mem[c].left \ {shop}, shown |-> mem[c].shown \cup new], "browse")
    BY <1>2 DEF BrowseShop
  <2> DEFINE handoff == SanitizeProductURL(shop.page)
             found == SearchShop(shop, answers)
             new == CASE ~shop.search /\ handoff # NONE -> {[shop |-> shop, products |-> <<>>, link |-> handoff]}
                      [] found # <<>>                -> {[shop |-> shop, products |-> found, link |-> NONE]}
                      [] OTHER                       -> {}
             m == [left |-> mem[c].left \ {shop}, shown |-> mem[c].shown \cup new]
  <2>2. Keep(c, m, "browse")
    BY <2>1
  <2>3. handoff = NONE \/ (handoff.public /\ handoff.known)
    BY LinksAreAllowed
  <2>4. \A k \in DOMAIN found : found[k].url = NONE \/ (found[k].url.public /\ found[k].url.known)
    <3>1. CASE found = <<>>
      BY <3>1
    <3>2. CASE found = Found(shop, ShopLimit)
      <4>1. \A k \in DOMAIN found : \E p : found[k].url = SanitizeProductURL(p)
        BY <3>2, FoundLinks
      <4> HIDE DEF found
      <4> QED BY <4>1, LinksAreAllowed
    <3> QED BY <3>1, <3>2 DEF SearchShop
  <2> HIDE DEF handoff, found
  <2>5. \/ new = {[shop |-> shop, products |-> <<>>, link |-> handoff]}
        \/ new = {[shop |-> shop, products |-> found, link |-> NONE]}
        \/ new = {}
    OBVIOUS
  <2> HIDE DEF new
  <2>6. Allowed(new)
    <3>1. CASE new = {[shop |-> shop, products |-> <<>>, link |-> handoff]}
      BY <2>3, <3>1 DEF Allowed
    <3>2. CASE new = {[shop |-> shop, products |-> found, link |-> NONE]}
      BY <2>4, <3>2 DEF Allowed
    <3>3. CASE new = {}
      BY <3>3 DEF Allowed
    <3> QED BY <2>5, <3>1, <3>2, <3>3
  <2>7. Allowed(mem[c].shown)
    BY <1>2 DEF BrowseShop, At, SearchOK, SearcherOK
  <2>8. Allowed(m.shown)
    BY <2>6, <2>7 DEF Allowed
  <2> HIDE DEF m
  <2> QED BY <1>2, <2>2, <2>8, SearcherMoved, SearchTablesStay DEF BrowseShop
<1>3. CASE ShowShops(c)
  <2>1. Allowed(mem[c].shown)
    BY <1>3 DEF ShowShops, At, SearchOK, SearcherOK
  <2>2. /\ browsed' = browsed \cup {mem[c].shown} /\ UNCHANGED <<cached, answered>>
        /\ Keep(c, NONE, "done")
    BY <1>3 DEF ShowShops, Done
  <2>3. SearchTablesOK'
    BY <2>1, <2>2 DEF SearchOK, SearchTablesOK
  <2> QED BY <2>2, <2>3, SearcherMoved
<1> QED BY <1>1, <1>2, <1>3

LEMMA SearchHolds == Spec => []SearchOK
<1>1. ASSUME Init PROVE SearchOK
  <2>1. \A c \in Calls : pc[c] \in {"done", "idle"}
    BY <1>1 DEF Init, RequestsInit
  <2>2. SearchTablesOK
    BY <1>1 DEF Init, SearchInit, SearchTablesOK
  <2> QED BY <2>1, <2>2 DEF SearchOK, SearcherOK
<1>2. ASSUME RequestsOK, SearchOK, [Next]_vars PROVE SearchOK'
  <2>1. job' = job
    BY <1>2, OthersStay
  <2>2. CASE Stays(SearchOps, SearchLabels) /\ UNCHANGED searchVars
    <3>1. SearchTablesOK'
      BY <1>2, <2>2, SearchTablesStay
    <3>2. ASSUME NEW c \in Calls PROVE SearcherOK(c)'
      <4>1. SearcherOK(c)
        BY <1>2 DEF SearchOK
      <4> QED BY <2>1, <2>2, <4>1 DEF Stays, SearchLabels, SearcherOK, Op
    <3> QED BY <3>1, <3>2 DEF SearchOK
  <2>3. CASE SearchNext
    BY <1>2, <2>1, <2>3, AskingKeepsSearch, LookingUpKeepsSearch, AnsweringKeepsSearch, ForgettingKeepsSearch,
       BrowsingKeepsSearch
    DEF SearchNext
  <2> QED BY <1>2, <2>2, <2>3, OthersStay
<1> QED BY <1>1, <1>2, RequestsAreSorted, PTL DEF Spec

\* Whatever order the look-ups end in and whoever fills the cache, an agent is given the
\* search engine's own order, no more than it asked for and no page that is not public;
\* and a merchant's link only where the allowlist has it.
THEOREM AnswersDoComeRanked == Spec => []AnswersAreRanked
<1>1. ASSUME SearchOK PROVE AnswersAreRanked
  <2>1. \A a \in answered : Ranked(a, WebLimit[a.op])
    BY <1>1 DEF SearchOK, SearchTablesOK
  <2>2. \A shown \in browsed : Allowed(shown)
    BY <1>1 DEF SearchOK, SearchTablesOK
  <2> QED BY <2>1, <2>2 DEF AnswersAreRanked, Ranked, Allowed
<1> QED BY <1>1, SearchHolds, PTL
===============================================================================
