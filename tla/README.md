# A TLA+ development of algebra

algebra is a Go backend through which software agents shop and pay for people:
an agent proposes, a policy decides, a user approves, and only then does money
move. This directory holds TLA+ modules that model it, TLC instances that check
them, and proofs checked by TLAPS.

Paths below are relative to `src/`.

## 1. Inventory

### The parts the models cover

| Part | State | Operations | What makes it correct |
|---|---|---|---|
| **Payment intent state machine** `internal/domain/paymentintent` | none: a table | `CanTransition`, `Transition`, `Terminal`, `Valid` | the hand-written list of terminal states agrees with the table; no live state is a dead end |
| **Payment intents** `internal/app/payment_intent_service.go`, `payment_intent_transition.go`, `internal/platform/postgres/payment_intent_repo.go` | table `agentic_payment_intents`; a copy of a row in each handler | `Create` (insert, evaluate policy, settle), `Revoke`, `Execute` | a charge rests on a consent of the kind the policy decided; a row's status is backed by what happened; a success that is reported is real |
| **Approvals** `internal/app/approval_service.go`, `internal/domain/approval`, `approval_repo.go` | table `approvals` | `Approve`, `Reject`, `Reapprove`, `Executable`, `MarkConsumed` | an act of consent is spent once; a refusal is not undone by others; an expired approval is not charged |
| **Idempotency keys** `internal/app/idempotency.go`, `idempotency_repo.go` | table `idempotency_keys` by (key, scope) | `Begin`, `Complete`, `RunIdempotent` | a retry with the same key moves money once and is told the truth |
| **Demo payment provider** `providers/paymentdemo` | in memory, per process: authorizations, credentials, results by key | `ExecutePayment`, credentials | a key is charged once while the process lives |
| **Purchase intents, quotes, orders** `internal/app/{intent,discovery,quote,policy,order}_service.go`, `internal/domain/{intent,quote,order}` | tables `purchase_intents`, `quotes`, `approvals`, `orders`, `spend_ledger`; the lock `algebra:execute:<intent>` in Redis | discover, select, request, approve, reject, reapprove, execute, complete authentication, cancel, cancel the order | a charge is on terms the user consented to; one checkout per consent; limits hold; an order at the merchant is on record |
| **Policy engine, user rules** `policy/`, `internal/app/user_rules.go`, `internal/domain/account/guardrails.go` | none | one verdict per rule, the most restrictive wins | caps are refused, thresholds are asked about |
| **Circuit breaker** `internal/platform/resilience`, `callConnector` of `discovery_service.go` | state, consecutive failures, opened-at, in memory | `Allow`, `RecordSuccess`, `RecordFailure` under a mutex; the merchant is called between them without it | count and state agree; a merchant that is up comes back, one that is down stays out |
| **Billing** `internal/app/billing_service.go`, `providers/razorpay` | the user's row of `subscriptions`; events seen | checkout, confirm, status, cancel, webhook | the plan was paid for; a subscription that is paid is the one on the row |
| **Accounts, sessions, sign-in** `internal/app/account_service.go`, `internal/api/v1/auth.go`, `internal/platform/identity` | users, OAuth identities, sessions, reset tokens; one cookie per browser for a sign-in under way | sign-up, sign-in, OAuth, rename, sign-out, reset, purge | a reset ends the sessions it found; a name the user set stays; a code is redeemed by its own attempt |
| **Tenants, integrators, users, agents** `internal/app/{tenant,integrator,user,agent}_service.go`, `authz.go`, `internal/api/v1/{router,agents,users}.go` | tables of token hashes, each with `revoked_at`; the owner of an agent | create, revoke, enrol, mint; the checks before each act | nothing is done with a token already revoked, nor for a user it is not of; a session has its agent, and an agent outlives its session only where the code lets it |
| **Transaction policy** `internal/app/transaction_policy_service.go` | none | `EvaluateTransaction` | only for an integrator that is not revoked |
| **Onboarding, profile, address, cards** `internal/app/{onboarding,commerce_profile,payment}_service.go`, `internal/domain/privacy` | `user_guardrails`, `commerce_profiles`, `privacy_profiles`, `payment_sources`, the vault | the onboarding's statements, guardrails, notes by agents, adding and revoking a card | what was said is kept; an address opens; a revoked card is revoked at the vault |
| **Policy sets** `internal/app/policy_set_service.go` | versions by tenant and user | `SetPolicy` | an older version never comes back into force; a scope never loses its policy |
| **Swiggy Instamart, remote MCP session** `connectors/swiggyinstamart`, `connectors/remotemcp`, `cmd/merchant-login` | local carts, the account's one remote cart, the session file, the open session and its flags | discovery, search, checkout; login, address, unlink | an order holds what was shopped for; an outcome is reported as it was |
| **Rate limiter** `internal/platform/redis`, `rateLimitMiddleware` | counters with an expiry | `Allow` | a window admits its limit and ends |
| **Search** `internal/api/v1/search.go`, `DiscoveryService.SearchWeb`, `SearchProducts`, `connectors/{websearch,amazon,flipkart,...}` | cached answers in Redis | web search, product search | the engine's order, the limit, public and allowed links only |
| **Webhooks out and in** `internal/app/{webhook_dispatch,webhook}_service.go` | endpoints; goroutines that retry; the inbox | register, fire, deliver; receive | each wanting endpoint is tried; an inbound delivery is new once |

They interact by calls inside one request, and by the rows of Postgres, the keys of
Redis and the files that all requests share. `cmd/api` and `cmd/mcp` are separate
processes over one database, each with a demo provider of its own. There are no
transactions that span statements: a handler loads a row, checks and edits the copy, and
writes the whole row back with `UPDATE ... WHERE id`. The conditional updates are few, among them
`MarkConsumed` (`WHERE status = 'APPROVED'`), the single use of a reset token, the
insertion of an event once. This is where the hard behaviour is: any other request may run
between two statements, a request may die between two statements, a retry may run beside
the call it retries, and the outside (a gateway, Swiggy, a provider's sign-in page, a
user's browser) answers late, twice, elsewhere or not at all.

The hazards in `PROJECT.json` are the places where this bites, each with the properties
that would catch it going wrong.

### The parts they do not cover

| Part | Why |
|---|---|
| Audit and activity | append-only rows nothing decides upon, and reads |
| Encryption, text cleaning, parsing of merchants' pages and answers, HTTP clients | data transformations; a sealed box opens under the name it was sealed for, an answer arrives or does not |
| Payment capability resolver, privacy resolution | they only read |
| The crypto rail of the policy engine | no purchase or payment intent takes it |
| `Refund`, `RevokeAuthorization`, `GetPaymentStatus`, `RemoveFromCart`, `MarkProcessed` | nothing in the application calls them |
| Configuration, wiring, migrations, logging, the web console, examples | start-up and client side |
| Amounts beyond one currency and `int64` overflow | amounts are compared and added in one currency; prices are far from the bound |
| `ALGEBRA_DEV_AUTH` | a development switch that turns the credential checks off |

## 2. Modules

| Module | Models | Extends |
|---|---|---|
| `PaymentStates` | the transition table, `Terminal`, `Revoke`'s choice of target, approval statuses | |
| `PaymentIntents` | the payment services, the three tables, the provider, the requests in flight; properties and inductive invariant | `PaymentStates` |
| `ConsentLedger` | abstract specification: consents are given, spent once, and paid for | |
| `CircuitBreaker` | one breaker, its concurrent callers, the merchant behind it | |
| `PurchaseStates` | the transition table of purchase intents | |
| `Discovery` | which merchants are tried, which product is taken, what the user pays | |
| `PolicyEngine` | the verdict of a ruleset, guardrails made into rules | |
| `PurchaseOrders` | a purchase from the intent to the order | `Discovery`, `PurchaseStates`, `PolicyEngine` |
| `Requests` | requests side by side: position, memory, being cut short | |
| `Billing`, `CodeGrants`, `Accounts`, `PolicySets`, `InstamartCart`, `RateLimit`, `Search`, `Webhooks` | one service each | `Requests` |
| `Profiles`, `Tenants` | what hangs on an account; businesses and agents | `Accounts` (and `PolicyEngine`) |
| `Services` | these ten composed in one process | all of them |
| `MCPaymentIntents`, `MCCircuitBreaker`, `MCPurchaseOrders`, `MCServices` | TLC instances, twelve `.cfg` | |
| `ConsentLedgerProofs`, `CircuitBreakerProofs` | theorems of one module each | the module they are about |
| `PaymentIntentsProofs`, then `PaymentRowsProofs` | theorems of `PaymentStates` and `PaymentIntents`: the table, consents, charges, the ledger; then rows, answers and keys | |
| `FiniteFacts` | lemmas on finite sets: induction without an operator parameter, sums | |
| `PurchaseOrdersProofs` | theorems of `PurchaseOrders` | `FiniteFacts` |
| `ServicesProofs`, then `AccountsProofs` | theorems of `Services`: how requests share a process, billing, code grants, webhooks, Instamart, searches; then policy sets, limiter, profile, cards, names, sessions, tokens, types | |

### How `PaymentIntents` corresponds to the code

A *call* is one request served by a goroutine. `pc[c]` is the statement it is
at, and an action is one statement against Postgres or the provider with the Go
code around it. What each call asks for (`request[c]`: the intent, the
idempotency key or none, the process it reached) is fixed in the initial state
in every combination.

| Variable | Code |
|---|---|
| `intent[i]` | row of `agentic_payment_intents`: status, provider transaction id |
| `approval[i]` | row of `approvals`: status, and by which act it was last made APPROVED |
| `idem[i][k]` | row of `idempotency_keys`: the scope of `Execute` is the intent |
| `copy[c]` | the struct a handler holds, possibly stale when it is written |
| `expired[i]` | the clock is past `expires_at` |
| `seen[s]` | `provider.byIdempotencyKey` of a process |
| `charged` | the `Execute` calls whose payment moved money |
| `response`, `decision` | the answer of an `Execute` call, the verdict of `Create`'s evaluation |
| `granted`, `claim` | history: acts of consent, and which of them each execution claimed |

| Operation | Actions, in order |
|---|---|
| `Create` | `CreateIntent`, `StartEvaluation`, then `NoPolicy`, `Deny`, or `RequireApproval` / `Allow` and `Settle` |
| `Approve` | `CheckPending`, `Grant`, `Reload`, `Advance` |
| `Reject` | `CheckRejectable`, `Refuse`, `Reload`, `Advance` |
| `Revoke` | `LoadToRevoke`, `Withdraw` |
| `Execute` | `Begin`, `LoadIntent`, `CheckExecutable`, `StartPreparing`, `ObtainCredential` / `CredentialFails`, `MarkReady`, `MarkConsumed` / `LoseClaim`, `StartProcessing`, `ReplayPayment` / `ExecutePayment` / `PaymentError`, `RecordResult`, `Complete` |
| environment | `Expire`, `Fail` (a failing statement, a cancelled context), `Restart` of a process |

An `Approve` that comes before its intent's row exists, or a second one, or an
`Execute` of a denied intent are all behaviours: the guards of the code refuse
them, as in the code.

### Abstractions of `PaymentIntents`

* Data: an intent is its status and transaction id. Amounts, merchants,
  metadata, audit rows, outgoing webhooks and the permission checks that precede
  each operation are left out. The policy's verdict is chosen freely.
* `Begin` is an `INSERT ... ON CONFLICT DO NOTHING` followed by a `SELECT`; the
  model does both in one action, at the `SELECT`. Only the `SELECT`'s result
  matters, and the row never goes back.
* A `DECLINED` payment is a `FAILED` one: `handleExecutionResult` treats them
  alike. The provider may report any `PaymentStatus` of its interface. As
  wired today the demo provider is sent no `demo_scenario` and reports success or
  failure only; the model therefore has every behaviour of the wired system and those of
  a provider that uses the rest of the interface.
* A failed write to the database (`Fail`) has no effect. The two writes whose
  error the code drops (`_ = transitionPaymentIntent`) may or may not take place
  while the handler's copy moves on.

### How `CircuitBreaker` corresponds to the code

A request is `idle`, is let through (`AllowClosed`, `AllowHalfOpen`, `AllowTrial`:
the cases of `Allow`) or turned away (`Reject`); one that was let through gets
an answer or an error from the merchant (`CallSucceeds`, `CallFails`, within the
connector's timeout) and then reports it (`RecordSuccess`, `RecordFailure`). Reports
of calls that were let through long ago arrive in whatever state the breaker is in by
then. `s.now()` is evaluated before `RecordFailure` takes the lock, so the stamp may be
old. Time is kept as ages that stop at `ResetTimeout`, and the count of failures stops
at `FailureThreshold`: nothing else is compared with them, so behaviours are unbounded
without a bound on their length.

### How `PurchaseOrders` corresponds to the code

A call is one request; it makes one statement or one remote call per step, keeps the row
it loaded in `mem[c]` and writes it back whole. `Write` is `transitionIntent`: it checks
the table for the copy's status and writes whatever else the copy holds over the row.

| Variable | Code |
|---|---|
| `intents[i]` | row of `purchase_intents`: status, selected quote |
| `quotes[i]` | rows of `quotes` |
| `approvals[i]` | rows of `approvals` for the intent, oldest first; `lapsed` is the clock past `expires_at` |
| `orders[c]` | the row of `orders` (and of `spend_ledger`) inserted by call `c` |
| `rules` | the ruleset `RulesForUser` returns |
| `lock[i]` | the Redis key, with its owner's token |
| `offer`, `cart`, `sold` | the merchant: present terms, the cart, its orders |
| `granted`, `claim`, `seen` | history: what was consented to, which consent an execution claimed on which terms, which sales it could count |

| Operation | Actions |
|---|---|
| `Discover` | `Discover`, `FanOut` |
| `SelectQuote`, `Cancel` | `SelectQuote`, `SaveSelection`; `CancelIntent` |
| `RequestPurchase` | `EvaluateAndTransition`, `Evaluate`, `CreateApproval` |
| `Approve`, `Reject`, `Reapprove` | the read of each, `UpdateApproval`, `Reload` |
| `Execute` | `Lock`, `LoadApproved`, `Gate`, `ReadApproval`, `Refresh`, `CheckPayment`, `MarkConsumed`, `Checkout` / `CheckoutFails`, `Record` |
| `CompleteAuthentication` | `CompleteAuthentication`, `Answer` |
| `CancelOrder` | `CancelOrder`, `MerchantCancels` / `MerchantRefuses`, `UpdateStatus` |
| environment | `LockExpires`, `ApprovalExpires`, `UserAuthenticates`, `Drift` (a price moves), `Fails` |

What is abstracted: `CreateIntent`'s effect is the DRAFT row of `Init`; a request refused
at its first read changes nothing and is not started; `CompleteAuthentication` is given the id
of any order the merchant has, whichever intent's sale it is of, or one it does not know;
`RunIdempotent` is modelled once, in
`PaymentIntents`; events, audit rows, the delivery address (resolved before the claim, its
failure is `Fails` there) are left out. A workload has one discovery per intent, since the
cart is the intent's. `EvaluatePayment` never asks for an approval, so the branch of
`CheckPayment` that would is dead, as in the code.

### How the modules of `Services` correspond to the code

Each has the tables, keys and files of its service as variables, an action per statement
or remote call, named for the function it is in, and its own environment. Rows are named by
the request that made them. `job` says which request does what; `cut` holds those
that were cut short by an error or the death of their process, `job.slow` lets
deadlines pass and the outside act.

* `Billing`. `gateway[s]` is Razorpay's view, external: users pay, renewals fail and
  recover or fail for good, and each move from one status to another is made once. `notices` are events it has sent, which may be
  delivered in any order and again. `ApplyGateway` is the mapping all writers use.
* `CodeGrants`. Both authorization-code flows. A sign-in: `OauthStart` overwrites the
  browser's one cookie, `OauthCallback` verifies state against whatever cookie is there
  (clearing it is one step with the callback), `ExchangeProfile` redeems. A merchant
  login: `DiscoverServer`, `RegisterClient`, `ShowURL` (which takes the loopback port),
  `Redirected`, `TakeRedirect` or `TimesOut`, `ExchangeCode`. Sites are reduced to what
  `Login` refuses or accepts; scopes are data.
* `Accounts`, `Profiles`. `CreateAgent` and `CreateSession` are the two rows of a
  sign-in; `RevokeSession` and `RevokeAgent` the two of a sign-out. `MergePreferences` and
  `Put` write the profile and the address whole.
* `Tenants`. A bearer token stands for its row. An act reads the credential
  (`Resolve...`), then does what it does; `RequireOwnedIntent` reads the agent again.
  An act is recorded at that check: the statements after it run on even if the agent is
  revoked meanwhile. Revoking a tenant leaves its users and agents as they are: nothing in
  the code or docs says otherwise. A person may revoke a session's agent by its id; the
  session then stays, with a dead agent (`disowned`).
* `PolicySets`. `SetPolicy` reads the version, `SupersedeActive`, `CreatePolicySet`.
* `InstamartCart`. `remote` is the account's one cart at Swiggy, `holder` is `remoteMu`,
  `link` the session file, `session` the copy the client is open with, `dead` the grants
  Swiggy answers 401. `ExecuteCheckout` keeps the cart it holds a pointer to. Lines are
  sets of items, so a capped quantity is an adopted line; `GetOrder` and `CancelOrder`
  change nothing; a quoted cart is executed once because its approval is.
* `RateLimit`. `Allow` is `INCR`, `SetExpiry` the `EXPIRE` after it; `FailOpen` a Redis
  that does not answer, whether it ran the command or not.
* `Search`. The look-ups of `Gemini.verify` end in any order (`Resolve`), `Collect`
  reads the slots. Shops are visited in any order, as the registry's map is.
* `Webhooks`. `Dispatch` starts a goroutine per endpoint in `sending`; `Delivered` and
  `NotDelivered` are an attempt; `ForgetDeliveries` is a restart. `Receive` verifies,
  inserts once, answers.

## 3. Runs

| Run | Instance | Question | Distinct states |
|---|---|---|---|
| `payment_races` | 1 intent, 2 Approve, 1 Revoke, 2 Execute, 1 key, 1 process, no failures | can money move without a consent, or twice on one? | 604 647 |
| `payment_decisions` | 1 intent, Approve, Reject, Revoke, Execute, expiry, 1 failure or restart, fairness | what do refusal, expiry and failure leave behind? | 152 074 |
| `payment_keys` | 2 intents, 2 Execute, 1 key, 2 processes, 1 failure or restart | can a success be reported that did not happen? | 1 092 536 |
| `payment_terminal` | 1 intent, Revoke, Execute | violates `TerminalIsFinal` | |
| `payment_claims` | 1 intent, 2 Approve, 2 Execute | violates `ClaimedByOneCaller` | |
| `payment_replay` | 1 intent, 2 Execute, 1 key | violates `FirstResultIsKept` | |
| `breaker_calls` | 3 requests at a time, threshold 2, reset after 2 ticks, fairness | do stragglers leave count and state at odds; is a merchant let back, or kept out, for good? | 218 229 |
| `breaker_trials` | 2 requests, threshold 1 | violates `OneTrialCall` | |
| `orders` | 11 workloads of up to 5 requests over 1 or 2 intents, fairness | is a purchase charged only as consented, once, within limits, and does it end on record? | 192 683 |
| `orders_threshold` | request, execute, one price change | violates `ThresholdNeedsUser` | |
| `services` | 35 workloads of up to 5 requests | what do requests side by side, failures and time leave in the other services' records? | 288 991 |
| `billing_retry` | checkout, two deliveries, one failure | violates `AckedWasHandled` | |

### Bounds, and why they are enough to be interesting

* *Calls.* The hazards need two writers and a reader of one row. Two executions
  are the fewest that can share a consent or a key; two approvals the fewest in
  which one renews what an execution has consumed between the other's check and
  its write. One revocation overwrites or is overwritten by each of them.
* *Intents.* Payment intents share nothing but keys and the provider's memory of keys,
  so `payment_keys` has two and the other runs one. Purchases share the day's limit and the
  month's quota: the two spending workloads have two intents, one with a quota of 1 and one
  with a limit that two purchases pass together.
* *Keys and processes.* One key can be shared or not used by a request. Two
  processes are the fewest for which a key can be known to one and not the other.
* *Failures.* `MaxFaults`, `job.faults` bound failed calls plus restarts in a
  behaviour: one is enough to stop any handler after any statement. `ShortLived` names the
  payment intents whose approval may expire while the calls run.
* *Breaker.* Three requests leave one straggler from before the breaker opened beside two
  that meet in HALF_OPEN; two failures are the fewest that must be consecutive, and two
  ticks the fewest that tell a fresh stamp from an old one.
* *Purchases.* Of the three offers two differ within the tolerance and across the approval
  threshold, the third is outside. `drifts` bounds price changes (one moves the price under
  an execution), `slow` lets locks and approvals run out. Three executions of one intent meet
  both together, and so do two with a renewed approval; three with a renewed approval meet
  one or the other.
* *Services.* A workload of `MCServices` is a set of requests that share rows: one service
  at a time, except where sign-ins, sessions, agents and profiles meet. Two of a kind race
  each other; a third is a reader, or a writer that comes after. The gateway goes through
  each status once; a window of the limiter admits 1 sign-in and 2 requests; searches give
  one result or two out of lists that repeat, end inside the network, or are empty.
* *Symmetry* permutes calls of a kind, keys and processes in the payment runs without
  liveness: requests take every assignment initially, so permuted behaviours are
  behaviours. *VIEW* drops the copy of a call that has returned, which nothing reads.

In `PaymentIntents` every behaviour ends when all calls have been answered; `Quiescent` lets
it stutter there, so deadlock is checked and a deadlock would be a handler that can
neither continue nor return. In `PurchaseOrders` and `Services` deadlock is not checked:
the requests of a workload simply end, and some may never be possible to start.

### Fairness

Weak fairness of a call's next statement once it has started: a goroutine is scheduled
again until it returns, and each statement returns (drivers and HTTP clients have timeouts;
a timeout is a failure). Nothing is assumed about requests being sent. `ChargeIsReported`
rests on it; `ExecutionSettles` needs less, that while requests run one of them goes on.
For the breaker, a call ends and reports, and the clock ticks; that requests keep coming, and that the merchant stays up or down, are hypotheses of
`Recovers` and `Isolates`.

### What the properties say

| Property | In words |
|---|---|
| `ConsentSpentOnce` | no two executions claim the same act of consent |
| `ChargeFollowsPolicy` | money moves on the policy's own consent if it allowed the payment, on a user's if it asked for one, never if it denied |
| `AutoApprovedChargedOnce` | a payment allowed without a user is charged at most once |
| `StatusBacked` | AUTHORIZED up to READY_TO_EXECUTE only if someone consented, PROCESSING and after only if an execution claimed, even when the row was written from a stale copy |
| `OneChargePerKey` | the same intent and key through the same process charges once, also when two approvals renew the consent |
| `SuccessIsReal` | a row or an answer saying SUCCEEDED names a charge; for this intent if clients do not share keys among intents |
| `RejectionSticks` | only an Approve that had read PENDING can undo a refusal |
| `ExpiredIsNotCharged` | an execution without a credential when the approval expires never charges |
| `ChargeIsReported` | after a charge the row gets the transaction, or the caller is told of a failure |
| `ImplementsLedger` | the payment services, and the purchase services, refine `ConsentLedger` |
| `ClosedBelowThreshold` | the breaker is closed exactly while fewer than the threshold of failures were reported since the last success |
| `Recovers`, `Isolates` | if requests keep coming, a merchant that is up for good ends up behind a closed breaker, one that is down for good behind one that never closes |
| `ChargeWasConsented` | what the merchant charges was consented to within the tolerance, unless its price moved after the last refresh |
| `SuccessHasOrder` | a purchase that says SUCCEEDED has an order on record, inserted for it, of a sale the merchant made to an execution with a consent spent: its own, or any one if an authentication was completed |
| `CancelledAtMerchant` | an order cancelled here was cancelled there; without a failure, the other way round too |
| `CapsNeedOverlap` | the month's quota, and the day's limit if there is one and it stays, are passed only by executions that overlapped, as long as prices stand between the last check and the checkout and no merchant pays the user |
| `ExecutionSettles` | without a failure no purchase stays EXECUTING, and every sale the merchant reported gets on record |
| `PlanWasPaidFor` | a row that grants a plan names a subscription its user paid |
| `PaidIsRemembered` | a subscription that is paid is the one on the row, unless a checkout that had found it unfinished after a day replaced it, or a request that had not read it wrote over it |
| `ResetEndsSessions` | a reset that answers success has ended every session that was on record when it set the password, but for one whose own sign-out failed in it |
| `AgentsFollowOwners` | an active session has its agent, unless its person revoked it; at rest a live agent has its active session, whatever failed, unless the session ran out or its sign-in or sign-out failed between the two rows; nothing is done with a token already revoked, nor for someone else's user |
| `OwnNameKept` | a provider's sign-in leaves the user's own name alone, unless it had read the profile before |
| `PolicyInForce` | after overlapping `SetPolicy` no older version is in force, and no scope lost its policy |
| `RecordsAgree` | attributes, address and cards stay as they were said, but for overlapping whole-row writes |
| `OrderHoldsCart` | Swiggy's order holds what its discovery put in the cart, unless the user edited it in between |
| `ReportedTruly` | an order that was placed is not reported as failed |
| `WindowsHold` | a window admits its limit and ends, unless its EXPIRE was lost, or never sent since the first INCR went unanswered |
| `CodesAreOwn` | an authorization code is redeemed by the attempt it was issued to |
| `AnswersAreRanked` | the engine's order, no more than the limit, public and allowed links |
| `HooksArrive` | each endpoint that wants an event is told, or tried three times, or forgotten by a restart; no other is; an inbound delivery is new once |

`TypeOK` of `PaymentIntents` and of `CircuitBreaker` is proved for every instance, so no
run repeats it; `payment_keys` does not repeat the refinement, which is proved as well.

### What the code does not keep

Six statements of the repository are violated by a run:

1. *"Terminal states: no outbound edges."* (`state_machine.go:42`). True of the
   table, not of the rows: the check is made on the handler's copy and the
   `UPDATE` has no condition. A Revoke loads the DRAFT `Create` has inserted and writes
   CANCELLED; `Create` goes on from its own copy and writes POLICY_EVALUATING over it, so a
   withdrawn payment is evaluated after all.
2. `MarkConsumed` *"only ever succeeds for one caller even under concurrent
   execution attempts"* (`approval_repo.go:63`). The statement itself does, but a
   late `Approve` writes APPROVED over CONSUMED. Two claims then rest on two acts of
   consent, which is what `ConsentSpentOnce` says exactly.
3. A second call with a key *"replays the first call's result"*
   (`idempotency.go:9`). A call let through while the first is in progress
   overwrites the stored result when it ends.
4. The breaker *"allows exactly one trial call (HalfOpen)"* (`circuit_breaker.go:33`).
   `Allow` has no case for HALF_OPEN: everyone passes while the trial runs.
5. An amount that newly reaches the approval threshold does not go through without the
   user (`order_service.go:213-223`). The check before the checkout is
   `EvaluatePayment`, which never asks for an approval.
6. An event on record was *"already applied"* (`billing_service.go:298-300`). It is
   put on record first; when what follows fails, the gateway's retry is taken for a replay.

Read while modelling, and stated as the exceptions of the properties above or left without
a run:

* a checkout whose session ended is reported as *"session expired before the order was
  accepted"* although Swiggy may have accepted it (`ReportedTruly`);
* whole-row writes of the commerce profile lose updates (`CommerceProfileRepo.Upsert` says
  there is *"no partial-update ambiguity"*); a refresh of a token saves the session over a
  relink or an unlink; a failed save leaves the stored refresh token behind;
* after a restart the sandbox vault has forgotten its cards and revoking one fails for good;
* an `EXPIRE` that is lost or never sent turns a caller away for good (`WindowsHold`), where `router.go:189` says
  an outage of the cache must not do that;
* overlapping `SetPolicy` may number two versions alike; a crash between superseding and
  creating leaves a scope without an active policy;
* a console agent of a session that ran out stays live for good: the purge deletes the session
  only, where `account_repo.go:211-212` and `router.go:289-292` take the agent to be revoked.
  So does that of a sign-in or sign-out that fails between its two rows (`AgentsFollowOwners`);
* a reset drops the error of a sign-out (`account_service.go:427-430`) and answers success
  with that session alive, where it *"signs out every existing session"* (402-404); so does a
  sign-in that had checked the old password and stores its session later (`ResetEndsSessions`);
* a checkout replaces an unfinished one of more than a day ago without asking the gateway
  whether it has been paid (`billing_service.go:162-180`, `PaidIsRemembered`);
* `CompleteAuthentication` records the merchant order its caller names
  (`order_service.go:341,365-378`) without comparing it with the challenge: an intent may
  succeed on another's sale, or on one that is on record already (`SuccessHasOrder`);
* the day's limit sums the orders on record. A limit of 0 is none; a bill below zero, which
  `parseDisplayAmount` of the Instamart connector reads (`connector.go:1064`), makes room for more
  than the limit; an order that `CompleteAuthentication` records from a read made before a
  cancellation counts although the merchant has cancelled it (`CapsNeedOverlap`);
* `Cancel` of a subscription cancels outright when its row lags the gateway; a purchase
  whose approval expired stays unexecutable after `Reapprove`;
* an error while storing an inbound webhook is answered 401; an outbound one is lost when
  the request's context is cancelled before the endpoints are read, and is sent even when
  the write of the status it announces failed;
* `commerce.web_search` says it never returns a price; the Gemini searcher does.

## 4. Proofs

| Theorem | Module | Shows |
|---|---|---|
| `LedgerSpendsOnce` | `ConsentLedgerProofs` | the ledger spends a consent once |
| `BreakerTypes`, `CountMatchesState` | `CircuitBreakerProofs` | `[]TypeOK`, `[]ClosedBelowThreshold` |
| `TerminalMeansNoEdge`, `RevokeIsTerminal` | `PaymentIntentsProofs` | facts of the transition table |
| `TypeCorrect`, `Accounts` | " | `[]TypeOK`, `[]ConsentsAccounted` |
| `NoConsentIsSpentTwice` | " | `[]ConsentSpentOnce` |
| `ChargesFollowPolicy` | " | `[]ChargeFollowsPolicy` |
| `AutoApprovedIsChargedOnce` | " | `[]AutoApprovedChargedOnce` |
| `RejectionStands` | " | `RejectionSticks`, an action property |
| `ExpiredNeverCharges` | " | `ExpiredIsNotCharged`, an action property |
| `ServicesKeepTheLedger` | " | the payment services implement `ConsentLedger` |
| `RowsAreAccounted` | `PaymentRowsProofs` | the invariant of rows, copies, keys and answers |
| `StatusIsBacked` | " | `[]StatusBacked` |
| `SuccessesAreReal` | " | `[]SuccessIsReal` |
| `RetriesChargeOnce` | " | `[]OneChargePerKey`, if no provider loses its memory |
| `OrdersAreAccounted`, `OrderTypes` | `PurchaseOrdersProofs` | the invariant of purchases, `[]TypeOK` |
| `ChargesWereConsented` | " | `[]ChargeWasConsented` |
| `SuccessesHaveOrders` | " | `[]SuccessHasOrder` |
| `CancelsReachTheMerchant` | " | `[]CancelledAtMerchant` |
| `CapsAreAccounted`, `CapsDoNeedOverlap` | " | what an execution had seen when it was let through, `[]CapsNeedOverlap` |
| `PurchasesKeepTheLedger` | " | the purchase services implement `ConsentLedger` |
| `RequestsAreSorted` | `ServicesProofs` | a request is only ever at the statements of its own service |
| `CodesStayOwn` | " | `[]CodesAreOwn` |
| `PlansArePaidFor`, `PaymentsAreRemembered` | " | `[]PlanWasPaidFor`, `[]PaidIsRemembered` |
| `HooksDoArrive` | " | `[]HooksArrive` |
| `OrdersHoldTheirCarts`, `ReportsAreTrue` | " | `[]OrderHoldsCart`, `[]ReportedTruly` |
| `AnswersDoComeRanked` | " | `[]AnswersAreRanked` |
| `PoliciesAreInForce` | `AccountsProofs` | `[]PolicyInForce` |
| `WindowsDoHold` | " | `[]WindowsHold` |
| `RecordsDoAgree` | " | `[]RecordsAgree` |
| `NamesAreKept` | " | `OwnNameKept`, an action property |
| `ResetsEndSessions` | " | `[]ResetEndsSessions` |
| `AgentsDoFollowOwners` | " | `[]AgentsFollowOwners` |
| `ServiceTypesHold` | " | `[]ServicesTypeOK` |

Each is a theorem about `Spec` for all values of the constants: any set of requests, intents,
keys and processes (a finite one in `Services`), any workload, any number of failures. The assumptions
are those the modules name, and TLC evaluates them in the runs:

* `PaymentIntents`: the sets of calls are disjoint, `Nobody` is no call and `NoKey` no key
  (`CallsAreDistinct`, `NoneIsNone`); bounds are a subset and a natural number
  (`BoundsAreBounds`).
* `CircuitBreaker`: threshold and timeout are positive; the wiring uses 5 and 30 s
  (`ThresholdAssumption`, `TimeoutAssumption`).
* `PurchaseOrders`: a workload gives each call an operation and an intent, and an intent it
  calls ready has a merchant that quotes for it; quotas are natural numbers and limits integers
  (`WorkloadsAssumption`); amounts are integers (`OffersAssumption`).
* `Services`: the requests so far are finitely many (`CallsAssumption`); a web search is asked for
  by operations that are nobody else's (`SearchOpsAssumption`); limits are natural numbers
  (`LimitAssumption`, `AdmissionAssumption`); what an engine lists is a sequence
  (`ListingsAssumption`); the linked account has an address (`AddressAssumption`).
* `NoneAssumption`, `NoSubscriptionAssumption`, `NobodyAssumption`, `NoPolicySetAssumption`,
  `NoAccountAssumption`, `NoProfileAssumption`, `NoKeyAssumption` say that the absent row is not a row.

### Consents and charges (`PaymentIntentsProofs`)

None of the safety properties is inductive: that a claim is
new follows from the approval being APPROVED by an act nobody has claimed,
which holds because an act of consent is written once, by a call that has
not consented before; for the policy's own consent because a Create call decides
once; for a user's because an Approve call that stands at `grant` has not
granted. `ConsentsAccounted` says all this, part by part: what is true before the
decision (`UndecidedIsBlank`), that a pending approval was requested by the policy
(`PendingWasRequested`), where deciding calls stand (`DecidersWait`), that consents are of
the decided kind (`ConsentFollowsPolicy`), that APPROVED is unclaimed
(`ApprovedIsUnclaimed`), that claims were granted (`ClaimsAreGranted`), and that an
execution claims once, then charges once (`ClaimThenCharge`). The step proof
sorts the actions in two: those that leave decision, approvals and the ledger alone and
promise nothing new of the call (`QuietStep`), and those that decide, consent, refuse, claim or
charge, each with a step of its own.
`ServicesKeepTheLedger` uses the invariant to show that `Allow` and `Grant` are
the ledger's `Grant`, `MarkConsumed` its `Spend`, a successful `ExecutePayment` its
`Pay`, and that every other step changes nothing of it. `ExpiredNeverCharges` rests on
an invariant of its own for one execution: once it stands before the credential with the
approval expired, it is barred from every statement after it.

### Rows, answers and keys (`PaymentRowsProofs`)

A handler writes its copy over the row, so a row is only as good as all the copies that may
still be written. `RowsAccounted` therefore says of rows and of copies, statement by
statement, what the status they hold, or are about to write, rests on: a consent, a claim, a
charge. What they rest on only grows, which is why a stale copy does no harm. A provider's
memory of a key names a charge, and so does a stored result; that gives `SuccessIsReal`.
`OneChargePerKey` is proved for the behaviours in which no provider forgets
(`[][MemoryKept]_vars`); its runs have no restart either. With one it is false: the provider keeps
its keys in a map of the process, so a retry after a restart charges again.

### Purchases (`PurchaseOrdersProofs`)

`OrdersAccounted` has four parts: `Types`; `Tables`, what each table rests on in the others
(an approval on a request with its terms, a claim on a consent nobody else claimed,
an order on a sale with a consent spent, a status on an order); `Call(c)`, what a request relies
on at each statement, for instance that an execution at the checkout has a claim on the
terms it refreshed; and `CancelsArrive`, that a cancellation at the merchant is recorded or is about
to be. A step changes one call and a row or two; `StepOf` needs the step's own call, the tables, and
that the tables have only grown (`Grows`) in what other calls rely on. The refinement follows as
above: `CreateApproval` and `UpdateApproval` are the ledger's `Grant`, `MarkConsumed` its `Spend`,
`Checkout` its `Pay`.

The caps need counting and adding. The library's induction theorems take a predicate, which the
provers cannot instantiate, so `FiniteFacts` states induction of a set of values (the numbers, or
the subsets, of which something holds) and proves it from `WFMin`: what fails somewhere fails first
somewhere. From it follows what `SumFunction` adds up: that sums exist (`SumsExist`), that one more
summand adds itself (`TotalAddsOne`), that a sum may be taken along a one-to-one renaming
(`TotalMoves`), and that part of a sum of natural numbers is no more than the whole (`TotalOfPart`).
`CapsAccounted` says what an execution saw when it was let through: fewer orders than the quota
and, unless its user moves the cap, a spend that leaves room for its own amount. Among sales that do
not overlap pairwise there is one that saw all the others (`LastSawAll`); it was let
through with those on record, each named by exactly one live order (`LiveCovers`), so number and sum of
all are within the caps.

### Services (`ServicesProofs`, `AccountsProofs`)

The frame comes first. `RequestsOK` says that a request of an operation is only at the labels of
that operation's service, or idle or done; so a step of one service moves no request of another
(`Moves`, `Stays`, `OthersStay`), and each service's invariant has to be shown for its own steps only.
The invariants:

* *Billing*. `Backed`: a status seen anywhere (the row, a copy, an event) that grants a plan was
  paid for at the gateway, and one that is terminal is terminal there. `TakenOver`: a checkout about to write a new subscription has
  read a row that had ended, or was unfinished a day after it was made.
* *Code grants*. The memory at the redemption names the call itself.
* *Webhooks*. Each pair of endpoint and event is answered, rightful or a newcomer; the inbox
  holds exactly the deliveries that were new.
* *Instamart*. While a request checks the cart it holds the lock, so what it read is what Swiggy
  has, unless the user edited it, which is remembered.
* *Policy sets*. A scope without a live version has a request between its two statements
  (`Replacing`); a version remembered as older stays superseded.
* *Limiter*. The counter of a window is at least the number admitted; a window without an expiry
  has an opener about to set it, or is stuck. `FiniteSetTheorems` counts.
* *Profile, cards, names*. A copy that will be written back holds all that was said and not
  raced over; a card is revoked at the vault before it is in the table; a copy without a
  name was read before anybody set one (`OwnSeen`).
* *Sessions*. A session is made once, by the sign-in that ends with it, and is never active again.
  Who ends sessions holds those it has left, so an agent without an active session is still to be
  revoked, or given one, by somebody (`Ending`), or it is stranded: put down by name when its session
  runs out or the request it was left to fails. What a reset owes is ended or in its list
  (`ResetOK`).
* *Tokens*. Rows of `keys` and owners of users stay; a token a request resolved was not revoked
  when it came in, and is carried unchanged to the act (`BearerOK`, `ActOK`).
* *Searches*. `Select` takes the positions of a list that pass a test, in order (`Nth`, by
  counting). Positions have different ranks, so every rank up to their number is taken, which is what
  makes `Select` defined and increasing. A slot a look-up has filled holds its own
  listing's link, and an answer in the cache was an answer once (`SearchOK`).
* *Types* (`TypesOK`). What a request remembers has the type of the table it read and will write: a
  checkout holds a copy of the cart of a discovery that is over (`CartsOK`), a mint names the owner
  it found (`MinterOK`). A version number is no higher than there are versions of its scope, which
  are never fewer than a request has seen (`NumbersOK`); a counter has counted only requests that
  are past it (`CountsOK`).

All of these invariants were first checked by TLC on the runs' instances. Proofs that failed showed
where definitions were loose, and changed them: two `CASE` expressions with overlapping guards
(`Worst`, `AuthMethod`) left the choice of the first to TLC where Go's order makes it, and
`CapsNeedOverlap` lacked the conditions named in section 3.

### Only model-checked

* `ChargeIsReported`, `ExecutionSettles`, `Recovers`, `Isolates`: liveness under fairness.

## 5. Plan

All components with a protocol are modelled and every safety invariant and action property of the
runs is proved. What could follow:

1. `ChargeIsReported` and `ExecutionSettles` rest on fairness. Their safety half, that a charge is in
   the row, in the answer, or in the hands of a request that will write one of them, can be stated
   as an invariant and proved like the others.
2. Money in several currencies and 64-bit sums, once the application converts between currencies.
