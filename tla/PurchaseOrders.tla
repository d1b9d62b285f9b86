---------------------------- MODULE PurchaseOrders ----------------------------
(***************************************************************************)
(* A purchase from the intent to the merchant's order: IntentService,      *)
(* DiscoveryService, QuoteService, PolicyService, ApprovalService and      *)
(* OrderService over the tables purchase_intents, approvals and orders,    *)
(* the execution lock in Redis and a merchant.                             *)
(*                                                                         *)
(* One user.  A call is one request; it starts at pc "idle", keeps what it *)
(* has read in mem, makes one statement or one remote call per step and    *)
(* ends at "done".  A request refused at its first read changes nothing    *)
(* and is not started.  An intent's row is always written whole, from the  *)
(* copy the handler holds (transitionIntent), and so is an approval's,     *)
(* except by MarkConsumed.                                                 *)
(***************************************************************************)
EXTENDS Discovery, PurchaseStates, PolicyEngine, FiniteSets, FiniteSetsExt

CONSTANTS
  Calls, Intents,
  Workloads,        \* what is asked of the services: op and on, each call's operation
                    \* and intent; ready, the intents with a selected quote; default,
                    \* the platform's rules; first, the
                    \* merchant's terms at the start; quota, the orders a month on the
                    \* user's plan; and three bounds: slow, whether locks and approvals run
                    \* out meanwhile; drifts, price changes; faults, requests cut short
  Connectors,       \* the merchants: capabilities and what their search returns
  Wants,            \* the constraints of each intent
  Offers,           \* the terms a merchant may give: unit price, coupon, fees
  Forms,            \* the guardrails the user may send
  PlatformMax, KnownCategories,
  Tolerance         \* how far the total may move without a new approval

VARIABLES
  job,              \* the workload
  pc, mem,          \* each call's position and what it remembers
  intents,          \* purchase_intents: [status, quote]; the quote is the selected one
  quotes,           \* checkout quotes on file: [merchant, terms]
  approvals,        \* approvals of each intent, oldest first
  orders,           \* orders, by the call that inserted the row: [of, status]
  rules,            \* the rules the user's purchases are judged by
  lock,             \* algebra:execute:<intent>
  offer, cart,      \* the merchant's present terms; whether the cart is there
  sold,             \* the merchant's orders, by execution: [amount, state, told]
  granted,          \* history: the terms each consenting call consented to
  claim,            \* history: the consent each execution claimed, and the terms it had
                    \* just been given: [by, terms]
  seen,             \* history: the sales on record when an execution passed the gate
  drifts, faults

Operations == {"discover", "select", "cancel", "request", "limit", "approve", "reject", "reapprove",
               "execute", "authenticate", "cancel_order", "none"}

\* What the tables and the merchant keep.
Terms == Offers \cup {NONE}
Quote == [merchant : DOMAIN Connectors, terms : Offers]
PurchaseIntent == [status : Status, quote : Quote \cup {NONE}]
ApprovalRow == [status : {"PENDING", "APPROVED", "REJECTED", "REAPPROVAL_REQUIRED", "CONSUMED"},
                terms : Offers, by : Calls, lapsed : BOOLEAN]
Order == [of : Calls, status : {"PLACED", "CANCELLED"}]
Sale == [amount : Int, state : {"PENDING", "PLACED", "CANCELLED"},
         told : {"SUCCEEDED", "AUTHENTICATION_REQUIRED", "MERCHANT_INTERVENTION_REQUIRED"}]
Claim == [by : Calls, terms : Offers]

\* What a workload asks is about the intents there are, at terms that are terms; an
\* intent that has a quote at the start has it from a merchant that could quote.
ASSUME WorkloadsAssumption ==
  \A j \in Workloads :
    /\ j.op \in [Calls -> Operations] /\ j.on \in [Calls -> Intents]
    /\ j.first \in Offers /\ j.quota \in Nat /\ j.default.maxPerDay \in Int
    /\ \A i \in j.ready : Quotable(Connectors, Wants[i]) # {}
ASSUME OffersAssumption == Offers \subseteq [unit : Int, coupon : Int, fees : Int]
\* No row is not a row.
ASSUME NoneAssumption ==
  NONE \notin Calls \cup Offers /\ NONE \notin Quote \cup Order \cup Sale \cup Claim

handlers == <<pc, mem>>
rows == <<intents, quotes, approvals, orders>>
shop == <<offer, cart, sold>>
history == <<granted, claim, seen>>
bounds == <<drifts, faults>>
vars == <<job, handlers, rows, rules, lock, shop, history, bounds>>

-----------------------------------------------------------------------------
Op(c) == job.op[c]
On(c) == job.on[c]
ByOp(ops) == {c \in Calls : Op(c) \in ops}
Rulesets == {job.default} \cup {ToRules(Normalize(g), job.default) : g \in Forms}

Created == [status |-> "DRAFT", quote |-> NONE]
Fresh == [row |-> Created, path |-> <<>>, then |-> "return", at |-> 0, a |-> NONE,
          offer |-> NONE, sale |-> NONE]

\* A call goes on at a label; remembering m; by writing the statuses of path.
Goto(c, label) == pc' = [pc EXCEPT ![c] = label] /\ UNCHANGED mem
Keep(c, m, label) == pc' = [pc EXCEPT ![c] = label] /\ mem' = [mem EXCEPT ![c] = m]
Move(c, m, path, then) == Keep(c, [m EXCEPT !.path = path, !.then = then], "write")

\* requireOwnedIntent by an operation that goes on only from some statuses.
Opens(c, op, label, from) ==
  /\ Op(c) = op /\ pc[c] = label
  /\ intents[On(c)].status \in from
Before(to) == {s \in Status : CanMove(s, to)}
Loaded(c) == [mem[c] EXCEPT !.row = intents[On(c)]]

Live == {r \in Calls : orders[r] # NONE /\ orders[r].status # "CANCELLED"}
Placed == {e \in Calls : sold[e] # NONE /\ sold[e].state # "PENDING"}
\* SpendToday and CountExecutionsSince: sums over the rows that count.
SpendToday == SumFunction([r \in Live |-> sold[orders[r].of].amount])
\* Broken variant: one order too many.
CheckExecutionLate == Cardinality(Live) <= job.quota
CheckExecution == Cardinality(Live) < job.quota

\* CanonicalHash and Matches: the unit price to the paisa, the total within tolerance.
Matches(a, o) ==
  /\ a.terms.unit = o.unit
  /\ FinalPayable(o) - FinalPayable(a.terms) \in (-Tolerance)..Tolerance
\* Broken variant: the refreshed terms are not compared.
MatchesAlways(a, o) == TRUE
Holds(a, o) == Matches(a, o)
Executable(a) == a.status = "APPROVED" /\ ~a.lapsed

\* MarkConsumed: UPDATE ... WHERE status = 'APPROVED'; the broken variant has no such WHERE.
ClaimableAnyway(a) == TRUE
Claimable(a) == a.status = "APPROVED"

-----------------------------------------------------------------------------
Init ==
  /\ job \in Workloads
  /\ pc = [c \in Calls |-> IF Op(c) = "none" THEN "done" ELSE "idle"]
  /\ mem = [c \in Calls |-> Fresh]
  /\ offer = [i \in Intents |-> job.first]
  /\ quotes = [i \in Intents |->
       IF i \in job.ready THEN [merchant : Quotable(Connectors, Wants[i]), terms : {offer[i]}] ELSE {}]
  /\ intents = [i \in Intents |->
       IF i \in job.ready THEN [status |-> "QUOTED", quote |-> CHOOSE q \in quotes[i] : TRUE]
                          ELSE Created]
  /\ approvals = [i \in Intents |-> <<>>]
  /\ orders = [c \in Calls |-> NONE]
  /\ rules = job.default
  /\ lock = [i \in Intents |-> NONE]
  /\ cart = [i \in Intents |-> i \in job.ready]
  /\ sold = [c \in Calls |-> NONE]
  /\ granted = [c \in Calls |-> NONE]
  /\ claim = [c \in Calls |-> NONE]
  /\ seen = [c \in Calls |-> {}]
  /\ drifts = 0 /\ faults = 0

-----------------------------------------------------------------------------
\* transitionIntent, once per status of the path: the copy must be allowed to move.
Write(c) ==
  /\ pc[c] = "write"
  /\ LET m == mem[c]
         to == Head(m.path)
         row == [m.row EXCEPT !.status = to]
     IN  IF CanMove(m.row.status, to)
           THEN /\ intents' = [intents EXCEPT ![On(c)] = row]
                /\ Keep(c, [m EXCEPT !.row = row, !.path = Tail(@)],
                        IF Len(m.path) = 1 THEN m.then ELSE "write")
           ELSE Goto(c, "return") /\ UNCHANGED intents
  /\ UNCHANGED <<job, quotes, approvals, orders, rules, lock, shop, history, bounds>>

\* The answer; an execution gives its lock back if it still holds it.
Return(c) ==
  /\ pc[c] = "return"
  /\ Keep(c, Fresh, "done")
  /\ lock' = [i \in Intents |-> IF lock[i] = c THEN NONE ELSE lock[i]]
  /\ UNCHANGED <<job, rows, rules, shop, history, bounds>>

Only(c) == UNCHANGED <<job, rows, rules, lock, shop, history, bounds>>

-----------------------------------------------------------------------------
(* DiscoveryService, QuoteService, IntentService *)

Discover(c) ==
  /\ Opens(c, "discover", "idle", Before("DISCOVERING"))
  /\ Move(c, Loaded(c), <<"DISCOVERING">>, "fanout")
  /\ Only(c)

\* Any of the merchants that could quote may fail; a merchant that answers holds a cart.
FanOut(c) ==
  /\ pc[c] = "fanout"
  /\ \E found \in SUBSET Quotable(Connectors, Wants[On(c)]) :
       /\ quotes' = [quotes EXCEPT ![On(c)] = @ \cup [merchant : found, terms : {offer[On(c)]}]]
       /\ cart' = [cart EXCEPT ![On(c)] = @ \/ found # {}]
       /\ Move(c, mem[c], <<IF found = {} THEN "FAILED" ELSE "QUOTED">>, "return")
  /\ UNCHANGED <<job, intents, approvals, orders, rules, lock, offer, sold, history, bounds>>

SelectQuote(c) ==
  /\ Opens(c, "select", "idle", {"QUOTED"})
  /\ \E q \in quotes[On(c)] :
       Keep(c, [mem[c] EXCEPT !.row = [status |-> "QUOTED", quote |-> q]], "selected")
  /\ Only(c)

\* The whole row, with the status it had when it was read.
SaveSelection(c) ==
  /\ pc[c] = "selected"
  /\ intents' = [intents EXCEPT ![On(c)] = mem[c].row]
  /\ Goto(c, "return")
  /\ UNCHANGED <<job, quotes, approvals, orders, rules, lock, shop, history, bounds>>

CancelIntent(c) ==
  /\ Opens(c, "cancel", "idle", Before("CANCELLED"))
  /\ Move(c, Loaded(c), <<"CANCELLED">>, "return")
  /\ Only(c)

-----------------------------------------------------------------------------
(* PolicyService *)

EvaluateAndTransition(c) ==
  /\ Opens(c, "request", "idle", Before("POLICY_CHECK"))
  /\ intents[On(c)].quote # NONE
  /\ Move(c, Loaded(c), <<"POLICY_CHECK">>, "evaluate")
  /\ Only(c)

\* The approval of the selected quote, as the verdict makes it.
NewApproval(c, status) ==
  [status |-> status, terms |-> mem[c].row.quote.terms, by |-> c, lapsed |-> FALSE]

\* evaluate: the verdict decides the approval to create and the status to go to.
Evaluate(c) ==
  /\ pc[c] = "evaluate"
  /\ LET q == mem[c].row.quote
         want == [Wants[On(c)] EXCEPT !.merchant = q.merchant]
         verdict == EvaluatePurchaseIntent(rules, want, FinalPayable(q.terms), SpendToday)
     IN  CASE verdict = "DENY" -> Move(c, mem[c], <<"POLICY_REJECTED">>, "return")
           [] verdict = "REQUIRE_APPROVAL" -> Keep(c, [mem[c] EXCEPT !.a = NewApproval(c, "PENDING")], "create")
           [] OTHER -> Keep(c, [mem[c] EXCEPT !.a = NewApproval(c, "APPROVED")], "create")
  /\ Only(c)

CreateApproval(c) ==
  /\ pc[c] = "create"
  /\ LET a == mem[c].a
         auto == a.status = "APPROVED"
     IN  /\ approvals' = [approvals EXCEPT ![On(c)] = Append(@, a)]
         /\ granted' = IF auto THEN [granted EXCEPT ![c] = a.terms] ELSE granted
         /\ Move(c, mem[c], <<IF auto THEN "APPROVED" ELSE "APPROVAL_REQUIRED">>, "return")
  /\ UNCHANGED <<job, intents, quotes, orders, rules, lock, shop, claim, seen, bounds>>

SetGuardrails(c) ==
  /\ Op(c) = "limit" /\ pc[c] = "idle"
  /\ \E g \in Forms :
       /\ Acceptable(g, PlatformMax, KnownCategories)
       /\ rules' = ToRules(Normalize(g), job.default)
  /\ Goto(c, "return")
  /\ UNCHANGED <<job, rows, lock, shop, history, bounds>>

-----------------------------------------------------------------------------
(* ApprovalService: read the row, then write it back, then the intent *)

\* The decision on an approval in one of some statuses, as the row to write.
Decides(c, at, from, a) ==
  /\ pc[c] = "idle"
  /\ approvals[On(c)][at].status \in from
  /\ Keep(c, [mem[c] EXCEPT !.at = at, !.a = a], "update")

Approve(c) ==
  /\ Op(c) = "approve"
  /\ \E at \in DOMAIN approvals[On(c)] :
       LET a == approvals[On(c)][at]
       IN  ~a.lapsed /\ Decides(c, at, {"PENDING"}, [a EXCEPT !.status = "APPROVED", !.by = c])
  /\ Only(c)

Reject(c) ==
  /\ Op(c) = "reject"
  /\ \E at \in DOMAIN approvals[On(c)] :
       Decides(c, at, {"PENDING", "REAPPROVAL_REQUIRED"},
               [approvals[On(c)][at] EXCEPT !.status = "REJECTED"])
  /\ Only(c)

\* Reapprove binds the row to the terms the merchant gives now, if the cart is there.
Reapprove(c) ==
  /\ Op(c) = "reapprove" /\ cart[On(c)]
  /\ \E at \in DOMAIN approvals[On(c)] :
       Decides(c, at, {"REAPPROVAL_REQUIRED"},
               [approvals[On(c)][at] EXCEPT !.status = "APPROVED", !.terms = offer[On(c)], !.by = c])
  /\ Only(c)

\* approvals.Update: every column but the times, from the copy.
UpdateApproval(c) ==
  /\ pc[c] = "update"
  /\ LET a == mem[c].a
     IN  /\ approvals' = [approvals EXCEPT ![On(c)][mem[c].at] = [@ EXCEPT !.status = a.status,
                                                       !.terms = a.terms, !.by = a.by]]
         /\ granted' = IF a.by = c THEN [granted EXCEPT ![c] = a.terms] ELSE granted
  /\ IF Op(c) = "execute"
       THEN Move(c, mem[c], <<"REAPPROVAL_REQUIRED">>, "return")
       ELSE Goto(c, "reload")
  /\ UNCHANGED <<job, intents, quotes, orders, rules, lock, shop, claim, seen, bounds>>

Reload(c) ==
  /\ pc[c] = "reload"
  /\ Move(c, Loaded(c), <<IF Op(c) = "reject" THEN "CANCELLED" ELSE "APPROVED">>, "return")
  /\ Only(c)

-----------------------------------------------------------------------------
(* OrderService.Execute *)

Lock(c) ==
  /\ Op(c) = "execute" /\ pc[c] = "idle"
  /\ lock[On(c)] = NONE
  /\ lock' = [lock EXCEPT ![On(c)] = c]
  /\ Goto(c, "load")
  /\ UNCHANGED <<job, rows, rules, shop, history, bounds>>

LoadApproved(c) ==
  /\ pc[c] = "load"
  /\ IF intents[On(c)].status = "APPROVED" THEN Keep(c, Loaded(c), "gate") ELSE Goto(c, "return")
  /\ Only(c)

Gate(c) ==
  /\ pc[c] = "gate"
  /\ Goto(c, IF CheckExecution THEN "approval" ELSE "return")
  /\ seen' = [seen EXCEPT ![c] = {orders[r].of : r \in {q \in Calls : orders[q] # NONE}}]
  /\ UNCHANGED <<job, rows, rules, lock, shop, granted, claim, bounds>>

\* GetByIntent: the newest approval.
ReadApproval(c) ==
  /\ pc[c] = "approval"
  /\ LET at == Len(approvals[On(c)])
     IN  IF Executable(approvals[On(c)][at])
           THEN Keep(c, [mem[c] EXCEPT !.at = at, !.a = approvals[On(c)][at]], "refresh")
           ELSE Goto(c, "return")
  /\ Only(c)

\* Broken variant: the intent's status in the approval's row.
StaleMislabelled(c, m) == Keep(c, [m EXCEPT !.a.status = "APPROVAL_REQUIRED"], "update")
Stale(c, m) == Keep(c, [m EXCEPT !.a.status = "REAPPROVAL_REQUIRED"], "update")

\* RefreshQuote: an error when the cart is gone, a new approval when the terms moved.
Refresh(c) ==
  /\ pc[c] = "refresh"
  /\ LET m == [mem[c] EXCEPT !.offer = offer[On(c)]]
     IN  CASE ~cart[On(c)] -> Goto(c, "return")
           [] cart[On(c)] /\ ~Holds(m.a, m.offer) -> Stale(c, m)
           [] OTHER -> Keep(c, m, "policy")
  /\ Only(c)

CheckPayment(c) ==
  /\ pc[c] = "policy"
  /\ LET verdict == EvaluatePayment(rules, Wants[On(c)], FinalPayable(mem[c].offer), SpendToday)
     IN  CASE verdict = "DENY" -> Move(c, mem[c], <<"EXECUTING", "FAILED">>, "return")
           [] verdict = "REQUIRE_APPROVAL" -> Stale(c, mem[c])
           [] OTHER -> Goto(c, "claim")
  /\ Only(c)

\* MarkConsumed: the one conditional write.
MarkConsumed(c) ==
  /\ pc[c] = "claim"
  /\ LET a == approvals[On(c)][mem[c].at]
     IN  IF Claimable(a)
           THEN /\ approvals' = [approvals EXCEPT ![On(c)][mem[c].at].status = "CONSUMED"]
                /\ claim' = [claim EXCEPT ![c] = [by |-> a.by, terms |-> mem[c].offer]]
                /\ Move(c, mem[c], <<"EXECUTING">>, "checkout")
           ELSE Goto(c, "return") /\ UNCHANGED <<approvals, claim>>
  /\ UNCHANGED <<job, intents, quotes, orders, rules, lock, shop, granted, seen, bounds>>

\* The merchant sells at its present terms, and tells the caller so, or that the user
\* must authenticate first, or that it does not know what became of the order.
Checkout(c) ==
  /\ pc[c] = "checkout" /\ cart[On(c)]
  /\ \E told \in {"SUCCEEDED", "AUTHENTICATION_REQUIRED", "MERCHANT_INTERVENTION_REQUIRED"} :
       /\ sold' = [sold EXCEPT ![c] = [amount |-> FinalPayable(offer[On(c)]), told |-> told,
                     state |-> IF told = "AUTHENTICATION_REQUIRED" THEN "PENDING" ELSE "PLACED"]]
       /\ IF told = "SUCCEEDED"
            THEN Keep(c, [mem[c] EXCEPT !.sale = [of |-> c, status |-> "PLACED"]], "record")
            ELSE Move(c, mem[c], <<told>>, "return")
       /\ \/ cart' = [cart EXCEPT ![On(c)] = FALSE]
          \/ told = "MERCHANT_INTERVENTION_REQUIRED" /\ UNCHANGED cart
  /\ UNCHANGED <<job, rows, rules, lock, offer, history, bounds>>

\* Broken variant: the failure is answered and not written.
CheckoutFailsUnwritten(c) == pc[c] = "checkout" /\ Goto(c, "return") /\ Only(c)

\* The merchant sells nothing: an error (the cart is gone), a refusal, an order the user
\* must see to, or one it does not know the fate of.
CheckoutFails(c) ==
  /\ pc[c] = "checkout"
  /\ \E told \in {"FAILED", "USER_INTERVENTION_REQUIRED", "MERCHANT_INTERVENTION_REQUIRED"} :
       /\ ~cart[On(c)] => told = "FAILED"
       /\ Move(c, mem[c], <<told>>, "return")
  /\ Only(c)

\* The order's row, as the merchant reported the order, and then the intent.
Record(c) ==
  /\ pc[c] = "record"
  /\ orders' = [orders EXCEPT ![c] = mem[c].sale]
  /\ Move(c, mem[c], <<"SUCCEEDED">>, "return")
  /\ UNCHANGED <<job, intents, quotes, approvals, rules, lock, shop, history, bounds>>

-----------------------------------------------------------------------------
(* OrderService.CompleteAuthentication and CancelOrder *)

CompleteAuthentication(c) ==
  /\ Opens(c, "authenticate", "idle", {"AUTHENTICATION_REQUIRED"})
  /\ Keep(c, Loaded(c), "answer")
  /\ Only(c)

\* GetOrder: the broken variant takes the merchant's order before the user has paid.
MerchantHasOrder(e) == sold[e] # NONE
MerchantConfirms(e) == e \in Placed

\* The caller says the user failed, or names an order: the merchant does not know it, or
\* its order is taken, whichever sale it is of and whoever has it on record already.
Answer(c) ==
  /\ pc[c] = "answer"
  /\ \/ Move(c, mem[c], <<"FAILED">>, "return")
     \/ \E e \in Calls :
          /\ MerchantConfirms(e)
          /\ Keep(c, [mem[c] EXCEPT !.sale = [of |-> e, status |-> sold[e].state]], "record")
  /\ Only(c)

CancelOrder(c) ==
  /\ Op(c) = "cancel_order" /\ pc[c] = "idle"
  /\ \E r \in Live : On(r) = On(c) /\ Keep(c, [mem[c] EXCEPT !.at = r], "merchant")
  /\ Only(c)

MerchantCancels(c) ==
  /\ pc[c] = "merchant"
  /\ sold' = [sold EXCEPT ![orders[mem[c].at].of].state = "CANCELLED"]
  /\ Goto(c, "stamp")
  /\ UNCHANGED <<job, rows, rules, lock, offer, cart, history, bounds>>

\* Broken variant: cancelled on our own say-so.
MerchantRefusesUnheard(c) ==
  /\ pc[c] = "merchant"
  /\ Goto(c, "stamp")
  /\ Only(c)

MerchantRefuses(c) ==
  /\ pc[c] = "merchant"
  /\ Goto(c, "return")
  /\ Only(c)

UpdateStatus(c) ==
  /\ pc[c] = "stamp"
  /\ orders' = [orders EXCEPT ![mem[c].at].status = "CANCELLED"]
  /\ Goto(c, "return")
  /\ UNCHANGED <<job, intents, quotes, approvals, rules, lock, shop, history, bounds>>

-----------------------------------------------------------------------------
(* The world: time, the user's bank, the merchant's prices, failures *)

LockExpires(i) ==
  /\ job.slow /\ lock[i] # NONE
  /\ lock' = [lock EXCEPT ![i] = NONE]
  /\ UNCHANGED <<job, handlers, rows, rules, shop, history, bounds>>

ApprovalExpires(i, at) ==
  /\ job.slow /\ ~approvals[i][at].lapsed
  /\ approvals' = [approvals EXCEPT ![i][at].lapsed = TRUE]
  /\ UNCHANGED <<job, handlers, intents, quotes, orders, rules, lock, shop, history, bounds>>

UserAuthenticates(e) ==
  /\ sold[e] # NONE /\ sold[e].state = "PENDING"
  /\ sold' = [sold EXCEPT ![e].state = "PLACED"]
  /\ UNCHANGED <<job, handlers, rows, rules, lock, offer, cart, history, bounds>>

Drift(i, o) ==
  /\ drifts < job.drifts /\ o # offer[i]
  /\ offer' = [offer EXCEPT ![i] = o]
  /\ drifts' = drifts + 1
  /\ UNCHANGED <<job, handlers, rows, rules, lock, cart, sold, history, faults>>

\* A statement fails, or the process dies, between two steps of a call: the answer is an
\* error; the lock goes back with it, or stays until it expires.
Fails(c) ==
  /\ faults < job.faults
  /\ pc[c] \notin {"idle", "return", "done"}
  /\ \E label \in {"return", "done"} : Keep(c, Fresh, label)
  /\ faults' = faults + 1
  /\ UNCHANGED <<job, rows, rules, lock, shop, history, drifts>>

Start(c) ==
  \/ Discover(c) \/ SelectQuote(c) \/ CancelIntent(c) \/ EvaluateAndTransition(c)
  \/ SetGuardrails(c) \/ Approve(c) \/ Reject(c) \/ Reapprove(c) \/ Lock(c)
  \/ CompleteAuthentication(c) \/ CancelOrder(c)

Step(c) ==
  \/ Write(c) \/ Return(c) \/ FanOut(c) \/ SaveSelection(c)
  \/ Evaluate(c) \/ CreateApproval(c) \/ UpdateApproval(c) \/ Reload(c)
  \/ LoadApproved(c) \/ Gate(c) \/ ReadApproval(c) \/ Refresh(c) \/ CheckPayment(c)
  \/ MarkConsumed(c) \/ Checkout(c) \/ CheckoutFails(c) \/ Record(c)
  \/ Answer(c) \/ MerchantCancels(c) \/ MerchantRefuses(c) \/ UpdateStatus(c)

World ==
  \/ \E i \in Intents : \/ LockExpires(i)
                        \/ \E at \in DOMAIN approvals[i] : ApprovalExpires(i, at)
                        \/ \E o \in Offers : Drift(i, o)
  \/ \E c \in Calls : UserAuthenticates(c) \/ Fails(c)

Next == World \/ \E c \in Calls : Start(c) \/ Step(c)

Spec == Init /\ [][Next]_vars

\* While requests run, one of them is scheduled again; nobody has to make one.
FairSpec == Spec /\ WF_vars(\E c \in Calls : Step(c))
-----------------------------------------------------------------------------
(* Properties *)

\* The tables, the lock and the merchant's records hold what their columns allow.
TypeOK ==
  /\ job \in Workloads
  /\ intents \in [Intents -> PurchaseIntent]
  /\ \A i \in Intents : /\ approvals[i] \in Seq(ApprovalRow)
                        /\ quotes[i] \subseteq Quote
  /\ \A c \in Calls : orders[c] # NONE => orders[c] \in Order
  /\ rules \in Rulesets
  /\ lock \in [Intents -> Calls \cup {NONE}]
  /\ offer \in [Intents -> Offers] /\ cart \in [Intents -> BOOLEAN]
  /\ \A c \in Calls : sold[c] # NONE => sold[c] \in Sale
  /\ granted \in [Calls -> Terms]
  /\ \A c \in Calls : claim[c] # NONE => claim[c] \in Claim

\* The purchase flow keeps the promise of the consent ledger (approval_repo.go:63-66,
\* order_service.go:259): no order is placed but by an execution that has spent a
\* consent given for that intent, and no consent is spent by two executions.
Ledger == INSTANCE ConsentLedger WITH
  Consents <- Calls, Payments <- Calls, Subjects <- Intents, Nobody <- NONE,
  owner <- job.on,
  granted <- {c \in Calls : granted[c] # NONE},
  spent <- [e \in Calls |-> IF claim[e] = NONE THEN NONE ELSE claim[e].by],
  paid <- {e \in Calls : sold[e] # NONE}
ImplementsLedger == Ledger!Spec

\* What the merchant charges was consented to for that intent, up to the tolerance, unless
\* its price moved between the refresh and the checkout (order_service.go:188-197): a
\* drifted price stops the execution, whoever else writes the approval meanwhile.
ChargeWasConsented ==
  \A e \in Placed :
    LET o == claim[e].terms
    IN  sold[e].amount = FinalPayable(o) =>
          \E c \in Calls : /\ granted[c] # NONE /\ On(c) = On(e)
                           /\ Matches([terms |-> granted[c]], o)

\* An intent that says SUCCEEDED has an order on record, inserted for it, of a sale that the
\* merchant made to an execution with a consent spent on it: the intent's own execution,
\* or, if an authentication was completed, any, since the order its caller names is not
\* compared with the challenge (order_service.go:289-307, 365-381).
SuccessHasOrder ==
  \A i \in Intents : intents[i].status = "SUCCEEDED" =>
    \E r \in Calls : /\ orders[r] # NONE /\ On(r) = i
                     /\ orders[r].of \in Placed /\ claim[orders[r].of] # NONE
                     /\ On(orders[r].of) = i \/ Op(r) = "authenticate"

\* An order is CANCELLED on record only if the merchant cancelled it
\* (order_service.go:384-388), and without a fault what the merchant cancelled is so on
\* record when no call is at work.
CancelledAtMerchant ==
  /\ \A r \in Calls : orders[r] # NONE /\ orders[r].status = "CANCELLED" =>
       sold[orders[r].of].state = "CANCELLED"
  /\ faults = 0 /\ (\A c \in Calls : pc[c] \in {"idle", "done"}) =>
       \A e \in Placed : sold[e].state = "CANCELLED" =>
         \E r \in Calls : orders[r] # NONE /\ orders[r].of = e /\ orders[r].status = "CANCELLED"

\* What the user pays for: sales on record that the merchant has not cancelled.
Charged == {e \in Placed : sold[e].state = "PLACED" /\ \E r \in Live : orders[r].of = e}
NothingIsPaidOut == \A o \in Offers : FinalPayable(o) >= 0

\* The month's quota and the day's cap, if there is one, are passed only by executions of
\* which neither had the other's order on record when it was let through
\* (order_service.go:168, 199): requests one after another never spend more than the user
\* set, if the caps stay, no merchant pays the user, and the prices stand from the last
\* policy check to the checkout.
Overlapped(sales) == \E e, f \in sales : e # f /\ e \notin seen[f] /\ f \notin seen[e]
PricesStood == \A e \in Charged : sold[e].amount = FinalPayable(claim[e].terms)
CapsNeedOverlap ==
  ~Overlapped(Charged) =>
    /\ Cardinality(Charged) <= job.quota
    /\ ByOp({"limit"}) = {} /\ rules.maxPerDay > 0 /\ NothingIsPaidOut /\ PricesStood =>
         SumFunction([e \in Charged |-> sold[e].amount]) <= rules.maxPerDay

\* Without a fault an execution under way comes to an end (order_service.go:267-333):
\* again and again no intent is EXECUTING and every sale that the merchant reported, or
\* that was completed, is on record.
ExecutionSettles ==
  []<>(\/ faults > 0
       \/ /\ \A i \in Intents : intents[i].status # "EXECUTING"
          /\ \A e \in Placed : sold[e].told = "SUCCEEDED" => orders[e] # NONE)

\* What the code says (order_service.go:213-223): an amount that reaches the approval
\* threshold only when the quote is refreshed does not go through without the user.
ThresholdNeedsUser ==
  \A e \in Placed :
    /\ rules.approvalThreshold > 0
    /\ FinalPayable(claim[e].terms) >= rules.approvalThreshold
    => Op(claim[e].by) # "request"
=============================================================================
