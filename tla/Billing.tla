-------------------------------- MODULE Billing --------------------------------
(***************************************************************************)
(* BillingService: one user's subscription row, kept in step with the      *)
(* payment gateway by the checkout, the billing page, a cancellation and   *)
(* the gateway's events, which come in any order and more than once.       *)
(*                                                                         *)
(* A subscription is named by the checkout that created it.  The gateway   *)
(* is external: it goes on when the user pays and time passes, a renewal   *)
(* that fails and recovers included, and each of its moves is made once.   *)
(***************************************************************************)
EXTENDS Requests

VARIABLES
  sub,        \* subscriptions: the user's row [id, status, ending], or NONE
  planId,     \* billing_plans: the plan on file, by the checkout that created it
  recorded,   \* billing_events
  gateway,    \* the gateway's subscriptions: [status, ending, paid, plan]
  notices,    \* the events the gateway has to deliver: [of, was, status]
  acked,      \* those it was answered 2xx for
  offered,    \* subscriptions a browser has been given to pay
  lapsed,     \* those created more than 24 hours ago
  handled,    \* history: events applied, or of a subscription that is not ours
  abandoned,  \* history: subscriptions whose row a checkout replaced because it had
              \* found it unfinished a day after it was made
  clobbered   \* history: subscriptions whose row was replaced by a request that had
              \* not read it

billingVars == <<sub, planId, recorded, gateway, notices, acked, offered, lapsed,
                 handled, abandoned, clobbered>>
billingRows == <<sub, planId, recorded>>
billingWorld == <<gateway, notices, acked, offered, lapsed>>

BillingOps == {"checkout", "confirm", "billing", "unsubscribe", "event"}
Grants(status) == status \in {"authenticated", "active", "pending"}
Terminal(status) == status \in {"cancelled", "completed", "expired", "halted"}
Status == {"created", "authenticated", "active", "pending",
           "cancelled", "completed", "expired", "halted"}
Subscription == [id : Calls, status : Status, ending : BOOLEAN]
GatewaySubscription == [status : Status, ending : BOOLEAN, paid : BOOLEAN, plan : Calls]

ASSUME NoSubscriptionAssumption == NONE \notin Subscription /\ NONE \notin GatewaySubscription

BillingInit ==
  /\ sub = NONE /\ planId = NONE
  /\ gateway = [s \in Calls |-> NONE]
  /\ recorded = {} /\ notices = {} /\ acked = {} /\ offered = {} /\ lapsed = {}
  /\ handled = {} /\ abandoned = {} /\ clobbered = {}

\* apply: the gateway's status, never back to created.
ApplyGateway(row, status) ==
  LET next == IF status = "created" THEN row.status ELSE status
  IN  [row EXCEPT !.status = next, !.ending = @ /\ ~Terminal(next)]

\* What the gateway tells of a subscription that leaves its status for another.
Event(s, to) == [of |-> s, was |-> gateway[s].status, status |-> to]

-----------------------------------------------------------------------------
\* StartCheckout: refused on a paid plan; an unfinished checkout of the last day is
\* given out again; otherwise a new subscription, and a plan for it if none is on file.
Unfinished(row) == row # NONE /\ row.status = "created" /\ row.id \notin lapsed
\* Broken variant: every checkout makes a subscription.
StartCheckoutAfresh(c) ==
  /\ At(c, {"checkout"}, "idle")
  /\ sub # NONE => ~Grants(sub.status)
  /\ Keep(c, [read |-> sub, plan |-> planId], IF planId = NONE THEN "plan" ELSE "subscribe")
  /\ UNCHANGED <<billingRows, billingWorld, handled, abandoned, clobbered>>
StartCheckout(c) ==
  /\ At(c, {"checkout"}, "idle")
  /\ sub # NONE => ~Grants(sub.status)
  /\ IF Unfinished(sub)
       THEN offered' = offered \cup {sub.id} /\ Done(c)
       ELSE /\ Keep(c, [read |-> sub, plan |-> planId],
                    IF planId = NONE THEN "plan" ELSE "subscribe")
            /\ UNCHANGED offered
  /\ UNCHANGED <<billingRows, gateway, notices, acked, lapsed, handled, abandoned, clobbered>>

\* growthPlanID: created at the gateway, then kept unless another checkout was first.
SaveProviderPlanID(c) ==
  /\ pc[c] = "plan"
  /\ planId' = IF planId = NONE THEN c ELSE planId
  /\ Keep(c, [mem[c] EXCEPT !.plan = c], "subscribe")
  /\ UNCHANGED <<sub, recorded, billingWorld, handled, abandoned, clobbered>>

CreateSubscription(c) ==
  /\ pc[c] = "subscribe"
  /\ gateway' = [gateway EXCEPT ![c] =
       [status |-> "created", ending |-> FALSE, paid |-> FALSE, plan |-> mem[c].plan]]
  /\ Keep(c, [row |-> [id |-> c, status |-> "created", ending |-> FALSE],
              read |-> mem[c].read, event |-> NONE], "save")
  /\ UNCHANGED <<billingRows, notices, acked, offered, lapsed, handled, abandoned, clobbered>>

-----------------------------------------------------------------------------
Reads(c, event, label) == Keep(c, [row |-> sub, read |-> sub, event |-> event], label)

\* The signature says that the user paid, and what.
\* Broken variant: the browser's word.
VerifySubscriptionPaymentUnsigned(s) == s \in offered
VerifySubscriptionPayment(s) == s \in offered /\ gateway[s].paid

ConfirmCheckout(c) ==
  /\ At(c, {"confirm"}, "idle")
  /\ sub # NONE /\ VerifySubscriptionPayment(sub.id)
  /\ Reads(c, NONE, "fetch")
  /\ UNCHANGED billingVars

\* Status: a row that still settles is refreshed.
BillingStatus(c) ==
  /\ At(c, {"billing"}, "idle")
  /\ sub # NONE /\ sub.status \in {"created", "authenticated", "pending"}
  /\ Reads(c, NONE, "fetch")
  /\ UNCHANGED billingVars

GetSubscription(c) ==
  /\ pc[c] = "fetch"
  /\ LET m == mem[c]
         row == ApplyGateway(m.row, gateway[m.row.id].status)
     IN  Keep(c, [m EXCEPT !.row = IF Op(c) = "confirm" /\ row.status = "created"
                                     THEN [row EXCEPT !.status = "authenticated"] ELSE row],
              "save")
  /\ UNCHANGED billingVars

CancelSubscription(c) ==
  /\ At(c, {"unsubscribe"}, "idle")
  /\ sub # NONE /\ ~Terminal(sub.status)
  /\ Reads(c, NONE, "stop")
  /\ UNCHANGED billingVars

\* At the end of the paid period, or at once if the row knows of none.  The gateway
\* refuses a subscription that has ended.
GatewayCancels(c) ==
  /\ pc[c] = "stop"
  /\ LET m == mem[c]
         s == m.row.id
         atEnd == m.row.status \in {"active", "pending"}
         status == IF atEnd THEN gateway[s].status ELSE "cancelled"
         row == ApplyGateway(m.row, status)
     IN  IF Terminal(gateway[s].status)
           THEN Done(c) /\ UNCHANGED <<gateway, notices>>
           ELSE /\ gateway' = [gateway EXCEPT ![s].status = status, ![s].ending = atEnd]
                /\ notices' = IF atEnd THEN notices
                                       ELSE notices \cup {Event(s, status)}
                /\ Keep(c, [m EXCEPT !.row = [row EXCEPT !.ending = atEnd]], "save")
  /\ UNCHANGED <<billingRows, acked, offered, lapsed, handled, abandoned, clobbered>>

-----------------------------------------------------------------------------
\* HandleWebhook: an event on record is answered 2xx and left; another is put on record
\* first, then applied to the subscription it names, if that is the one on the row.
HandleWebhook(c) ==
  /\ At(c, {"event"}, "idle")
  /\ \E e \in notices :
       IF e \in recorded
         THEN acked' = acked \cup {e} /\ Done(c) /\ UNCHANGED recorded
         ELSE /\ recorded' = recorded \cup {e}
              /\ Keep(c, e, "find")
              /\ UNCHANGED acked
  /\ UNCHANGED <<sub, planId, gateway, notices, offered, lapsed, handled, abandoned, clobbered>>

GetSubscriptionByProviderID(c) ==
  /\ pc[c] = "find"
  /\ LET e == mem[c]
     IN  IF sub # NONE /\ sub.id = e.of
           THEN /\ Keep(c, [row |-> ApplyGateway(sub, e.status), read |-> sub, event |-> e], "save")
                /\ UNCHANGED <<acked, handled>>
           ELSE /\ acked' = acked \cup {e} /\ handled' = handled \cup {e}
                /\ Done(c)
  /\ UNCHANGED <<billingRows, gateway, notices, offered, lapsed, abandoned, clobbered>>

\* UpsertSubscription: the whole row, whoever wrote it since it was read.
UpsertSubscription(c) ==
  /\ pc[c] = "save"
  /\ LET m == mem[c]
         over == IF sub = NONE \/ sub.id = m.row.id THEN {} ELSE {sub.id}
         known == IF m.read = NONE THEN {} ELSE {m.read.id}
     IN  /\ sub' = m.row
         /\ offered' = IF Op(c) = "checkout" THEN offered \cup {c} ELSE offered
         /\ acked' = acked \cup ({m.event} \ {NONE})
         /\ handled' = handled \cup ({m.event} \ {NONE})
         /\ clobbered' = clobbered \cup (over \ known)
         /\ abandoned' = IF m.read # NONE /\ m.read.status = "created"
                           THEN abandoned \cup (over \cap known \cap lapsed) ELSE abandoned
  /\ Done(c)
  /\ UNCHANGED <<planId, recorded, gateway, notices, lapsed>>

-----------------------------------------------------------------------------
(* The gateway, the user and time *)

UserPays(s) ==
  /\ s \in offered /\ gateway[s].status = "created"
  /\ gateway' = [gateway EXCEPT ![s].paid = TRUE]
  /\ UNCHANGED <<billingRows, notices, acked, offered, lapsed, handled, abandoned, clobbered>>

GatewayMoves(s, to) ==
  /\ gateway[s] # NONE
  /\ LET g == gateway[s]
     IN  CASE g.status = "created" -> to = IF g.paid THEN "authenticated" ELSE "expired"
           [] g.status = "authenticated" -> to = "active"
           [] g.status = "active" -> to \in {"pending", IF g.ending THEN "cancelled" ELSE "completed"}
           [] g.status = "pending" -> to \in {"active", IF g.ending THEN "cancelled" ELSE "halted"}
           [] OTHER -> FALSE
  /\ Event(s, to) \notin notices
  /\ gateway' = [gateway EXCEPT ![s].status = to]
  /\ notices' = notices \cup {Event(s, to)}
  /\ UNCHANGED <<billingRows, acked, offered, lapsed, handled, abandoned, clobbered>>

DayPasses(s) ==
  /\ job.slow /\ gateway[s] # NONE /\ s \notin lapsed
  /\ lapsed' = lapsed \cup {s}
  /\ UNCHANGED <<billingRows, gateway, notices, acked, offered, handled, abandoned, clobbered>>

BillingStep(c) ==
  \/ StartCheckout(c) \/ SaveProviderPlanID(c) \/ CreateSubscription(c)
  \/ ConfirmCheckout(c) \/ BillingStatus(c) \/ GetSubscription(c)
  \/ CancelSubscription(c) \/ GatewayCancels(c)
  \/ HandleWebhook(c) \/ GetSubscriptionByProviderID(c) \/ UpsertSubscription(c)

BillingNext ==
  \/ \E c \in Calls : BillingStep(c) /\ UNCHANGED <<job, cut>>
  \/ \E c \in Calls : Op(c) \in BillingOps /\ Fails(c) /\ UNCHANGED billingVars
  \/ /\ \E s \in Calls : UserPays(s) \/ DayPasses(s) \/ \E to \in Status : GatewayMoves(s, to)
     /\ UNCHANGED <<job, requests, cut>>

-----------------------------------------------------------------------------
(* Properties *)

BillingTypeOK ==
  /\ sub # NONE => sub \in Subscription
  /\ \A s \in Calls : gateway[s] # NONE => gateway[s] \in GatewaySubscription
  /\ acked \subseteq recorded /\ recorded \subseteq notices
  /\ notices \subseteq [of : Calls, was : Status, status : Status]
  /\ offered \cup lapsed \cup abandoned \cup clobbered \subseteq {s \in Calls : gateway[s] # NONE}

\* Nobody has the paid plan on the browser's word (billing_service.go:186-188): in whatever
\* order events, refreshes and cancellations write the row, a row that grants the plan
\* names a subscription that the user paid.
PlanWasPaidFor == sub # NONE /\ Grants(sub.status) => gateway[sub.id].paid

\* The subscription a user pays for is the one on the row, and so there is one
\* (billing_service.go:159-160), whenever it was paid, however long it was unfinished and
\* in whatever order requests and events write.  Two overwrites of the row lose one: a
\* checkout that had found it still created a day after it was made puts a new one in its
\* place, paid by then or not (billing_service.go:162-180); and a request that had not read
\* it writes its own copy (HandleWebhook, ConfirmCheckout, Cancel and another checkout).
PaidIsRemembered ==
  \A s \in Calls \ (abandoned \cup clobbered) :
    gateway[s] # NONE /\ Grants(gateway[s].status) => sub # NONE /\ sub.id = s

\* What the code says of an event it does not apply (billing_service.go:298-300): it is the
\* replay or the retry of an event already applied.
AckedWasHandled == (\A c \in Calls : Idle(c)) => acked \subseteq handled
=============================================================================
