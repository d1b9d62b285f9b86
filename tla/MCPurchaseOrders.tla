--------------------------- MODULE MCPurchaseOrders ---------------------------
(* Small instances of PurchaseOrders: a shop, a few offers, and workloads. *)
EXTENDS PurchaseOrders, TLC

CONSTANTS call1, call2, call3, call4, call5, intent1, intent2, shop1, shop2

Good == [available |-> TRUE, confidence |-> 8]
Doubtful == [available |-> TRUE, confidence |-> 4]
SoldOut == [available |-> FALSE, confidence |-> 9]
MCConnectors ==
  (shop1 :> [search |-> TRUE, cart |-> TRUE, products |-> <<Doubtful, SoldOut, Good>>]) @@
  (shop2 :> [search |-> TRUE, cart |-> FALSE, products |-> <<Good>>])

\* 14 and 15 differ in fees only; 20 has another unit price.
Cheap == [unit |-> 10, coupon |-> 1, fees |-> 5]
Plain == [unit |-> 10, coupon |-> 0, fees |-> 5]
Dear == [unit |-> 15, coupon |-> 0, fees |-> 5]
MCOffers == {Cheap, Plain, Dear}

Want == [merchant |-> NONE, excluded |-> {}, preferred |-> {}, category |-> "grocery",
         payment |-> "upi", shipping |-> "home", international |-> FALSE]
MCWants == [x \in Intents |-> Want]

Platform(cap) ==
  [maxPerTransaction |-> 20, maxPerDay |-> cap, approvalThreshold |-> 15,
   blockedMerchants |-> {}, allowedMerchants |-> {}, blockedCategories |-> {"tobacco"},
   allowedPaymentProfiles |-> {}, allowedShippingProfiles |-> {},
   internationalRequiresApproval |-> TRUE]
Form(day, purchase, ask) ==
  [maxPerDay |-> day, maxPerPurchase |-> purchase, approvalThreshold |-> ask,
   blockedCategories |-> {}, blockedMerchants |-> {}, internationalRequiresApproval |-> TRUE]
MCForms == {Form(10, 0, 0)}

Job(ops, ons, ready, terms, quota, bound) ==
  [op |-> [x \in Calls |-> ops[x]], on |-> [x \in Calls |-> ons[x]], ready |-> ready,
   first |-> terms, quota |-> quota, default |-> Platform(IF quota = 1 THEN 100 ELSE 25),
   slow |-> bound[1], drifts |-> bound[2], faults |-> bound[3]]
Of(p, q, r, s, t) == (call1 :> p) @@ (call2 :> q) @@ (call3 :> r) @@ (call4 :> s) @@ (call5 :> t)
One == Of(intent1, intent1, intent1, intent1, intent1)
Two == Of(intent1, intent1, intent2, intent2, intent1)
Shopping == Job(Of("discover", "select", "request", "select", "limit"), One, {}, Cheap, 5, <<FALSE, 1, 1>>)
Buying == Job(Of("request", "approve", "execute", "execute", "none"), One, {intent1}, Plain, 5, <<TRUE, 0, 0>>)
Racing == Job(Of("request", "execute", "execute", "none", "none"), One, {intent1}, Cheap, 5, <<TRUE, 1, 0>>)
Renewing == Job(Of("request", "execute", "reapprove", "none", "none"), One, {intent1}, Cheap, 5, <<TRUE, 1, 0>>)
Redoing(expiry, moves) ==
  Job(Of("request", "execute", "reapprove", "execute", "none"), One, {intent1}, Cheap, 5, <<expiry, moves, 0>>)
Refusing == Job(Of("request", "reject", "execute", "cancel", "none"), One, {intent1}, Cheap, 5, <<TRUE, 1, 0>>)
Delivering == Job(Of("request", "execute", "authenticate", "authenticate", "cancel_order"), One, {intent1}, Cheap, 5, <<TRUE, 0, 1>>)
Spending(quota) == Job(Of("request", "execute", "request", "execute", "none"), Two, {intent1, intent2}, Cheap, quota, <<FALSE, 0, 0>>)
Drifting == Job(Of("request", "execute", "none", "none", "none"), One, {intent1}, Cheap, 5, <<FALSE, 1, 0>>)
Crossing == Job(Of("request", "execute", "request", "execute", "authenticate"), Two, {intent1, intent2}, Cheap, 5, <<FALSE, 0, 0>>)
MCDrifting == {Drifting}
MCWorkloads ==
  {Shopping, Buying, Racing, Renewing, Redoing(TRUE, 0), Redoing(FALSE, 1), Refusing, Delivering,
   Spending(1), Spending(5), Crossing}
=============================================================================
