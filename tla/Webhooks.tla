------------------------------ MODULE Webhooks -------------------------------
(***************************************************************************)
(* Webhooks out and in.  Out: an event of a payment intent goes to every   *)
(* endpoint of its tenant that wants it, each in a goroutine of its own    *)
(* that tries three times and that a restart forgets.  In: a provider's    *)
(* signed delivery is put on record once, whatever number of times it      *)
(* comes.  An endpoint or an event is named by the call that made it.      *)
(***************************************************************************)
EXTENDS Requests

CONSTANTS
  Tenants,
  EventTypes,
  Deliveries   \* what providers send: [provider, id, body]; id NONE if there is no header

VARIABLES
  endpoints,  \* table tenant_webhook_endpoints
  sending,    \* the delivery goroutines: [event, to, attempt]
  inbox,      \* table webhook_events: [provider, id]
  hooks       \* history: events fired, deliveries received, attempts made, those a restart
              \* forgot, and the inbound deliveries answered as new

hookVars == <<endpoints, sending, inbox, hooks>>

WebhooksInit ==
  /\ endpoints = {} /\ sending = {} /\ inbox = {}
  /\ hooks = [fired |-> {}, received |-> {}, ended |-> {}, forgotten |-> {}, asNew |-> {}]

WebhookEndpoint == [id : Calls, tenant : Tenants, types : SUBSET EventTypes]
Delivery == [event : Calls, to : Calls]

-----------------------------------------------------------------------------
(* Outbound *)

CreateEndpoint(c) ==
  /\ At(c, {"endpoint"}, "idle")
  /\ \E tenant \in Tenants, types \in SUBSET EventTypes :
       endpoints' = endpoints \cup {[id |-> c, tenant |-> tenant, types |-> types]}
  /\ Done(c)
  /\ UNCHANGED <<sending, inbox, hooks>>

ListActiveByTenant(tenant) == {ep \in endpoints : ep.tenant = tenant}
\* Broken variant: no types, no events.
WantsListed(ep, type) == type \in ep.types
Wants(ep, type) == ep.types = {} \/ type \in ep.types

\* fireWebhook and Dispatch: the error of a list that cannot be read is dropped.
Dispatch(c) ==
  /\ At(c, {"fire"}, "idle")
  /\ \E tenant \in Tenants, type \in EventTypes :
       LET told == {ep \in ListActiveByTenant(tenant) : Wants(ep, type)}
       IN  /\ sending' = sending \cup {[event |-> c, to |-> ep.id, attempt |-> 1] : ep \in told}
           /\ hooks' = [hooks EXCEPT !.fired = @ \cup
                {[event |-> c, tenant |-> tenant, type |-> type, listed |-> endpoints]}]
  /\ Done(c)
  /\ UNCHANGED <<endpoints, inbox>>

DispatchFails(c) ==
  /\ At(c, {"fire"}, "idle")
  /\ Cuts(c) /\ Done(c)
  /\ UNCHANGED <<job, hookVars>>

\* Broken variant: an attempt that failed is the last.
AnyAttempt(attempt) == TRUE
LastAttempt(attempt) == attempt = 3

Ends(d) == sending' = sending \ {d} /\ UNCHANGED <<endpoints, inbox, requests>>
DeliveryOf(d) == [event |-> d.event, to |-> d.to]

\* deliverOnce is answered with a 2xx.
Delivered(d) ==
  /\ d \in sending
  /\ Ends(d)
  /\ hooks' = [hooks EXCEPT !.received = @ \cup {DeliveryOf(d)},
                            !.ended = @ \cup {[delivery |-> DeliveryOf(d), attempt |-> d.attempt, ok |-> TRUE]}]

\* It is not: the endpoint is down, or its answer is late, lost or another.
NotDelivered(d) ==
  /\ d \in sending
  /\ \E heard \in {FALSE, job.slow} :
       LET received == hooks.received \cup (IF heard THEN {DeliveryOf(d)} ELSE {})
       IN  IF LastAttempt(d.attempt)
             THEN /\ Ends(d)
                  /\ hooks' = [hooks EXCEPT !.received = received,
                       !.ended = @ \cup {[delivery |-> DeliveryOf(d), attempt |-> d.attempt, ok |-> FALSE]}]
             ELSE /\ sending' = (sending \ {d}) \cup {[d EXCEPT !.attempt = @ + 1]}
                  /\ hooks' = [hooks EXCEPT !.received = received]
                  /\ UNCHANGED <<endpoints, inbox, requests>>

\* The process restarts: its goroutines are gone.
ForgetDeliveries ==
  /\ job.faults > 0 /\ sending # {}
  /\ sending' = {}
  /\ hooks' = [hooks EXCEPT !.forgotten = @ \cup {DeliveryOf(d) : d \in sending}]
  /\ UNCHANGED <<endpoints, inbox, requests>>

-----------------------------------------------------------------------------
(* Inbound *)

\* Receive: signed, and named by the header's id or else by the body's fingerprint.
EventKey(d) == [provider |-> d.provider, id |-> IF d.id # NONE THEN d.id ELSE d.body]
\* Broken variant: a second delivery is as new as the first.
NewAlways(key) == TRUE
IsNew(key) == key \notin inbox

Receive(c) ==
  /\ At(c, {"inbound"}, "idle")
  /\ \E d \in Deliveries :
       /\ inbox' = inbox \cup {EventKey(d)}
       /\ Keep(c, [key |-> EventKey(d), new |-> IsNew(EventKey(d))], "inbound")
  /\ UNCHANGED <<endpoints, sending, hooks>>

AnswerInbound(c) ==
  /\ At(c, {"inbound"}, "inbound")
  /\ hooks' = [hooks EXCEPT !.asNew = IF mem[c].new THEN @ \cup {[by |-> c, key |-> mem[c].key]} ELSE @]
  /\ Done(c)
  /\ UNCHANGED <<endpoints, sending, inbox>>

HookFails(c) ==
  /\ Op(c) = "inbound" /\ Fails(c)
  /\ UNCHANGED hookVars

WebhooksNext ==
  \/ /\ \/ \E c \in Calls : CreateEndpoint(c) \/ Dispatch(c) \/ Receive(c) \/ AnswerInbound(c)
        \/ \E d \in sending : Delivered(d) \/ NotDelivered(d)
        \/ ForgetDeliveries
     /\ UNCHANGED <<job, cut>>
  \/ \E c \in Calls : DispatchFails(c) \/ HookFails(c)

-----------------------------------------------------------------------------
(* Properties *)

WebhooksTypeOK ==
  /\ endpoints \subseteq WebhookEndpoint
  /\ \A d \in sending : DeliveryOf(d) \in Delivery /\ d.attempt \in 1 .. 3
  /\ inbox \subseteq {EventKey(d) : d \in Deliveries}

\* Every endpoint of the tenant that wants an event is told it (webhook_dispatch_service.go:76),
\* or was tried three times, or a restart forgot it, which the code documents
\* (webhook_dispatch_service.go:24-28); no other endpoint is.  And of the deliveries of one
\* inbound event one at most is answered as new (webhook_repo.go:14-18).
HooksArrive ==
  /\ \A f \in hooks.fired :
       LET wanting == {ep.id : ep \in {e \in f.listed :
                         e.tenant = f.tenant /\ (e.types = {} \/ f.type \in e.types)}}
           ofEvent(S) == {d.to : d \in {e \in S : e.event = f.event}}
           gaveUp == {[event |-> e.delivery.event, to |-> e.delivery.to] :
                        e \in {n \in hooks.ended : n.attempt = 3 /\ ~n.ok}}
       IN  /\ ofEvent(hooks.received) \subseteq wanting
           /\ wanting \subseteq ofEvent(sending \cup hooks.received \cup gaveUp \cup hooks.forgotten)
  /\ \A a, b \in hooks.asNew : a.key = b.key => a.by = b.by
=============================================================================
