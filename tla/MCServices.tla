------------------------------ MODULE MCServices ------------------------------
(* Small instances of Services: a handful of requests to one service at a time. *)
EXTENDS Services, TLC

CONSTANTS call1, call2, call3, call4, call5, item1, item2, home, office

\* What a merchant may publish: all that is needed, no PKCE, another resource, nothing.
Published(metadata, resource, pkce) ==
  [metadata |-> metadata, resource |-> resource, issuer |-> TRUE, pkce |-> pkce,
   registers |-> TRUE, methods |-> {"client_secret_post", "client_secret_basic"}, iss |-> TRUE]
MCSites == {
  Published(<<FALSE, TRUE>>, "origin", TRUE), Published(<<TRUE>>, NONE, FALSE),
  Published(<<TRUE>>, "other", TRUE), Published(<<FALSE, FALSE>>, NONE, TRUE)}

\* Pages of an allowed store, of another, and of a host inside; what Google lists, and two
\* merchants' catalogs and search pages.
Page(at, public, known) == [at |-> at, public |-> public, known |-> known]
Store == Page("store", TRUE, TRUE)
Other == Page("other", TRUE, FALSE)
Inside == Page("inside", FALSE, FALSE)
Grounded(pages) == [k \in DOMAIN pages |-> [trusted |-> pages[k] # NONE, to |-> pages[k]]]
MCListings == {Grounded(<<Store, Other, Store>>), Grounded(<<NONE, Inside, Other, Store>>), <<>>}
MCShops == {
  Catalog("amazon", <<AmazonItem(TRUE, <<0, 0>>, Store), AmazonItem(TRUE, <<0, 5>>, Other),
                      AmazonItem(FALSE, <<4>>, Store), AmazonItem(TRUE, <<4>>, Store)>>, Store),
  Catalog("flipkart", <<FlipkartItem(TRUE, 0, 5, Store), FlipkartItem(TRUE, 3, 5, Inside),
                        FlipkartItem(TRUE, 0, 2, Store)>>, Store),
  SearchPage("blinkit", Store), SearchPage("zepto", Other), GenericBrowser}
MCWebLimit == [web |-> 1, more |-> 2]

\* An integrator that allows all, and one with limits; a small purchase and one too many.
Wide == [blockedMerchants |-> {}, allowedMerchants |-> {}, blockedCategories |-> {},
         allowedPaymentProfiles |-> {}, allowedShippingProfiles |-> {},
         internationalRequiresApproval |-> FALSE, maxPerTransaction |-> 0, maxPerDay |-> 0,
         approvalThreshold |-> 0]
MCConditions == {Wide, [Wide EXCEPT !.maxPerDay = 3, !.approvalThreshold = 2]}
MCTransactions == {
  [amount |-> 2, spend |-> spend, in |-> [merchant |-> "store", category |-> "food",
     payment |-> NONE, shipping |-> NONE, international |-> FALSE]] : spend \in {0, 2}}

MCDeliveries == {[provider |-> "gateway", id |-> id, body |-> body] : id \in {NONE, "evt"}, body \in {"paid"}}

MCLimit == [auth |-> 1, caller |-> 2]

Job(p, q, r, s, t, slow, faults) ==
  [op |-> (call1 :> p) @@ (call2 :> q) @@ (call3 :> r) @@ (call4 :> s) @@ (call5 :> t), slow |-> slow, faults |-> faults]

Retried == Job("checkout", "event", "event", "none", "none", FALSE, 1)
MCRetried == {Retried}

MCWorkloads == {
  \* a subscription
  Retried,
  Job("checkout", "checkout", "confirm", "none", "none", TRUE, 0),
  Job("checkout", "confirm", "event", "none", "none", TRUE, 1),
  Job("checkout", "checkout", "event", "none", "none", FALSE, 1),
  Job("checkout", "checkout", "unsubscribe", "none", "none", FALSE, 1),
  Job("checkout", "billing", "event", "unsubscribe", "none", FALSE, 0),
  \* an account
  Job("signup", "signin", "forgot", "reset", "signout", FALSE, 0),
  Job("signup", "signin", "forgot", "reset", "none", FALSE, 1),
  Job("signup", "oauth", "rename", "none", "none", FALSE, 1),
  Job("oauth", "oauth", "rename", "none", "none", TRUE, 0),
  Job("signup", "oauth", "oauth", "none", "none", FALSE, 0),
  Job("oauth", "forgot", "reset", "signout", "purge", TRUE, 0),
  \* businesses and agents
  Job("tenant", "enrol", "mint", "act", "close", FALSE, 1),
  Job("tenant", "tenant", "enrol", "mint", "act", FALSE, 0),
  Job("signup", "mint", "disown", "act", "signout", FALSE, 1),
  Job("integrator", "judge", "close", "judge", "none", FALSE, 1),
  \* a profile
  Job("signup", "onboard", "signout", "none", "none", FALSE, 1),
  Job("signup", "onboard", "onboard", "none", "none", FALSE, 0),
  Job("signup", "onboard", "note", "signout", "none", FALSE, 0),
  Job("signup", "note", "note", "note", "guard", FALSE, 0),
  Job("addcard", "dropcard", "dropcard", "none", "none", TRUE, 1),
  \* rulesets
  Job("default", "default", "default", "override", "none", FALSE, 1),
  Job("default", "override", "override", "override", "none", FALSE, 1),
  \* one caller of the API
  Job("try", "try", "ask", "ask", "none", FALSE, 1),
  \* what agents are shown
  Job("web", "more", "none", "none", "none", TRUE, 0),
  Job("more", "more", "none", "none", "none", FALSE, 0),
  Job("web", "browse", "none", "none", "none", FALSE, 0),
  \* webhooks
  Job("endpoint", "endpoint", "fire", "none", "none", TRUE, 1),
  Job("endpoint", "fire", "fire", "none", "none", FALSE, 0),
  Job("inbound", "inbound", "inbound", "none", "none", FALSE, 1),
  \* one Swiggy account
  Job("shop", "order", "search", "unlink", "none", TRUE, 0),
  Job("shop", "order", "address", "search", "none", TRUE, 0),
  Job("shop", "order", "login", "none", "none", TRUE, 0),
  Job("login", "login", "unlink", "none", "none", TRUE, 0),
  Job("shop", "order", "shop", "order", "none", FALSE, 1)}
=============================================================================
