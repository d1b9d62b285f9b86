------------------------------- MODULE Search --------------------------------
(***************************************************************************)
(* What an agent is shown before it commits to anything: the products and  *)
(* search pages of the connected merchants ("browse"), and a search of the *)
(* whole web, whose links are looked up side by side and whose answer is   *)
(* cached under the query and the limit asked for.  One query.             *)
(*                                                                         *)
(* A page is [at, public, known]: known if its host is on the allowlist.   *)
(* A listing is [trusted, to]: trusted if it is named and its link is      *)
(* Google's redirect, and then where that leads.                           *)
(***************************************************************************)
EXTENDS Requests

CONSTANTS
  WebLimit,   \* the limit each kind of web search asks for
  Listings,   \* what a search engine may answer: sequences of listings
  ShopLimit,  \* and of a merchant's products
  Shops       \* the registered connectors

ASSUME LimitAssumption == ShopLimit \in Nat /\ \A k \in DOMAIN WebLimit : WebLimit[k] \in Nat \ {0}
ASSUME ListingsAssumption == \A l \in Listings : l \in Seq({l[k] : k \in DOMAIN l})

VARIABLES
  cached,    \* Redis: the answer kept for each key, or NONE
  answered,  \* history: [op, listed, given] of each web search
  browsed    \* history: what each browsing call was shown

searchVars == <<cached, answered, browsed>>

SearchInit == cached = [k \in DOMAIN WebLimit |-> NONE] /\ answered = {} /\ browsed = {}

Prefix(s, n) == IF Len(s) <= n THEN s ELSE SubSeq(s, 1, n)

\* What a sequence has at some of its positions, in order.
Nth(K, n) == CHOOSE k \in K : Cardinality({j \in K : j <= k}) = n
Select(s, K) == [n \in 1 .. Cardinality(K) |-> s[Nth(K, n)]]

-----------------------------------------------------------------------------
(* SearchWeb *)

\* ValidatePublicHTTPSURL.
Public(page) == page # NONE /\ page.public

\* Broken variant: the limit is left out of the key.
CacheKeyOfQuery(op) == "web"
CacheKey(op) == op

AnswerWeb(c, a) ==
  /\ answered' = answered \cup {[op |-> Op(c), listed |-> a.listed, given |-> a.given]}
  /\ UNCHANGED browsed
  /\ Done(c)

WebSearch(c) ==
  /\ At(c, DOMAIN WebLimit, "idle")
  /\ LET kept == cached[CacheKey(Op(c))] IN
       IF kept # NONE THEN AnswerWeb(c, kept)
                      ELSE Goto(c, "engine") /\ UNCHANGED <<answered, browsed>>
  /\ UNCHANGED cached

\* Client.Search: Custom Search, whose links are the pages themselves.
CustomSearch(c) ==
  /\ At(c, DOMAIN WebLimit, "engine")
  /\ \E listed \in Listings :
       LET pages == [k \in DOMAIN listed |-> listed[k].to]
           public == {k \in DOMAIN pages : Public(pages[k])}
       IN  Keep(c, [listed |-> pages, given |-> Prefix(Select(pages, public), WebLimit[Op(c)])], "keep")
  /\ UNCHANGED searchVars

\* Gemini.Search: the listings it will look up, at most twice the limit, a goroutine each.
GeminiSearch(c) ==
  /\ At(c, DOMAIN WebLimit, "engine")
  /\ \E listed \in Listings :
       Keep(c, [listed |-> [k \in DOMAIN listed |-> listed[k].to],
                slots |-> [k \in DOMAIN listed |-> NONE],
                open |-> {k \in DOMAIN listed : k <= 2 * WebLimit[Op(c)] /\ listed[k].trusted}],
            "resolve")
  /\ UNCHANGED searchVars

EngineFails(c) ==
  /\ At(c, DOMAIN WebLimit, "engine")
  /\ Done(c) /\ UNCHANGED searchVars

\* Broken variant: results in the order they come in.
PutNext(slots, k, page) == [slots EXCEPT ![Cardinality({j \in DOMAIN slots : slots[j] # NONE}) + 1] = page]
PutAt(slots, k, page) == [slots EXCEPT ![k] = page]

\* resolve: where the redirect leads, unless it fails or is no public page.
Resolve(c) ==
  /\ At(c, DOMAIN WebLimit, "resolve")
  /\ \E k \in mem[c].open, found \in BOOLEAN :
       Keep(c, [mem[c] EXCEPT !.open = @ \ {k},
                              !.slots = IF found /\ Public(mem[c].listed[k])
                                          THEN PutAt(@, k, mem[c].listed[k]) ELSE @], "resolve")
  /\ UNCHANGED searchVars

\* verify: what is left of the slots in their order, each page once.
Verified(slots, limit) ==
  LET new == {k \in DOMAIN slots : slots[k] # NONE /\ \A j \in 1 .. (k - 1) : slots[j] # slots[k]}
  IN  Prefix(Select(slots, new), limit)

Collect(c) ==
  /\ At(c, DOMAIN WebLimit, "resolve") /\ mem[c].open = {}
  /\ Keep(c, [listed |-> mem[c].listed, given |-> Verified(mem[c].slots, WebLimit[Op(c)])], "keep")
  /\ UNCHANGED searchVars

\* Only a useful answer is cached, and a cache that cannot be written is no error.
KeepAnswer(c) ==
  /\ At(c, DOMAIN WebLimit, "keep")
  /\ \E up \in {TRUE, ~job.slow} :
       cached' = IF mem[c].given # <<>> /\ up THEN [cached EXCEPT ![CacheKey(Op(c))] = mem[c]] ELSE cached
  /\ AnswerWeb(c, mem[c])

\* The cache's time to live, ten minutes.
ForgetAnswer(k) ==
  /\ job.slow /\ cached[k] # NONE
  /\ cached' = [cached EXCEPT ![k] = NONE]
  /\ UNCHANGED <<requests, answered, browsed>>

-----------------------------------------------------------------------------
(* SearchProducts *)

\* The connectors that search, or hand over a link to a search page, or neither.
Catalog(name, items, page) == [name |-> name, search |-> TRUE, items |-> items, page |-> page]
SearchPage(name, page) == [name |-> name, search |-> FALSE, items |-> <<>>, page |-> page]
GenericBrowser == SearchPage("generic-browser", NONE)

\* What a merchant lists.  Its price is the first offer with one (Amazon), the special or
\* else the usual price (Flipkart); 0 is none.  whole: it has an id and a name.
AmazonItem(whole, offers, url) ==
  LET priced == {k \in DOMAIN offers : offers[k] > 0}
  IN  [whole |-> whole, price |-> IF priced = {} THEN 0 ELSE offers[Nth(priced, 1)], url |-> url]
FlipkartItem(whole, special, usual, url) ==
  [whole |-> whole, price |-> IF special > 0 THEN special ELSE usual, url |-> url]

\* rankConfidence: the merchant's own order, in twentieths.
RankConfidence(rank) == IF rank < 10 THEN 16 - rank ELSE 6

\* SanitizeProductURL: no link rather than one off the allowlist.
SanitizeProductURL(page) == IF Public(page) /\ page.known THEN page ELSE NONE

\* The first products that can be compared, ranked as the merchant does.
Found(shop, limit) ==
  LET whole == {k \in DOMAIN shop.items : shop.items[k].whole /\ shop.items[k].price > 0}
      items == Prefix(Select(shop.items, whole), limit)
  IN  [k \in DOMAIN items |-> [price |-> items[k].price, url |-> SanitizeProductURL(items[k].url),
                               confidence |-> RankConfidence(k - 1)]]

\* SearchProducts of a connector: its API may fail, refuse the key or find nothing.
SearchShop(shop, answers) == IF shop.search /\ answers THEN Found(shop, ShopLimit) ELSE <<>>

BrowseShops(c) ==
  /\ At(c, {"browse"}, "idle")
  /\ Keep(c, [left |-> Shops, shown |-> {}], "browse")
  /\ UNCHANGED searchVars

\* handoffLink, or callConnector: a shop that fails or has nothing is passed over.
BrowseShop(c) ==
  /\ At(c, {"browse"}, "browse")
  /\ \E shop \in mem[c].left, answers \in BOOLEAN :
       LET link == SanitizeProductURL(shop.page)
           found == SearchShop(shop, answers)
           new == CASE ~shop.search /\ link # NONE -> {[shop |-> shop, products |-> <<>>, link |-> link]}
                    [] found # <<>>                -> {[shop |-> shop, products |-> found, link |-> NONE]}
                    [] OTHER                       -> {}
       IN  Keep(c, [left |-> mem[c].left \ {shop}, shown |-> mem[c].shown \cup new], "browse")
  /\ UNCHANGED searchVars

ShowShops(c) ==
  /\ At(c, {"browse"}, "browse") /\ mem[c].left = {}
  /\ browsed' = browsed \cup {mem[c].shown}
  /\ UNCHANGED <<cached, answered>>
  /\ Done(c)

SearchNext ==
  /\ \/ \E c \in Calls :
          \/ WebSearch(c) \/ CustomSearch(c) \/ GeminiSearch(c) \/ EngineFails(c)
          \/ Resolve(c) \/ Collect(c) \/ KeepAnswer(c)
          \/ BrowseShops(c) \/ BrowseShop(c) \/ ShowShops(c)
     \/ \E k \in DOMAIN WebLimit : ForgetAnswer(k)
  /\ UNCHANGED <<job, cut>>

-----------------------------------------------------------------------------
(* Properties *)

SearchTypeOK ==
  /\ \A k \in DOMAIN WebLimit : cached[k] = NONE \/ cached[k].given # <<>>
  /\ \A a \in answered : /\ a.op \in DOMAIN WebLimit
                         /\ \E l \in Listings : a.listed = [k \in DOMAIN l |-> l[k].to]

\* Whatever order the look-ups end in and whoever fills the cache, an agent is given the
\* search engine's own order (gemini.go:91-92, discovery_service.go:279), no more than it
\* asked for, and no page that is not public (gemini.go:176-178); and a merchant's link
\* only where the allowlist has it (discovery_service.go:85-87).
AnswersAreRanked ==
  /\ \A a \in answered :
       /\ Len(a.given) <= WebLimit[a.op]
       /\ \A k \in DOMAIN a.given : Public(a.given[k])
       /\ \A k, n \in DOMAIN a.given :
            k < n => \E i, j \in DOMAIN a.listed :
                       i < j /\ a.listed[i] = a.given[k] /\ a.listed[j] = a.given[n]
  /\ \A shown \in browsed : \A s \in shown :
       \A url \in {s.link} \cup {s.products[k].url : k \in DOMAIN s.products} :
         url = NONE \/ (url.public /\ url.known)
=============================================================================
