----------------------------- MODULE InstamartCart -----------------------------
(***************************************************************************)
(* The Swiggy Instamart connector and the remote MCP client under it: one  *)
(* linked account whose one server-side cart all intents share, discovery  *)
(* and checkout behind remoteMu, searches beside it, and the client's flag *)
(* that tells an ended session from a broken connection.                   *)
(*                                                                         *)
(* A "shop" request is a discovery, and names its cart; an "order" request *)
(* is an ExecuteCheckout of a quoted cart.  "login", "address" and         *)
(* "unlink" are runs of cmd/merchant-login.                                *)
(***************************************************************************)
EXTENDS Requests

CONSTANTS Items, Addresses

Outcomes == {"error", "quoted", "taken", "user", "merchant", "failed", "placed"}

ASSUME NobodyAssumption == NONE \notin Calls /\ NONE \notin Outcomes
ASSUME AddressAssumption == Addresses # {}   \* the linked account has one to choose

VARIABLES
  carts,      \* Connector.carts: [address, verified, lines], or NONE
  remote,     \* the account's cart at Swiggy: [address, items]
  holder,     \* remoteMu: who holds it, or NONE
  link,       \* the session file: [grant, address], address NONE until it is chosen, or NONE
  session,    \* Client.session: the copy of the file it was opened from, or NONE
  authFailed, \* Client.authFailed
  ready,      \* Connector.state = stateReady
  dead,       \* grants Swiggy answers 401
  orders,     \* orders Swiggy has placed: [by, items, lines]
  result,     \* what each request answered
  edited      \* history: orders whose cart was edited in the app after it was checked

connection == <<session, authFailed, ready>>
instamartVars == <<carts, remote, holder, link, connection, dead, orders, result, edited>>

InstamartOps == {"shop", "order", "search", "login", "address", "unlink"}
First == "first"   \* the grant the account was linked by; a later one is named by its login
Links == [grant : Calls \cup {First}, address : Addresses \cup {NONE}]

InstamartInit ==
  /\ carts = [c \in Calls |-> NONE]
  /\ link = [grant |-> First, address |-> CHOOSE a \in Addresses : TRUE]
  /\ remote = [address |-> link.address, items |-> {}]
  /\ holder = NONE /\ session = NONE /\ authFailed = FALSE /\ ready = TRUE
  /\ dead = {} /\ orders = {} /\ edited = {}
  /\ result = [c \in Calls |-> NONE]

Answers(c, r) == result' = [result EXCEPT ![c] = r] /\ Done(c)
Unlock(c) == holder' = IF holder = c THEN NONE ELSE holder

-----------------------------------------------------------------------------
(* Client *)

\* FileSessionStore: Save renames a whole new file into place.
Linked == link # NONE
Save(s) == link' = s

\* connect: the open session, or a new one from the file, which clears the flag.
Opened == IF session = NONE THEN link ELSE session
Grant == IF Opened = NONE THEN NONE ELSE Opened.grant
Open == Opened # NONE /\ session' = Opened /\ authFailed' = (session # NONE /\ authFailed)
Connect == Grant \notin dead /\ Open

\* settings: an address has been chosen for the alias.
HasSettings == Linked /\ link.address # NONE

\* fail, of a call that ends in an error while the flag stands: ErrSessionExpired, on
\* which the connector turns itself off, as it does on ErrNotLinked.
Expire == session' = NONE /\ ready' = FALSE

\* A call of a discovery or of a checkout's preparations is answered 401, or finds the
\* account unlinked.
Expired(c) ==
  /\ \/ At(c, {"shop"}, "fill") /\ holder = NONE
     \/ At(c, {"shop"}, "price") /\ holder = NONE
     \/ At(c, {"order"}, "look") \/ At(c, {"order"}, "terms")
     \/ At(c, {"search"}, "idle") /\ session = NONE /\ HasSettings
  /\ Grant \in dead \cup {NONE}
  /\ Expire /\ authFailed' = (authFailed \/ Grant \in dead)
  /\ Unlock(c) /\ Answers(c, "error")
  /\ UNCHANGED <<carts, remote, link, dead, orders, edited>>

\* SearchProducts, which does not wait for remoteMu.
SearchProducts(c) ==
  /\ At(c, {"search"}, "idle")
  /\ HasSettings
  /\ Open /\ (session = NONE => Grant \notin dead)
  /\ Keep(c, Grant, "sent")
  /\ UNCHANGED <<carts, remote, holder, link, ready, dead, orders, result, edited>>

\* authWatch: a 401 raises the flag, whatever session is open by now.
SearchAnswered(c) ==
  /\ At(c, {"search"}, "sent")
  /\ IF mem[c] \in dead THEN authFailed' = TRUE /\ Goto(c, "refused")
                        ELSE UNCHANGED authFailed /\ Done(c)
  /\ UNCHANGED <<carts, remote, holder, link, session, ready, dead, orders, result, edited>>

SearchFails(c) ==
  /\ At(c, {"search"}, "refused")
  /\ IF authFailed THEN Expire ELSE UNCHANGED <<session, ready>>
  /\ Done(c)
  /\ UNCHANGED <<carts, remote, holder, link, authFailed, dead, orders, result, edited>>

\* Warm, from ready(), a minute after the connector was turned off.
Warm ==
  /\ ~ready /\ HasSettings
  /\ \/ Connect /\ ready' = TRUE
     \/ Grant \in dead /\ session' = NONE /\ authFailed' = TRUE /\ UNCHANGED ready
  /\ UNCHANGED <<carts, remote, holder, link, dead, orders, result, edited>>

-----------------------------------------------------------------------------
(* Discovery *)

\* CreateCart, for the address linked now; carts over an hour old are dropped.
CreateCart(c) ==
  /\ At(c, {"shop"}, "idle")
  /\ HasSettings
  /\ \E old \in {{}} \cup IF job.slow THEN {{k \in Calls : Idle(k)}} ELSE {} :
       carts' = [k \in Calls |-> IF k = c THEN [address |-> link.address, verified |-> FALSE, lines |-> {}]
                                 ELSE IF k \in old THEN NONE ELSE carts[k]]
  /\ \E want \in SUBSET Items \ {{}} : Keep(c, want, "fill")
  /\ UNCHANGED <<remote, holder, link, connection, dead, orders, result, edited>>

\* AddToCart and pushCart: the whole remote cart is replaced by the lines and the next
\* one, and what Swiggy took is adopted; anything it dropped ends the discovery.
AddToCart(c) ==
  /\ At(c, {"shop"}, "fill")
  /\ holder = NONE /\ Connect
  /\ \E item \in mem[c] : LET lines == carts[c].lines \cup {item} IN
       \E taken \in SUBSET lines :
         /\ remote' = [address |-> carts[c].address, items |-> taken]
         /\ carts' = [carts EXCEPT ![c].lines = taken]
         /\ IF taken = lines
              THEN Keep(c, mem[c] \ {item}, IF mem[c] = {item} THEN "deliver" ELSE "fill") /\ UNCHANGED result
              ELSE Answers(c, "error")
  /\ UNCHANGED <<holder, link, ready, dead, orders, edited>>

\* GetDeliveryOptions: the alias stands for the address the cart was made for.
GetDeliveryOptions(c) ==
  /\ At(c, {"shop"}, "deliver")
  /\ holder = NONE
  /\ IF HasSettings /\ carts[c].address = link.address
       THEN carts' = [carts EXCEPT ![c].verified = TRUE] /\ Goto(c, "price") /\ UNCHANGED result
       ELSE Answers(c, "error") /\ UNCHANGED carts
  /\ UNCHANGED <<remote, holder, link, connection, dead, orders, edited>>

\* Broken variant: the address alone is compared.
VerifyAddress(cart) == remote.items # {} /\ cart.lines # {} /\ remote.address = cart.address
VerifyRemote(cart) ==
  /\ remote.items # {} /\ cart.lines # {}
  /\ remote.address = cart.address
  /\ remote.items = cart.lines

\* GetCheckoutQuote: a cart that matches may still be out of stock or carry a warning.
GetCheckoutQuote(c) ==
  /\ At(c, {"shop"}, "price")
  /\ holder = NONE /\ Connect
  /\ \/ VerifyRemote(carts[c]) /\ Answers(c, "quoted")
     \/ Answers(c, "error")
  /\ UNCHANGED <<carts, remote, holder, link, ready, dead, orders, edited>>

-----------------------------------------------------------------------------
(* ExecuteCheckout *)

\* An approval is consumed once, so a quoted cart is executed once.
ExecuteCheckout(c) ==
  /\ At(c, {"order"}, "idle")
  /\ \E k \in ByOp({"shop"}) :
       /\ result[k] = "quoted"
       /\ IF ~ready \/ carts[k] = NONE
            THEN /\ result' = [result EXCEPT ![k] = "taken", ![c] = IF ready THEN "error" ELSE "user"]
                 /\ Done(c) /\ UNCHANGED holder
            ELSE /\ holder = NONE /\ holder' = c
                 /\ result' = [result EXCEPT ![k] = "taken"]
                 /\ Keep(c, [cart |-> k, was |-> carts[k], grant |-> NONE], "look")
  /\ UNCHANGED <<carts, remote, link, connection, dead, orders, edited>>

\* get_cart and verifyRemote.
LookAtCart(c) ==
  /\ At(c, {"order"}, "look")
  /\ Connect
  /\ \/ mem[c].was.verified /\ VerifyRemote(mem[c].was) /\ Goto(c, "terms") /\ UNCHANGED <<result, holder>>
     \/ Answers(c, "user") /\ Unlock(c)
  /\ UNCHANGED <<carts, remote, link, ready, dead, orders, edited>>

\* get_addresses and get_payment_options: saved, of the approved PIN code, paid in cash.
CheckTerms(c) ==
  /\ At(c, {"order"}, "terms")
  /\ Connect
  /\ \/ Goto(c, "pay") /\ UNCHANGED <<result, holder>>
     \/ Answers(c, "user") /\ Unlock(c)
  /\ UNCHANGED <<carts, remote, link, ready, dead, orders, edited>>

\* checkout at Swiggy: it orders what its cart holds, declines, or answers 401.
Checkout(c) ==
  /\ At(c, {"order"}, "pay")
  /\ \/ /\ Connect /\ remote.items # {}
        /\ orders' = orders \cup {[by |-> c, items |-> remote.items, lines |-> mem[c].was.lines]}
        /\ remote' = [remote EXCEPT !.items = {}]
        /\ Keep(c, [mem[c] EXCEPT !.grant = Grant], "accepted")
     \/ /\ Connect
        /\ Keep(c, [mem[c] EXCEPT !.grant = Grant], "declined")
        /\ UNCHANGED <<remote, orders>>
     \/ /\ Grant \in dead /\ authFailed' = TRUE
        /\ Goto(c, "unknown")
        /\ UNCHANGED <<session, remote, orders>>
  /\ UNCHANGED <<carts, holder, link, ready, dead, result, edited>>

\* The account was unlinked and its session closed before checkout: it was not asked, and
\* ErrNotLinked counts as an unknown outcome.
CheckoutUnlinked(c) ==
  /\ At(c, {"order"}, "pay")
  /\ Opened = NONE
  /\ ready' = FALSE
  /\ Answers(c, "merchant") /\ Unlock(c)
  /\ UNCHANGED <<carts, remote, link, session, authFailed, dead, orders, edited>>

\* A ToolError.
CheckoutDeclined(c) ==
  /\ At(c, {"order"}, "declined")
  /\ Answers(c, "failed") /\ Unlock(c)
  /\ UNCHANGED <<carts, remote, link, connection, dead, orders, edited>>

\* interpretCheckout: the order, or one that awaits payment, is split or has no usable ID.
InterpretCheckout(c) ==
  /\ At(c, {"order"}, "accepted")
  /\ \/ Answers(c, "placed") /\ carts' = [carts EXCEPT ![mem[c].cart] = NONE]
     \/ Answers(c, "merchant") /\ UNCHANGED carts
  /\ Unlock(c)
  /\ UNCHANGED <<remote, link, connection, dead, orders, edited>>

\* The answer is lost: the connection broke, or another call's fail closed the session.
AnswerLost(c) ==
  /\ At(c, {"order"}, "accepted") \/ At(c, {"order"}, "declined")
  /\ \/ Drops(c, mem[c], "unknown")
     \/ (session # NONE => session.grant # mem[c].grant) /\ Goto(c, "unknown") /\ UNCHANGED <<job, cut>>
  /\ UNCHANGED instamartVars

\* Broken variant: an unknown outcome is taken for a refusal.
OutcomeRefused == "failed"
OutcomeUnknown == "merchant"
\* fail: an ended session if the flag stands, or else an outcome nobody knows.
ClassifyFailure(c) ==
  /\ At(c, {"order"}, "unknown")
  /\ IF authFailed THEN Expire /\ Answers(c, "user")
                   ELSE Answers(c, OutcomeUnknown) /\ UNCHANGED <<session, ready>>
  /\ Unlock(c)
  /\ UNCHANGED <<carts, remote, link, authFailed, dead, orders, edited>>

-----------------------------------------------------------------------------
(* The user and Swiggy *)

\* The user edits the cart in the Swiggy app.
AppEdits ==
  /\ \E items \in SUBSET Items : items # remote.items /\ remote' = [remote EXCEPT !.items = items]
  /\ edited' = edited \cup {c \in ByOp({"order"}) : pc[c] \in {"terms", "pay"}}
  /\ UNCHANGED <<carts, holder, link, connection, dead, orders, result>>

SessionEnds ==
  /\ Linked
  /\ dead = {} /\ dead' = {link.grant}
  /\ UNCHANGED <<carts, remote, holder, link, connection, orders, result, edited>>

\* persistingSource: a refreshed token is saved with the open session's own copy of the
\* file, over whatever the file has become.
Refresh ==
  /\ session # NONE /\ session.grant \notin dead
  /\ Save(session)
  /\ UNCHANGED <<carts, remote, holder, connection, dead, orders, result, edited>>

\* merchant-login, beside the running process: -unlink deletes the file.
Unlink(c) ==
  /\ At(c, {"unlink"}, "idle")
  /\ link' = NONE /\ Done(c)
  /\ UNCHANGED <<carts, remote, holder, connection, dead, orders, result, edited>>

\* What Login was granted (CodeGrants) replaces the file.
SaveLogin(c) ==
  /\ At(c, {"login"}, "granted")
  /\ Save([grant |-> c, address |-> NONE]) /\ Goto(c, "choose")
  /\ UNCHANGED <<carts, remote, holder, connection, dead, orders, result, edited>>

\* chooseSwiggyAddress, after a login or alone.
ChooseAddress(c) ==
  /\ At(c, {"login"}, "choose") \/ At(c, {"address"}, "idle")
  /\ Linked /\ link.grant \notin dead
  /\ \E a \in Addresses : Save([link EXCEPT !.address = a])
  /\ Done(c)
  /\ UNCHANGED <<carts, remote, holder, connection, dead, orders, result, edited>>

InstamartStep(c) ==
  \/ SearchProducts(c) \/ SearchAnswered(c) \/ SearchFails(c) \/ Expired(c)
  \/ CreateCart(c) \/ AddToCart(c) \/ GetDeliveryOptions(c) \/ GetCheckoutQuote(c)
  \/ ExecuteCheckout(c) \/ LookAtCart(c) \/ CheckTerms(c) \/ Checkout(c) \/ CheckoutUnlinked(c)
  \/ CheckoutDeclined(c) \/ InterpretCheckout(c) \/ ClassifyFailure(c)
  \/ Unlink(c) \/ SaveLogin(c) \/ ChooseAddress(c)

InstamartNext ==
  \/ \E c \in Calls :
       \/ InstamartStep(c) /\ UNCHANGED <<job, cut>>
       \/ AnswerLost(c)
       \/ /\ Op(c) \in InstamartOps /\ Fails(c) /\ Unlock(c)
          /\ UNCHANGED <<carts, remote, link, connection, dead, orders, result, edited>>
  \/ /\ job.slow /\ \E c \in ByOp({"order"}) : pc[c] # "done"
     /\ AppEdits \/ SessionEnds \/ Warm \/ Refresh
     /\ UNCHANGED <<job, cut, requests>>

-----------------------------------------------------------------------------
(* Properties *)

LocalCart == [address : Addresses, verified : BOOLEAN, lines : SUBSET Items]
CartData == [address : Addresses, items : SUBSET Items]

InstamartTypeOK ==
  /\ \A c \in Calls : carts[c] # NONE => carts[c] \in LocalCart
  /\ remote \in CartData
  /\ holder \in Calls \cup {NONE}
  /\ link \in Links \cup {NONE} /\ session \in Links \cup {NONE}
  /\ dead \subseteq Calls \cup {First}
  /\ authFailed \in BOOLEAN /\ ready \in BOOLEAN
  /\ orders \subseteq [by : Calls, items : SUBSET Items, lines : SUBSET Items]
  /\ result \in [Calls -> Outcomes \cup {NONE}]
  /\ edited \subseteq Calls

\* Every order holds exactly what its discovery put in the cart, whichever other intents
\* were shopped for in the same account meanwhile, unless the user edited the cart in the
\* app between the last look at it and the checkout (connector.go:21-23).
OrderHoldsCart == \A o \in orders : o.items = o.lines \/ o.by \in edited

\* What ExecuteCheckout reports is what happened: an order that was placed is never
\* reported as failed, and as needing the user only if Swiggy had ended the session
\* meanwhile (connector.go:751-752); one reported as placed is.
ReportedTruly ==
  /\ \A o \in orders : \/ result[o.by] \in {NONE, "placed", "merchant"}
                       \/ result[o.by] = "user" /\ dead # {}
  /\ \A c \in ByOp({"order"}) : result[c] = "placed" => \E o \in orders : o.by = c
=============================================================================
