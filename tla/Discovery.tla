------------------------------ MODULE Discovery ------------------------------
(***************************************************************************)
(* What a discovery asks of the merchants: which connectors it may try,    *)
(* which of a merchant's answers it puts in the cart, and what the cart    *)
(* costs.  A connector is a record of its capabilities and of the          *)
(* products its search returns, best ranked first; confidence is in        *)
(* tenths.  One item per intent.                                           *)
(***************************************************************************)
EXTENDS Integers, Sequences

CONSTANT NONE       \* no merchant, product, offer, row or claim

MinConfidence == 5

\* candidateMerchants: not excluded, preferred if any is, able to end in a quote.
Candidates(connectors, in) ==
  {m \in DOMAIN connectors : /\ m \notin in.excluded
                             /\ in.preferred = {} \/ m \in in.preferred
                             /\ connectors[m].search /\ connectors[m].cart}

\* bestMatch: the first of the most confident products that are available and
\* confident enough.
BestMatch(products) ==
  LET Usable(k) == products[k].available /\ products[k].confidence >= MinConfidence
      Best(k) == /\ Usable(k)
                 /\ \A j \in DOMAIN products :
                      Usable(j) => \/ products[j].confidence < products[k].confidence
                                   \/ products[j].confidence = products[k].confidence /\ k <= j
  IN  IF \E k \in DOMAIN products : Best(k)
        THEN products[CHOOSE k \in DOMAIN products : Best(k)]
        ELSE NONE

\* discoverOne: a cart with nothing in it gets no quote.
Quotable(connectors, in) ==
  {m \in Candidates(connectors, in) : BestMatch(connectors[m].products) # NONE}

\* Recompute: what the user pays.  Cashback comes later and is never taken off.
FinalPayable(o) == o.unit - o.coupon + o.fees
=============================================================================
