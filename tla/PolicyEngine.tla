----------------------------- MODULE PolicyEngine -----------------------------
(***************************************************************************)
(* LocalProvider: the verdict of a ruleset on a purchase, and the rulesets *)
(* users make for themselves (Guardrails).  A zero limit is no limit, an   *)
(* empty allow-list allows everything.  One currency; the crypto rail,     *)
(* which no purchase takes, is left out.                                   *)
(***************************************************************************)
EXTENDS Integers

Verdicts == {"ALLOW", "REQUIRE_APPROVAL", "DENY"}

\* merge: the most restrictive of some verdicts.
Worst(verdicts) ==
  IF "DENY" \in verdicts THEN "DENY"
  ELSE IF "REQUIRE_APPROVAL" \in verdicts THEN "REQUIRE_APPROVAL" ELSE "ALLOW"

DenyIf(broken) == IF broken THEN "DENY" ELSE "ALLOW"
AskIf(doubtful) == IF doubtful THEN "REQUIRE_APPROVAL" ELSE "ALLOW"
Listed(x, allowed) == allowed = {} \/ x \in allowed

EvaluateMerchant(rules, m) == DenyIf(m \in rules.blockedMerchants \/ ~Listed(m, rules.allowedMerchants))
EvaluateCategory(rules, k) == DenyIf(k \in rules.blockedCategories)
EvaluatePaymentSource(rules, p) == DenyIf(~Listed(p, rules.allowedPaymentProfiles))
EvaluateShipping(rules, s) == DenyIf(~Listed(s, rules.allowedShippingProfiles))
EvaluateInternational(rules, abroad) == AskIf(abroad /\ rules.internationalRequiresApproval)

\* The limits no approval overrides.
EvaluateHardAmountCaps(rules, amount, spendToday) ==
  DenyIf(\/ rules.maxPerTransaction > 0 /\ amount > rules.maxPerTransaction
         \/ rules.maxPerDay > 0 /\ spendToday + amount > rules.maxPerDay)

EvaluateAmount(rules, amount, spendToday) ==
  Worst({EvaluateHardAmountCaps(rules, amount, spendToday),
         AskIf(rules.approvalThreshold > 0 /\ amount >= rules.approvalThreshold)})

EvaluatePurchaseIntent(rules, in, amount, spendToday) ==
  Worst({EvaluateMerchant(rules, in.merchant), EvaluateCategory(rules, in.category),
         EvaluateAmount(rules, amount, spendToday), EvaluatePaymentSource(rules, in.payment),
         EvaluateShipping(rules, in.shipping), EvaluateInternational(rules, in.international)})

\* Just before the checkout, when an approval exists: never asks for another.
EvaluatePayment(rules, in, amount, spendToday) ==
  Worst({EvaluateHardAmountCaps(rules, amount, spendToday), EvaluatePaymentSource(rules, in.payment)})

\* Guardrails.Normalize: a per-purchase limit that is absent or above the day's is
\* the day's.  An unusable form (no daily limit, one above the platform's, a negative
\* threshold, an unknown category) is refused.
Acceptable(g, platformMax, knownCategories) ==
  /\ g.maxPerDay > 0 /\ g.maxPerDay <= platformMax
  /\ g.approvalThreshold >= 0
  /\ g.blockedCategories \subseteq knownCategories
Normalize(g) ==
  [g EXCEPT !.maxPerPurchase = IF @ <= 0 \/ @ > g.maxPerDay THEN g.maxPerDay ELSE @]

\* Guardrails.ToRules over the platform's rules: "always ask" is a threshold of 1.
ToRules(g, default) ==
  [default EXCEPT
     !.maxPerTransaction = g.maxPerPurchase,
     !.maxPerDay = g.maxPerDay,
     !.approvalThreshold = IF g.approvalThreshold = 0 THEN 1 ELSE g.approvalThreshold,
     !.blockedCategories = g.blockedCategories,
     !.blockedMerchants = g.blockedMerchants,
     !.internationalRequiresApproval = g.internationalRequiresApproval]
=============================================================================
