---------------------------- MODULE PurchaseStates ----------------------------
(* The states of a PurchaseIntent and the table of its legal transitions.      *)

Transitions ==
  [DRAFT                          |-> {"DISCOVERING", "CANCELLED", "EXPIRED"},
   DISCOVERING                    |-> {"QUOTED", "FAILED", "CANCELLED", "EXPIRED"},
   QUOTED                         |-> {"POLICY_CHECK", "CANCELLED", "EXPIRED"},
   POLICY_CHECK                   |-> {"POLICY_REJECTED", "APPROVAL_REQUIRED", "APPROVED", "CANCELLED"},
   APPROVAL_REQUIRED              |-> {"APPROVED", "CANCELLED", "EXPIRED"},
   APPROVED                       |-> {"EXECUTING", "REAPPROVAL_REQUIRED", "CANCELLED"},
   REAPPROVAL_REQUIRED            |-> {"APPROVED", "CANCELLED", "EXPIRED"},
   EXECUTING                      |-> {"AUTHENTICATION_REQUIRED", "SUCCEEDED", "FAILED",
                                       "MERCHANT_INTERVENTION_REQUIRED",
                                       "USER_INTERVENTION_REQUIRED", "PARTIALLY_COMPLETED"},
   AUTHENTICATION_REQUIRED        |-> {"SUCCEEDED", "FAILED", "EXPIRED"},
   MERCHANT_INTERVENTION_REQUIRED |-> {"EXECUTING", "FAILED", "CANCELLED"},
   USER_INTERVENTION_REQUIRED     |-> {"EXECUTING", "FAILED", "CANCELLED"}]

\* The terminal states have no row with an outbound edge.
Final == {"POLICY_REJECTED", "SUCCEEDED", "FAILED", "CANCELLED", "EXPIRED", "PARTIALLY_COMPLETED"}
Status == DOMAIN Transitions \cup Final

CanMove(from, to) == from \in DOMAIN Transitions /\ to \in Transitions[from]
=============================================================================
