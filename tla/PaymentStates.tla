---------------------------- MODULE PaymentStates ----------------------------
(***************************************************************************)
(* The state machine of an AgenticPaymentIntent, as a table:               *)
(* internal/domain/paymentintent.  The table is the allow-list every       *)
(* status change of the service is checked against; the check is made on   *)
(* the handler's in-memory copy of the row, which is what PaymentIntents   *)
(* is about.                                                               *)
(***************************************************************************)

\* State.Terminal lists the final states by hand, apart from the table.
Terminal == {"DENIED", "SUCCEEDED", "FAILED", "EXPIRED", "REVOKED", "CANCELLED"}

\* State.Valid: the known states are those the table has a row for.
State == {"DRAFT", "POLICY_EVALUATING", "APPROVAL_REQUIRED", "AUTHORIZED",
          "CREDENTIAL_PREPARING", "READY_TO_EXECUTE", "PROCESSING",
          "AUTHENTICATION_REQUIRED", "MERCHANT_ACTION_REQUIRED", "PROVIDER_UNAVAILABLE",
          "DENIED", "SUCCEEDED", "FAILED", "EXPIRED", "REVOKED", "CANCELLED"}

\* transitions: the edges that leave each state that is not final.
Transitions ==
  UNION { {"DRAFT"} \X {"POLICY_EVALUATING", "CANCELLED", "EXPIRED"},
          {"POLICY_EVALUATING"} \X {"DENIED", "APPROVAL_REQUIRED", "AUTHORIZED", "CANCELLED"},
          {"APPROVAL_REQUIRED"} \X {"AUTHORIZED", "CANCELLED", "EXPIRED", "REVOKED"},
          {"AUTHORIZED"} \X {"CREDENTIAL_PREPARING", "CANCELLED", "REVOKED"},
          {"CREDENTIAL_PREPARING"} \X {"READY_TO_EXECUTE", "PROVIDER_UNAVAILABLE", "FAILED"},
          {"READY_TO_EXECUTE"} \X {"PROCESSING", "CANCELLED", "REVOKED"},
          {"PROCESSING"} \X {"SUCCEEDED", "FAILED", "AUTHENTICATION_REQUIRED",
                             "MERCHANT_ACTION_REQUIRED", "PROVIDER_UNAVAILABLE"},
          {"AUTHENTICATION_REQUIRED"} \X {"PROCESSING", "FAILED", "EXPIRED"},
          {"MERCHANT_ACTION_REQUIRED"} \X {"PROCESSING", "FAILED", "CANCELLED"},
          {"PROVIDER_UNAVAILABLE"} \X {"PROCESSING", "FAILED", "CANCELLED"} }

\* CanTransition and Transition: an unknown state and a pair outside the table are
\* both refused, and the caller's copy keeps its status.
CanTransition(from, to) == <<from, to>> \in Transitions

\* The switch of Revoke: three states end in REVOKED, every other in CANCELLED.
RevokeTarget(s) ==
  IF s \in {"APPROVAL_REQUIRED", "AUTHORIZED", "READY_TO_EXECUTE"}
  THEN "REVOKED" ELSE "CANCELLED"

\* Statuses of approval.Approval; ABSENT is a row not inserted yet.
ApprovalStatus == {"ABSENT", "PENDING", "APPROVED", "REJECTED", "EXPIRED",
                   "CONSUMED", "REAPPROVAL_REQUIRED"}

=============================================================================
