--------------------------- MODULE MCPaymentIntents ---------------------------
(* Instances of PaymentIntents for TLC.                                      *)
EXTENDS PaymentIntents, TLC

\* Calls of one kind differ in their request only, and every assignment of
\* requests is an initial state: permuting calls, keys or servers permutes behaviours.
Symmetric ==
  Permutations(ApproveCalls) \cup Permutations(ExecuteCalls)
    \cup Permutations(Keys) \cup Permutations(Servers)

\* The struct a handler held is garbage once it has returned.
LiveState ==
  <<request, pc, [c \in Calls |-> IF Answered(c) THEN NoRow ELSE copy[c]],
    tables, expired, seen, response, decision, ledger, faults>>
=============================================================================
