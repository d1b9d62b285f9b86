----------------------------- MODULE ConsentLedger -----------------------------
(***************************************************************************)
(* What the approval machinery promises, without rows, handlers or         *)
(* statements: a payment moves money only after it has spent a consent     *)
(* given for the same subject, and no consent is spent twice.  The         *)
(* services implement it (PaymentIntents!ImplementsLedger).                *)
(***************************************************************************)

CONSTANTS Consents, Payments, Subjects, Nobody

VARIABLES
  owner,      \* the subject a consent or a payment is for
  granted,    \* the consents given
  spent,      \* the consent each payment has spent
  paid        \* the payments that moved money

vars == <<owner, granted, spent, paid>>

TypeOK ==
  /\ owner \in [Consents \cup Payments -> Subjects]
  /\ granted \subseteq Consents
  /\ spent \in [Payments -> Consents \cup {Nobody}]
  /\ paid \subseteq Payments

Init ==
  /\ owner \in [Consents \cup Payments -> Subjects]
  /\ granted = {}
  /\ spent = [p \in Payments |-> Nobody]
  /\ paid = {}

Grant(c) ==
  /\ c \notin granted
  /\ granted' = granted \cup {c}
  /\ UNCHANGED <<owner, spent, paid>>

Spend(p, c) ==
  /\ spent[p] = Nobody
  /\ c \in granted
  /\ owner[c] = owner[p]
  /\ \A q \in Payments : spent[q] # c
  /\ spent' = [spent EXCEPT ![p] = c]
  /\ UNCHANGED <<owner, granted, paid>>

Pay(p) ==
  /\ spent[p] # Nobody
  /\ p \notin paid
  /\ paid' = paid \cup {p}
  /\ UNCHANGED <<owner, granted, spent>>

Next ==
  \/ \E c \in Consents : Grant(c)
  \/ \E p \in Payments, c \in Consents : Spend(p, c)
  \/ \E p \in Payments : Pay(p)

Spec == Init /\ [][Next]_vars

\* Two payments never rest on the same consent, a payment rests on a consent that
\* was given, and the consent is for what is paid.
SpentOnce ==
  /\ \A p, q \in Payments : spent[p] = spent[q] /\ spent[p] # Nobody => p = q
  /\ \A p \in Payments : spent[p] # Nobody =>
       spent[p] \in granted /\ owner[spent[p]] = owner[p]
  /\ \A p \in paid : spent[p] # Nobody

=============================================================================
