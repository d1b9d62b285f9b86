-------------------------- MODULE ConsentLedgerProofs --------------------------
(* The ledger keeps its promise, for any consents, payments and subjects.    *)
EXTENDS ConsentLedger, TLAPS

\* Owners never change and the books stay well-formed.
LEMMA LedgerTypes == TypeOK /\ [Next]_vars => TypeOK'
<1> SUFFICES ASSUME TypeOK, [Next]_vars PROVE TypeOK'
  OBVIOUS
<1>1. ASSUME NEW c \in Consents, Grant(c) PROVE TypeOK'
  BY <1>1 DEF TypeOK, Grant
<1>2. ASSUME NEW p \in Payments, NEW c \in Consents, Spend(p, c) PROVE TypeOK'
  BY <1>2 DEF TypeOK, Spend
<1>3. ASSUME NEW p \in Payments, Pay(p) PROVE TypeOK'
  BY <1>3 DEF TypeOK, Pay
<1>4. CASE UNCHANGED vars
  BY <1>4 DEF TypeOK, vars
<1> QED BY <1>1, <1>2, <1>3, <1>4 DEF Next

\* A consent is spent on one payment, for the subject it was given for, before the
\* payment moves money: what any implementation of the ledger inherits.
THEOREM LedgerSpendsOnce == Spec => []SpentOnce
<1>1. Init => TypeOK /\ SpentOnce
  BY DEF Init, TypeOK, SpentOnce
<1>2. TypeOK /\ SpentOnce /\ [Next]_vars => SpentOnce'
  <2> SUFFICES ASSUME TypeOK, SpentOnce, [Next]_vars PROVE SpentOnce'
    OBVIOUS
  <2>1. ASSUME NEW c \in Consents, Grant(c) PROVE SpentOnce'
    BY <2>1 DEF SpentOnce, Grant
  <2>2. ASSUME NEW p \in Payments, NEW c \in Consents, Spend(p, c) PROVE SpentOnce'
    <3>1. \A q \in Payments : spent'[q] = IF q = p THEN c ELSE spent[q]
      BY <2>2 DEF Spend, TypeOK
    <3> QED BY <2>2, <3>1 DEF SpentOnce, Spend, TypeOK
  <2>3. ASSUME NEW p \in Payments, Pay(p) PROVE SpentOnce'
    BY <2>3 DEF SpentOnce, Pay
  <2>4. CASE UNCHANGED vars
    BY <2>4 DEF SpentOnce, vars
  <2> QED BY <2>1, <2>2, <2>3, <2>4 DEF Next
<1> QED BY <1>1, <1>2, LedgerTypes, PTL DEF Spec

=============================================================================
