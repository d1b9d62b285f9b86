------------------------- MODULE PaymentRowsProofs -------------------------
(* What the rows, answers and keys of PaymentIntents promise, for any number *)
(* of intents, calls, keys, servers and faults.                              *)
EXTENDS PaymentIntentsProofs

-------------------------------------------------------------------------------
(* Rows, answers and keys: what a status, an answer or a charge rests on.  A row *)
(* is written from a handler's copy, so the copies have to keep the same promise.*)

\* A consent stands behind a row that may be executed, a claim behind one that was,
\* a charge behind one that succeeded.
Rests(row, i) ==
  /\ row.status \in {"AUTHORIZED", "CREDENTIAL_PREPARING", "READY_TO_EXECUTE"} =>
       \E g \in granted : Scope(g) = i
  /\ row.status \in {"PROCESSING", "SUCCEEDED", "FAILED", "AUTHENTICATION_REQUIRED"} =>
       \E e \in ExecuteCalls : Scope(e) = i /\ claim[e] # Nobody
  /\ row.status = "SUCCEEDED" => IsCharge(row.txn, i)
RowsRest ==
  /\ \A i \in Intents : Rests(intent[i], i)
  /\ \A c \in Calls : Rests(copy[c], Scope(c))

\* So does a charge behind every answer that tells of a success; the provider keeps
\* the answer under the key of the call it charged for.
AnswersRest ==
  /\ \A e \in ExecuteCalls : response[e].status = "SUCCEEDED" => IsCharge(response[e].txn, Scope(e))
  /\ \A i \in Intents, k \in Keys :
       idem[i][k].response.status = "SUCCEEDED" => IsCharge(idem[i][k].response.txn, i)
  /\ \A s \in Servers, k \in Keys : seen[s][k] # NoRow =>
       /\ seen[s][k].status \in Outcome
       /\ seen[s][k].status = "SUCCEEDED" => seen[s][k].txn \in charged /\ request[seen[s][k].txn].key = k

\* The calls that are to write such a row know it.
CallsRest ==
  /\ \A i \in Intents : decision[i] = "ALLOW" => i \in granted
  /\ \A a \in ApproveCalls : pc[a] \in {"reload", "advance"} => a \in granted
  /\ \A e \in ExecuteCalls :
       /\ pc[e] \in {"check", "prepare", "credential", "ready", "claim"} =>
            \E g \in granted : Scope(g) = Scope(e)
       /\ pc[e] = "record" => claim[e] # Nobody /\ response[e].status \in Outcome

RowsAccounted == RowsRest /\ AnswersRest /\ CallsRest

-------------------------------------------------------------------------------
(* The parts of the invariant, one lemma each.                               *)

\* What no step takes back: consents, claims and charges.
Grows ==
  /\ request' = request
  /\ granted \subseteq granted' /\ charged \subseteq charged'
  /\ \A e \in ExecuteCalls : claim[e] # Nobody => claim'[e] # Nobody

LEMMA StepGrows == TypeOK /\ ConsentsAccounted /\ [Next]_vars => Grows
<1> SUFFICES ASSUME TypeOK, ConsentsAccounted, [Next]_vars PROVE Grows
  OBVIOUS
<1>q. ASSUME request' = request, UNCHANGED ledger PROVE Grows
  BY <1>q DEF Grows, ledger
<1>1. ASSUME NEW i \in Intents, CreateStep(i) PROVE Grows
  BY <1>1, <1>q DEF CreateStep, CreateIntent, StartEvaluation, NoPolicy, Deny, RequireApproval,
     Allow, Settle, Grows, tables
<1>2. ASSUME NEW c \in Calls,
             \/ c \in ApproveCalls /\ ApproveStep(c)
             \/ c \in RejectCalls /\ RejectStep(c)
             \/ c \in RevokeCalls /\ RevokeStep(c)
      PROVE  Grows
  BY <1>2, <1>q DEF ApproveStep, RejectStep, RevokeStep, CheckPending, Grant, CheckRejectable,
     Refuse, Reload, Advance, LoadToRevoke, Withdraw, Grows
<1>3. ASSUME NEW e \in ExecuteCalls, ExecuteStep(e) PROVE Grows
  <2>1. CASE MarkConsumed(e)
    <3>1. Scope(e) \in Intents
      BY ScopeType DEF Calls
    <3>2. /\ approval[Scope(e)].status = "APPROVED"
          /\ claim' = [claim EXCEPT ![e] = approval[Scope(e)].by]
          /\ UNCHANGED <<request, granted, charged>>
      BY <2>1 DEF MarkConsumed
    <3>3. approval[Scope(e)].by # Nobody
      BY <3>1, <3>2, Kinds DEF ConsentsAccounted, ApprovedIsUnclaimed, TypeOK
    <3> QED BY <3>2, <3>3 DEF Grows, TypeOK
  <2>2. CASE ExecutePayment(e)
    BY <2>2 DEF ExecutePayment, Grows
  <2>3. CASE ~MarkConsumed(e) /\ ~ExecutePayment(e)
    BY <1>3, <2>3, <1>q DEF ExecuteStep, Begin, LoadIntent, CheckExecutable, StartPreparing,
       ObtainCredential, CredentialFails, MarkReady, LoseClaim, StartProcessing, ReplayPayment,
       PaymentError, RecordResult, Complete
  <2> QED BY <2>1, <2>2, <2>3
<1>4. ASSUME \/ \E c \in Calls : Fail(c)
             \/ \E i \in Intents : Expire(i)
             \/ \E s \in Servers : Restart(s)
             \/ UNCHANGED vars
      PROVE  Grows
  BY <1>4, <1>q DEF Fail, Expire, Restart, vars
<1>5. ASSUME NEW c \in Calls, Step(c) PROVE Grows
  BY <1>1, <1>2, <1>3, <1>5 DEF Step
<1> QED BY <1>4, <1>5 DEF Next, Quiescent

\* Hence a row keeps what it rests on.
LEMMA StillRests ==
  ASSUME Grows, NEW row, NEW i, Rests(row, i) PROVE Rests(row, i)'
<1>1. \A c : Scope(c)' = Scope(c)
  BY DEF Grows, Scope
<1>2. KeysPerIntent' = KeysPerIntent
  BY DEF Grows, KeysPerIntent, Scope
<1>3. ASSUME NEW t, IsCharge(t, i) PROVE IsCharge(t, i)'
  BY <1>1, <1>2, <1>3 DEF Grows, IsCharge
<1>4. row.status = "SUCCEEDED" => IsCharge(row.txn, i)'
  BY <1>3 DEF Rests
<1>5. (\E g \in granted : Scope(g) = i) => (\E g \in granted : Scope(g) = i)'
  BY <1>1 DEF Grows
<1>6. (\E e \in ExecuteCalls : Scope(e) = i /\ claim[e] # Nobody)
        => (\E e \in ExecuteCalls : Scope(e) = i /\ claim[e] # Nobody)'
  BY <1>1 DEF Grows
<1> QED BY <1>4, <1>5, <1>6 DEF Rests

\* Rows rest if only one call's copy changes, to a row that rests, and only
\* this copy is written to the table.
LEMMA RowsStep ==
  ASSUME TypeOK, RowsRest, Grows, NEW c \in Calls, NEW row,
         \A d \in Calls : copy'[d] = IF d = c THEN row ELSE copy[d],
         \A i \in Intents : intent'[i] = intent[i] \/ (i = Scope(c) /\ intent'[i] = row),
         Rests(row, Scope(c))'
  PROVE  RowsRest'
<1>1. \A d \in Calls : Scope(d)' = Scope(d) /\ Scope(d) \in Intents
  BY ScopeType DEF Grows, Scope
<1>2. ASSUME NEW i \in Intents PROVE Rests(intent[i], i)'
  <2>1. PICK r : r = intent'[i]
    OBVIOUS
  <2>2. Rests(r, i)'
    <3>1. CASE r = intent[i]
      <4>1. Rests(r, i)
        BY <3>1 DEF RowsRest
      <4> QED BY <4>1, StillRests
    <3>2. CASE i = Scope(c) /\ r = row
      BY <1>1, <3>2
    <3> QED BY <2>1, <3>1, <3>2
  <2> QED BY <2>1, <2>2 DEF Rests
<1>3. ASSUME NEW d \in Calls PROVE Rests(copy[d], Scope(d))'
  <2>1. PICK r, i : r = copy'[d] /\ i = Scope(d)
    OBVIOUS
  <2>2. Rests(r, i)'
    <3>1. CASE d # c
      <4>1. Rests(r, i)
        BY <2>1, <3>1 DEF RowsRest
      <4> QED BY <4>1, StillRests
    <3>2. CASE d = c
      BY <1>1, <2>1, <3>2
    <3> QED BY <3>1, <3>2
  <2> QED BY <1>1, <2>1, <2>2 DEF Rests
<1> QED BY <1>2, <1>3 DEF RowsRest

\* A checked write rests if its target does.  Success is not written this way.
LEMMA PersistRests ==
  ASSUME TypeOK, RowsRest, Grows, NEW c \in Calls, NEW to,
         Persist(c, to) \/ PersistIgnoringErrors(c, to),
         to \in {"AUTHORIZED", "CREDENTIAL_PREPARING", "READY_TO_EXECUTE"} =>
           \E g \in granted : Scope(g) = Scope(c),
         to \in {"PROCESSING", "FAILED", "AUTHENTICATION_REQUIRED"} =>
           \E e \in ExecuteCalls : Scope(e) = Scope(c) /\ claim[e] # Nobody,
         to # "SUCCEEDED"
  PROVE  RowsRest'
<1>1. PICK row : row = copy'[c]
  OBVIOUS
<1>2. /\ \A d \in Calls : copy'[d] = IF d = c THEN row ELSE copy[d]
      /\ row.status = to
  BY <1>1 DEF Persist, PersistIgnoringErrors, TypeOK, Row
<1>3. \A i \in Intents : intent'[i] = intent[i] \/ (i = Scope(c) /\ intent'[i] = row)
  BY <1>1, ScopeType DEF Persist, PersistIgnoringErrors, TypeOK
<1>4. PICK i : i = Scope(c)
  OBVIOUS
<1>5. Rests(row, i)
  BY <1>2, <1>4 DEF Rests
<1>6. Rests(row, i)'
  BY <1>5, StillRests
<1>7. Rests(row, Scope(c))'
  BY <1>4, <1>6 DEF Grows, Scope
<1> QED BY <1>2, <1>3, <1>7, RowsStep

\* A row read from the table rests.
LEMMA LoadRests ==
  ASSUME TypeOK, RowsRest, Grows, NEW c \in Calls,
         copy' = [copy EXCEPT ![c] = intent[Scope(c)]], intent' = intent
  PROVE  RowsRest'
<1>1. PICK row, i : row = intent[Scope(c)] /\ i = Scope(c)
  OBVIOUS
<1>2. \A d \in Calls : copy'[d] = IF d = c THEN row ELSE copy[d]
  BY <1>1 DEF TypeOK
<1>3. Rests(row, i)
  BY <1>1, ScopeType DEF RowsRest
<1>4. Rests(row, i)'
  BY <1>3, StillRests
<1>5. Rests(row, Scope(c))'
  BY <1>1, <1>4 DEF Grows, Scope
<1> QED BY <1>2, <1>5, RowsStep

\* Rows that nobody writes keep resting.
LEMMA RowsStay ==
  ASSUME RowsRest, Grows, UNCHANGED <<copy, intent>> PROVE RowsRest'
<1>1. ASSUME NEW i \in Intents PROVE Rests(intent[i], i)'
  <2>1. PICK r : r = intent[i]
    OBVIOUS
  <2>2. Rests(r, i)'
    BY <2>1, StillRests DEF RowsRest
  <2> QED BY <2>1, <2>2 DEF Rests
<1>2. ASSUME NEW d \in Calls PROVE Rests(copy[d], Scope(d))'
  <2>1. PICK r, i : r = copy[d] /\ i = Scope(d)
    OBVIOUS
  <2>2. Rests(r, i)'
    BY <2>1, StillRests DEF RowsRest
  <2>3. Scope(d)' = i
    BY <2>1 DEF Grows, Scope
  <2> QED BY <2>1, <2>2, <2>3 DEF Rests
<1> QED BY <1>1, <1>2 DEF RowsRest

\* Create, Approve, Reject and Revoke write what the decision they act on allows,
LEMMA DecisionRows ==
  ASSUME TypeOK, ConsentsAccounted, RowsRest, CallsRest, Grows, NEW c \in Calls,
         \/ c \in Intents /\ CreateStep(c)
         \/ c \in ApproveCalls /\ ApproveStep(c)
         \/ c \in RejectCalls /\ RejectStep(c)
         \/ c \in RevokeCalls /\ RevokeStep(c)
  PROVE  RowsRest'
<1>1. CASE c \in Intents /\ CreateIntent(c)
  <2>1. PICK row : row = [status |-> "DRAFT", txn |-> Nobody]
    OBVIOUS
  <2>2. Scope(c) = c
    BY <1>1 DEF ConsentsAccounted, CreatesItsOwn
  <2>3. /\ \A d \in Calls : copy'[d] = IF d = c THEN row ELSE copy[d]
        /\ \A i \in Intents : intent'[i] = intent[i] \/ (i = Scope(c) /\ intent'[i] = row)
    BY <1>1, <2>1, <2>2 DEF CreateIntent, TypeOK
  <2>4. Rests(row, Scope(c))'
    BY <2>1 DEF Rests
  <2> QED BY <2>3, <2>4, RowsStep
<1>2. CASE c \in Intents /\ StartEvaluation(c)
  BY <1>2, PersistRests DEF StartEvaluation
<1>3. CASE c \in Intents /\ Deny(c)
  BY <1>3, PersistRests DEF Deny
<1>4. CASE c \in Intents /\ Settle(c)
  <2>1. PICK to : /\ to = IF decision[c] = "ALLOW" THEN "AUTHORIZED" ELSE "APPROVAL_REQUIRED"
                  /\ Persist(c, to)
    BY <1>4 DEF Settle
  <2>2. to = "AUTHORIZED" => c \in granted /\ Scope(c) = c
    BY <1>4, <2>1 DEF CallsRest, ConsentsAccounted, CreatesItsOwn
  <2> QED BY <2>1, <2>2, PersistRests
<1>5. CASE Advance(c) /\ c \in ApproveCalls
  <2>1. c \in granted
    BY <1>5 DEF Advance, AtStatement, CallsRest
  <2>2. Persist(c, "AUTHORIZED")
    BY <1>5 DEF Advance, DecidedState
  <2> QED BY <2>1, <2>2, PersistRests
<1>6. CASE Advance(c) /\ c \notin ApproveCalls
  BY <1>6, PersistRests DEF Advance, DecidedState
<1>7. CASE Withdraw(c)
  <2>1. PICK to \in {"REVOKED", "CANCELLED"} : Persist(c, to)
    BY <1>7 DEF Withdraw, RevokeTarget
  <2> QED BY <2>1, PersistRests
<1>8. CASE Reload(c) \/ LoadToRevoke(c)
  BY <1>8, LoadRests DEF Reload, LoadToRevoke, tables
<1>9. CASE UNCHANGED <<copy, intent>>
  BY <1>9, RowsStay
<1> QED BY <1>1, <1>2, <1>3, <1>4, <1>5, <1>6, <1>7, <1>8, <1>9 DEF CreateStep, ApproveStep, RejectStep,
           RevokeStep, NoPolicy, RequireApproval, Allow, CheckPending, Grant, CheckRejectable, Refuse, tables

\* and Execute what its consent, its claim and the provider's answer do.
LEMMA ExecutionRows ==
  ASSUME TypeOK, ConsentsAccounted, RowsRest, AnswersRest, CallsRest, Grows,
         NEW c \in ExecuteCalls, ExecuteStep(c)
  PROVE  RowsRest'
<1> c \in Calls
  BY DEF Calls
<1>1. CASE StartPreparing(c) \/ MarkReady(c) \/ CredentialFails(c)
  <2>1. \E g \in granted : Scope(g) = Scope(c)
    BY <1>1 DEF StartPreparing, MarkReady, CredentialFails, AtStatement, CallsRest
  <2>2. PICK to \in {"CREDENTIAL_PREPARING", "READY_TO_EXECUTE", "PROVIDER_UNAVAILABLE"} :
          Persist(c, to) \/ PersistIgnoringErrors(c, to)
    BY <1>1 DEF StartPreparing, MarkReady, CredentialFails
  <2> QED BY <2>1, <2>2, PersistRests
<1>2. CASE StartProcessing(c) \/ PaymentError(c)
  <2>1. claim[c] # Nobody
    BY <1>2 DEF StartProcessing, PaymentError, AtStatement, ConsentsAccounted, ClaimThenCharge
  <2>2. PICK to \in {"PROCESSING", "FAILED"} : Persist(c, to) \/ PersistIgnoringErrors(c, to)
    BY <1>2 DEF StartProcessing, PaymentError
  <2> QED BY <2>1, <2>2, PersistRests
<1>3. CASE RecordResult(c)
  <2>1. PICK row : row = copy'[c]
    OBVIOUS
  <2>2. /\ row.status = response[c].status
        /\ row.status = "SUCCEEDED" => row.txn = response[c].txn
        /\ \A d \in Calls : copy'[d] = IF d = c THEN row ELSE copy[d]
        /\ \A i \in Intents : intent'[i] = intent[i] \/ (i = Scope(c) /\ intent'[i] = row)
    BY <1>3, <2>1, ScopeType DEF RecordResult, TypeOK
  <2>3. claim[c] # Nobody /\ response[c].status \in Outcome
    BY <1>3 DEF RecordResult, AtStatement, CallsRest
  <2>4. row.status \notin {"AUTHORIZED", "CREDENTIAL_PREPARING", "READY_TO_EXECUTE"}
    BY <2>2, <2>3 DEF Outcome
  <2>5. PICK i : i = Scope(c)
    OBVIOUS
  <2>6. row.status = "SUCCEEDED" => IsCharge(row.txn, i)
    BY <2>2, <2>5 DEF AnswersRest
  <2>7. Rests(row, i)
    BY <2>3, <2>4, <2>5, <2>6 DEF Rests
  <2>8. Rests(row, i)'
    BY <2>7, StillRests
  <2>9. Rests(row, Scope(c))'
    BY <2>5, <2>8 DEF Grows, Scope
  <2> QED BY <2>2, <2>9, RowsStep
<1>4. CASE LoadIntent(c)
  BY <1>4, LoadRests DEF LoadIntent, tables
<1>5. CASE UNCHANGED <<copy, intent>>
  BY <1>5, RowsStay
<1> QED BY <1>1, <1>2, <1>3, <1>4, <1>5 DEF ExecuteStep, Begin, CheckExecutable, ObtainCredential,
           MarkConsumed, LoseClaim, ReplayPayment, ExecutePayment, Complete, tables

-------------------------------------------------------------------------------
(* Answers.                                                                  *)

\* A charge stays one.
LEMMA StillCharged ==
  ASSUME Grows, NEW t, NEW i, IsCharge(t, i) PROVE IsCharge(t, i)'
BY DEF Grows, IsCharge, KeysPerIntent, Scope

\* What is answered, stored and remembered has to be so before the step, or to be
\* told by the call that takes it.
LEMMA AnswersStep ==
  ASSUME TypeOK, TypeOK', AnswersRest, Grows, NEW c \in ExecuteCalls, NEW row,
         row.status = "SUCCEEDED" => IsCharge(row.txn, Scope(c))',
         \A e \in ExecuteCalls : response'[e] = response[e] \/ (e = c /\ response'[e] = row),
         \A i \in Intents, k \in Keys :
           idem'[i][k].response = idem[i][k].response \/ (i = Scope(c) /\ idem'[i][k].response = row),
         \A s \in Servers, k \in Keys :
           \/ seen'[s][k] = seen[s][k]
           \/ seen'[s][k] = NoRow
           \/ /\ seen'[s][k] = row /\ row.status \in Outcome /\ k = request[c].key
              /\ row.status = "SUCCEEDED" => row.txn = c /\ c \in charged'
  PROVE  AnswersRest'
<1>s. \A d : Scope(d)' = Scope(d)
  BY DEF Grows, Scope
<1>1. ASSUME NEW e \in ExecuteCalls, response'[e].status = "SUCCEEDED"
      PROVE  IsCharge(response[e].txn, Scope(e))'
  <2>1. PICK t, i : t = response'[e].txn /\ i = Scope(e)
    OBVIOUS
  <2>2. IsCharge(t, i)'
    <3>1. CASE response'[e] = response[e]
      <4>1. IsCharge(t, i)
        BY <1>1, <2>1, <3>1 DEF AnswersRest
      <4> QED BY <4>1, StillCharged
    <3>2. CASE e = c /\ response'[e] = row
      BY <1>s, <1>1, <2>1, <3>2 DEF IsCharge
    <3> QED BY <3>1, <3>2
  <2> QED BY <1>s, <2>1, <2>2 DEF IsCharge
<1>2. ASSUME NEW i \in Intents, NEW k \in Keys, idem'[i][k].response.status = "SUCCEEDED"
      PROVE  IsCharge(idem[i][k].response.txn, i)'
  <2>1. PICK t : t = idem'[i][k].response.txn
    OBVIOUS
  <2>2. IsCharge(t, i)'
    <3>1. CASE idem'[i][k].response = idem[i][k].response
      <4>1. IsCharge(t, i)
        BY <1>2, <2>1, <3>1 DEF AnswersRest
      <4> QED BY <4>1, StillCharged
    <3>2. CASE i = Scope(c) /\ idem'[i][k].response = row
      BY <1>s, <1>2, <2>1, <3>2 DEF IsCharge
    <3> QED BY <3>1, <3>2
  <2> QED BY <2>1, <2>2 DEF IsCharge
<1>3. ASSUME NEW s \in Servers, NEW k \in Keys, seen'[s][k] # NoRow
      PROVE  /\ seen'[s][k].status \in Outcome
             /\ seen'[s][k].status = "SUCCEEDED" =>
                  seen'[s][k].txn \in charged' /\ request'[seen'[s][k].txn].key = k
  BY <1>3 DEF AnswersRest, Grows
<1> QED BY <1>1, <1>2, <1>3 DEF AnswersRest, NoRow

\* Answers that nobody gives stay as they are.
LEMMA AnswersStay ==
  ASSUME AnswersRest, Grows,  UNCHANGED <<response, idem>>,
         \A s \in Servers, k \in Keys : seen'[s][k] = seen[s][k] \/ seen'[s][k] = NoRow
  PROVE  AnswersRest'
<1>s. \A d : Scope(d)' = Scope(d)
  BY DEF Grows, Scope
<1>1. ASSUME NEW e \in ExecuteCalls, response[e].status = "SUCCEEDED"
      PROVE  IsCharge(response[e].txn, Scope(e))'
  <2>1. PICK t, i : t = response[e].txn /\ i = Scope(e) /\ IsCharge(t, i)
    BY <1>1 DEF AnswersRest
  <2>2. IsCharge(t, i)'
    BY <2>1, StillCharged
  <2> QED BY <1>s, <2>1, <2>2 DEF IsCharge
<1>2. ASSUME NEW i \in Intents, NEW k \in Keys, idem[i][k].response.status = "SUCCEEDED"
      PROVE  IsCharge(idem[i][k].response.txn, i)'
  <2>1. PICK t : t = idem[i][k].response.txn /\ IsCharge(t, i)
    BY <1>2 DEF AnswersRest
  <2>2. IsCharge(t, i)'
    BY <2>1, StillCharged
  <2> QED BY <2>1, <2>2 DEF IsCharge
<1>3. ASSUME NEW s \in Servers, NEW k \in Keys, seen'[s][k] # NoRow
      PROVE  /\ seen'[s][k].status \in Outcome
             /\ seen'[s][k].status = "SUCCEEDED" =>
                  seen'[s][k].txn \in charged' /\ request'[seen'[s][k].txn].key = k
  BY <1>3 DEF AnswersRest, Grows
<1> QED BY <1>1, <1>2, <1>3 DEF AnswersRest, NoRow

\* A provider that has seen a key answers with the outcome of the call it served,
\* and with a charge for this intent if keys are not shared.
LEMMA ReplayRests ==
  ASSUME TypeOK, AnswersRest, NEW c \in ExecuteCalls, IsReplay(c)
  PROVE  /\ Replay(c).status \in Outcome
         /\ Replay(c).status = "SUCCEEDED" => IsCharge(Replay(c).txn, Scope(c))
<1>1. PICK s \in Servers, k \in Keys : s = request[c].server /\ k = request[c].key
  BY DEF IsReplay, TypeOK, Calls
<1>2. Replay(c) = seen[s][k] /\ seen[s][k] # NoRow
  BY <1>1 DEF IsReplay, Replay
<1>3. seen[s][k].status \in Outcome
  BY <1>2 DEF AnswersRest
<1>4. ASSUME seen[s][k].status = "SUCCEEDED" PROVE IsCharge(seen[s][k].txn, Scope(c))
  <2>1. PICK t : t = seen[s][k].txn
    OBVIOUS
  <2>2. t \in charged /\ request[t].key = k
    BY <1>2, <1>4, <2>1 DEF AnswersRest
  <2>3. t \in ExecuteCalls
    BY <2>2 DEF TypeOK
  <2>4. KeysPerIntent => Scope(t) = Scope(c)
    BY <1>1, <2>2, <2>3 DEF KeysPerIntent
  <2> QED BY <2>1, <2>2, <2>4 DEF IsCharge
<1> QED BY <1>2, <1>3, <1>4

\* An execution tells, stores and lets the provider remember only such answers.
LEMMA ExecutionAnswers ==
  ASSUME TypeOK, TypeOK', ConsentsAccounted, AnswersRest, CallsRest, Grows,
         NEW c \in ExecuteCalls, ExecuteStep(c)
  PROVE  AnswersRest'
<1> c \in Calls
  BY DEF Calls
<1>s. \A d : Scope(d)' = Scope(d)
  BY DEF Grows, Scope
<1>q. ASSUME NEW row, row.status # "SUCCEEDED", response' = [response EXCEPT ![c] = row],
             UNCHANGED <<idem, seen>>
      PROVE  AnswersRest'
  <2>1. \A e \in ExecuteCalls : response'[e] = response[e] \/ (e = c /\ response'[e] = row)
    BY <1>q DEF TypeOK
  <2> QED BY <1>q, <2>1, AnswersStep
<1>1. CASE Begin(c)
  <2>1. PICK i, k : i = Scope(c) /\ k = request[c].key
    OBVIOUS
  <2>2. i \in Intents
    BY <2>1, ScopeType
  <2>3. CASE k \in Keys /\ idem[i][k].status = "COMPLETED"
    <3>1. PICK row : row = idem[i][k].response
      OBVIOUS
    <3>2. response' = [response EXCEPT ![c] = row] /\ idem' = idem /\ seen' = seen
      BY <1>1, <2>1, <2>3, <3>1 DEF Begin
    <3>3. row.status = "SUCCEEDED" => IsCharge(row.txn, i)
      BY <2>2, <2>3, <3>1 DEF AnswersRest
    <3>4. PICK t : t = row.txn
      OBVIOUS
    <3>5. row.status = "SUCCEEDED" => IsCharge(t, i)'
      BY <3>3, <3>4, StillCharged
    <3>6. row.status = "SUCCEEDED" => IsCharge(row.txn, Scope(c))'
      BY <1>s, <2>1, <3>4, <3>5 DEF IsCharge
    <3>7. \A e \in ExecuteCalls : response'[e] = response[e] \/ (e = c /\ response'[e] = row)
      BY <3>2 DEF TypeOK
    <3> QED BY <3>2, <3>6, <3>7, AnswersStep
  <2>4. CASE ~(k \in Keys /\ idem[i][k].status = "COMPLETED")
    <3>1. response' = response /\ seen' = seen
      BY <1>1, <2>1, <2>4 DEF Begin
    <3>2. \A j \in Intents, m \in Keys : idem'[j][m].response = idem[j][m].response
      BY <1>1, <2>1, <2>4 DEF Begin, TypeOK
    <3>3. PICK row : row = NoRow
      OBVIOUS
    <3>4. row.status # "SUCCEEDED"
      BY <3>3 DEF NoRow
    <3> QED BY <3>1, <3>2, <3>4, AnswersStep
  <2> QED BY <2>3, <2>4
<1>2. CASE CredentialFails(c)
  <2>1. PICK row : row = [status |-> "PROVIDER_UNAVAILABLE", txn |-> Nobody]
    OBVIOUS
  <2> QED BY <1>2, <1>q, <2>1 DEF CredentialFails
<1>3. CASE PaymentError(c)
  <2>1. PICK row : row = [status |-> "FAILED", txn |-> Nobody]
    OBVIOUS
  <2> QED BY <1>3, <1>q, <2>1 DEF PaymentError
<1>4. CASE ReplayPayment(c)
  <2>1. PICK row, i : row = Replay(c) /\ i = Scope(c)
    OBVIOUS
  <2>2. /\ response' = [response EXCEPT ![c] = row] /\ idem' = idem /\ seen' = seen
        /\ IsReplay(c)
    BY <1>4, <2>1 DEF ReplayPayment, tables
  <2>3. PICK t : t = row.txn
    OBVIOUS
  <2>4. row.status = "SUCCEEDED" => IsCharge(t, i)
    BY <2>1, <2>2, <2>3, ReplayRests
  <2>5. row.status = "SUCCEEDED" => IsCharge(t, i)'
    BY <2>4, StillCharged
  <2>6. row.status = "SUCCEEDED" => IsCharge(row.txn, Scope(c))'
    BY <1>s, <2>1, <2>3, <2>5 DEF IsCharge
  <2>7. \A e \in ExecuteCalls : response'[e] = response[e] \/ (e = c /\ response'[e] = row)
    BY <2>2 DEF TypeOK
  <2> QED BY <2>2, <2>6, <2>7, AnswersStep
<1>5. CASE ExecutePayment(c)
  <2>1. PICK o \in Outcome :
          /\ charged' = IF o = "SUCCEEDED" THEN charged \cup {c} ELSE charged
          /\ response' = [response EXCEPT ![c] = FreshResult(c, o)]
          /\ seen' = IF request[c].key \in Keys
                     THEN [seen EXCEPT ![request[c].server][request[c].key] = FreshResult(c, o)]
                     ELSE seen
    BY <1>5 DEF ExecutePayment
  <2>2. PICK row : row = FreshResult(c, o)
    OBVIOUS
  <2>3. /\ row.status \in Outcome
        /\ row.status = "SUCCEEDED" => row.txn = c /\ c \in charged'
    BY <2>1, <2>2 DEF FreshResult
  <2>4. row.status = "SUCCEEDED" => IsCharge(row.txn, Scope(c))'
    BY <2>3 DEF IsCharge
  <2>5. \A e \in ExecuteCalls : response'[e] = response[e] \/ (e = c /\ response'[e] = row)
    BY <2>1, <2>2 DEF TypeOK
  <2>6. \A s \in Servers, k \in Keys :
          seen'[s][k] = seen[s][k] \/ (seen'[s][k] = row /\ k = request[c].key)
    BY <2>1, <2>2 DEF TypeOK
  <2>7. idem' = idem
    BY <1>5 DEF ExecutePayment, tables
  <2> QED BY <2>3, <2>4, <2>5, <2>6, <2>7, AnswersStep
<1>6. CASE Complete(c)
  <2>1. PICK row, i : row = response[c] /\ i = Scope(c)
    OBVIOUS
  <2>2. PICK t : t = row.txn
    OBVIOUS
  <2>3. row.status = "SUCCEEDED" => IsCharge(t, i)
    BY <2>1, <2>2 DEF AnswersRest
  <2>4. row.status = "SUCCEEDED" => IsCharge(t, i)'
    BY <2>3, StillCharged
  <2>5. row.status = "SUCCEEDED" => IsCharge(row.txn, Scope(c))'
    BY <1>s, <2>1, <2>2, <2>4 DEF IsCharge
  <2>6. response' = response /\ seen' = seen
    BY <1>6 DEF Complete
  <2>7. idem' = IF request[c].key \in Keys
                THEN [idem EXCEPT ![i][request[c].key] = [status |-> "COMPLETED", response |-> row]]
                ELSE idem
    BY <1>6, <2>1 DEF Complete
  <2>8. \A j \in Intents, k \in Keys :
          idem'[j][k].response = idem[j][k].response \/ (j = i /\ idem'[j][k].response = row)
    BY <2>7 DEF TypeOK
  <2> QED BY <2>1, <2>5, <2>6, <2>8, AnswersStep
<1>7. CASE UNCHANGED <<response, idem, seen>>
  BY <1>7, AnswersStay
<1> QED BY <1>1, <1>2, <1>3, <1>4, <1>5, <1>6, <1>7 DEF ExecuteStep, LoadIntent, CheckExecutable,
           StartPreparing, ObtainCredential, MarkReady, MarkConsumed, LoseClaim, StartProcessing,
           RecordResult, tables

-------------------------------------------------------------------------------
(* Calls.                                                                    *)

\* A call knows what it needs at the statement it comes to, or at the one it left.
LEMMA CallsStep ==
  ASSUME TypeOK, CallsRest, Grows, NEW c \in Calls, NEW l, Goto(c, l),
         \A i \in Intents : decision'[i] = "ALLOW" => decision[i] = "ALLOW" \/ i \in granted',
         \A e \in ExecuteCalls : e # c => response'[e] = response[e],
         c \in ApproveCalls /\ l \in {"reload", "advance"} => c \in granted',
         c \in ExecuteCalls /\ l \in {"check", "prepare", "credential", "ready", "claim"} =>
           \E g \in granted : Scope(g) = Scope(c),
         c \in ExecuteCalls /\ l = "record" => claim'[c] # Nobody /\ response'[c].status \in Outcome
  PROVE  CallsRest'
<1>1. \A d \in Calls : pc'[d] = IF d = c THEN l ELSE pc[d]
  BY DEF Goto, TypeOK
<1>2. \A d : Scope(d)' = Scope(d)
  BY DEF Grows, Scope
<1>3. \A i \in Intents : decision'[i] = "ALLOW" => i \in granted'
  BY DEF CallsRest, Grows
<1>4. \A a \in ApproveCalls : pc'[a] \in {"reload", "advance"} => a \in granted'
  BY <1>1 DEF CallsRest, Grows, Calls
<1>5. ASSUME NEW e \in ExecuteCalls,
             pc'[e] \in {"check", "prepare", "credential", "ready", "claim"}
      PROVE  \E g \in granted' : Scope(g)' = Scope(e)'
  <2>1. \E g \in granted : Scope(g) = Scope(e)
    BY <1>1, <1>5 DEF CallsRest, Calls
  <2> QED BY <1>2, <2>1 DEF Grows
<1>6. ASSUME NEW e \in ExecuteCalls, pc'[e] = "record"
      PROVE  claim'[e] # Nobody /\ response'[e].status \in Outcome
  BY <1>1, <1>6 DEF CallsRest, Grows, Calls
<1> QED BY <1>3, <1>4, <1>5, <1>6 DEF CallsRest

LEMMA DecisionCalls ==
  ASSUME TypeOK, CallsRest, Grows, NEW c \in Calls,
         \/ c \in Intents /\ CreateStep(c)
         \/ c \in ApproveCalls /\ ApproveStep(c)
         \/ c \in RejectCalls /\ RejectStep(c)
         \/ c \in RevokeCalls /\ RevokeStep(c)
  PROVE  CallsRest'
<1> c \notin ExecuteCalls /\ (c \in Intents \cup RejectCalls \cup RevokeCalls => c \notin ApproveCalls)
  BY CallsAreDistinct
<1>1. CASE c \in Intents /\ CreateStep(c)
  <2>1. \A i \in Intents : decision'[i] = "ALLOW" => decision[i] = "ALLOW" \/ i \in granted'
    BY <1>1 DEF CreateStep, CreateIntent, StartEvaluation, NoPolicy, Deny, RequireApproval, Allow,
                Settle, TypeOK
  <2>2. PICK l : Goto(c, l)
    BY <1>1 DEF CreateStep, CreateIntent, StartEvaluation, NoPolicy, Deny, RequireApproval, Allow, Settle
  <2>3. response' = response
    BY <1>1 DEF CreateStep, CreateIntent, StartEvaluation, NoPolicy, Deny, RequireApproval, Allow, Settle
  <2> QED BY <1>1, <2>1, <2>2, <2>3, CallsStep
<1>2. CASE c \in ApproveCalls /\ ApproveStep(c)
  <2>1. PICK l : /\ Goto(c, l) /\ response' = response /\ decision' = decision
                 /\ l \in {"reload", "advance"} => pc[c] = "reload" \/ c \in granted'
    BY <1>2 DEF ApproveStep, CheckPending, Grant, Reload, Advance, AtStatement
  <2>2. pc[c] = "reload" => c \in granted'
    BY <1>2 DEF CallsRest, Grows
  <2> QED BY <2>1, <2>2, CallsStep
<1>3. CASE (c \in RejectCalls /\ RejectStep(c)) \/ (c \in RevokeCalls /\ RevokeStep(c))
  <2>1. PICK l : Goto(c, l)
    BY <1>3 DEF RejectStep, RevokeStep, CheckRejectable, Refuse, Reload, Advance, LoadToRevoke, Withdraw
  <2>2. response' = response /\ decision' = decision
    BY <1>3 DEF RejectStep, RevokeStep, CheckRejectable, Refuse, Reload, Advance, LoadToRevoke, Withdraw
  <2> QED BY <1>3, <2>1, <2>2, CallsStep
<1> QED BY <1>1, <1>2, <1>3

LEMMA ExecutionCalls ==
  ASSUME TypeOK, ConsentsAccounted, RowsRest, AnswersRest, CallsRest, Grows,
         NEW c \in ExecuteCalls, ExecuteStep(c)
  PROVE  CallsRest'
<1> c \in Calls /\ c \notin ApproveCalls /\ Scope(c) \in Intents
  BY CallsAreDistinct, ScopeType DEF Calls
<1>q. ASSUME NEW l, Goto(c, l), decision' = decision,
             \A e \in ExecuteCalls : e # c => response'[e] = response[e],
             l \in {"check", "prepare", "credential", "ready", "claim"} =>
               \E g \in granted : Scope(g) = Scope(c),
             l = "record" => claim'[c] # Nobody /\ response'[c].status \in Outcome
      PROVE  CallsRest'
  BY <1>q, CallsStep
<1>0. \A row : response' = [response EXCEPT ![c] = row] =>
        /\ \A e \in ExecuteCalls : e # c => response'[e] = response[e]
        /\ response'[c] = row
  BY DEF TypeOK
<1>1. CASE Begin(c)
  <2>1. PICK l \in {"done", "load"} : Goto(c, l)
    BY <1>1 DEF Begin
  <2>2. \A e \in ExecuteCalls : e # c => response'[e] = response[e]
    BY <1>1, <1>0 DEF Begin
  <2> QED BY <1>1, <1>q, <2>1, <2>2 DEF Begin
<1>2. CASE LoadIntent(c)
  <2>1. PICK l : Goto(c, l) /\ (l = "check" \/ l = "failed")
                 /\ (l = "check" => copy'[c].status = "AUTHORIZED")
    BY <1>2 DEF LoadIntent
  <2>2. copy'[c] = intent[Scope(c)] /\ response' = response /\ decision' = decision
    BY <1>2 DEF LoadIntent, TypeOK
  <2>3. l = "check" => \E g \in granted : Scope(g) = Scope(c)
    BY <2>1, <2>2 DEF RowsRest, Rests
  <2> QED BY <1>q, <2>1, <2>2, <2>3
<1>3. CASE CheckExecutable(c) \/ StartPreparing(c) \/ ObtainCredential(c) \/ MarkReady(c)
  <2>1. PICK l : Goto(c, l) /\ l # "record"
    BY <1>3 DEF CheckExecutable, StartPreparing, ObtainCredential, MarkReady
  <2>2. pc[c] \in {"check", "prepare", "credential", "ready"} /\ response' = response /\ decision' = decision
    BY <1>3 DEF CheckExecutable, StartPreparing, ObtainCredential, MarkReady, AtStatement
  <2>3. \E g \in granted : Scope(g) = Scope(c)
    BY <2>2 DEF CallsRest
  <2> QED BY <1>q, <2>1, <2>2, <2>3
<1>4. CASE ReplayPayment(c) \/ ExecutePayment(c)
  <2>1. claim[c] # Nobody
    BY <1>4 DEF ReplayPayment, ExecutePayment, AtStatement, ConsentsAccounted, ClaimThenCharge
  <2>2. PICK row : response' = [response EXCEPT ![c] = row] /\ row.status \in Outcome
    <3>1. CASE ReplayPayment(c)
      BY <3>1, ReplayRests DEF ReplayPayment
    <3>2. CASE ExecutePayment(c)
      <4>1. PICK o \in Outcome : response' = [response EXCEPT ![c] = FreshResult(c, o)]
        BY <3>2 DEF ExecutePayment
      <4>2. FreshResult(c, o).status = o
        BY DEF FreshResult
      <4> QED BY <4>1, <4>2
    <3> QED BY <1>4, <3>1, <3>2
  <2>3. Goto(c, "record") /\ decision' = decision
    BY <1>4 DEF ReplayPayment, ExecutePayment
  <2> QED BY <1>0, <1>q, <2>1, <2>2, <2>3 DEF Grows
<1>5. CASE CredentialFails(c) \/ PaymentError(c)
  <2>1. PICK row : response' = [response EXCEPT ![c] = row]
    BY <1>5 DEF CredentialFails, PaymentError
  <2> QED BY <1>0, <1>5, <1>q, <2>1 DEF CredentialFails, PaymentError
<1>6. CASE MarkConsumed(c) \/ LoseClaim(c) \/ StartProcessing(c) \/ RecordResult(c) \/ Complete(c)
  <2>1. PICK l \in {"start", "failed", "pay", "complete", "done"} : Goto(c, l)
    BY <1>6 DEF MarkConsumed, LoseClaim, StartProcessing, RecordResult, Complete
  <2>2. response' = response /\ decision' = decision
    BY <1>6 DEF MarkConsumed, LoseClaim, StartProcessing, RecordResult, Complete
  <2> QED BY <1>q, <2>1, <2>2
<1> QED BY <1>1, <1>2, <1>3, <1>4, <1>5, <1>6 DEF ExecuteStep

-------------------------------------------------------------------------------
(* The invariant, and what it gives.                                         *)

\* Before the first call there is nothing to rest on and nothing that needs to.
LEMMA InitRows == Init => RowsAccounted
<1> SUFFICES ASSUME Init PROVE RowsAccounted
  OBVIOUS
<1>1. RowsRest
  BY DEF Init, RowsRest, Rests, NoRow
<1>2. AnswersRest
  BY DEF Init, AnswersRest, NoRow, NoReply
<1>3. CallsRest
  BY CallsAreDistinct DEF Init, CallsRest, Entry, Calls
<1> QED BY <1>1, <1>2, <1>3 DEF RowsAccounted

LEMMA StepRows ==
  TypeOK /\ ConsentsAccounted /\ RowsAccounted /\ [Next]_vars => RowsAccounted'
<1> SUFFICES ASSUME TypeOK, ConsentsAccounted, RowsAccounted, [Next]_vars PROVE RowsAccounted'
  OBVIOUS
<1> RowsRest /\ AnswersRest /\ CallsRest /\ Grows /\ TypeOK'
  BY StepGrows, StepTypes DEF RowsAccounted
<1>1. ASSUME NEW c \in Calls,
             \/ c \in Intents /\ CreateStep(c)
             \/ c \in ApproveCalls /\ ApproveStep(c)
             \/ c \in RejectCalls /\ RejectStep(c)
             \/ c \in RevokeCalls /\ RevokeStep(c)
      PROVE  RowsRest' /\ AnswersRest' /\ CallsRest'
  <2>1. UNCHANGED <<response, idem, seen>>
    BY <1>1 DEF CreateStep, CreateIntent, StartEvaluation, NoPolicy, Deny, RequireApproval, Allow,
       Settle, ApproveStep, RejectStep, RevokeStep, CheckPending, Grant, CheckRejectable, Refuse,
       Reload, Advance, LoadToRevoke, Withdraw, tables
  <2> QED BY <1>1, <2>1, DecisionRows, DecisionCalls, AnswersStay
<1>2. ASSUME NEW c \in ExecuteCalls, ExecuteStep(c)
      PROVE  RowsRest' /\ AnswersRest' /\ CallsRest'
  BY <1>2, ExecutionRows, ExecutionAnswers, ExecutionCalls
<1>3. ASSUME UNCHANGED <<copy, intent, response, idem, decision>>,
             \A s \in Servers, k \in Keys : seen'[s][k] = seen[s][k] \/ seen'[s][k] = NoRow,
             \A d \in Calls : pc'[d] = pc[d] \/ pc'[d] = "failed"
      PROVE  RowsRest' /\ AnswersRest' /\ CallsRest'
  <2>1. RowsRest' /\ AnswersRest'
    BY <1>3, RowsStay, AnswersStay
  <2>2. \A d : Scope(d)' = Scope(d)
    BY DEF Grows, Scope
  <2>3. CallsRest'
    BY <1>3, <2>2 DEF CallsRest, Grows, Calls
  <2> QED BY <2>1, <2>3
<1>4. ASSUME \/ \E c \in Calls : Fail(c)
             \/ \E i \in Intents : Expire(i)
             \/ UNCHANGED vars
      PROVE  RowsRest' /\ AnswersRest' /\ CallsRest'
  BY <1>3, <1>4 DEF Fail, Expire, vars, tables, Goto, TypeOK
<1>5. ASSUME NEW s \in Servers, Restart(s) PROVE RowsRest' /\ AnswersRest' /\ CallsRest'
  <2>1. /\ UNCHANGED <<copy, intent, response, idem, decision>>
        /\ \A d \in Calls : pc'[d] = pc[d] \/ pc'[d] = "failed"
    BY <1>5 DEF Restart, tables
  <2>2. \A t \in Servers, k \in Keys : seen'[t][k] = seen[t][k] \/ seen'[t][k] = NoRow
    BY <1>5 DEF Restart, TypeOK
  <2> QED BY <1>3, <2>1, <2>2
<1>6. ASSUME NEW c \in Calls, Step(c) PROVE RowsRest' /\ AnswersRest' /\ CallsRest'
  BY <1>1, <1>2, <1>6 DEF Step
<1> QED BY <1>4, <1>5, <1>6 DEF Next, Quiescent, RowsAccounted

\* The invariant behind the theorems below.
THEOREM RowsAreAccounted == Spec => [](TypeOK /\ ConsentsAccounted /\ RowsAccounted)
<1>1. RowsAccounted /\ TypeOK /\ ConsentsAccounted /\ [Next]_vars => RowsAccounted'
  BY StepRows
<1> QED BY <1>1, InitRows, Accounts, PTL DEF Spec

\* A status is backed by the approval history even when it was written from a
\* stale copy: a row can be executed only if someone consented to its intent, and
\* was executed only by a call that held the claim.
THEOREM StatusIsBacked == Spec => []StatusBacked
<1>1. RowsAccounted => StatusBacked
  BY DEF RowsAccounted, RowsRest, Rests, StatusBacked
<1> QED BY <1>1, RowsAreAccounted, PTL

\* No row and no answer, first-hand, replayed by RunIdempotent or by the provider,
\* tells of a success without a charge behind it.
THEOREM SuccessesAreReal == Spec => []SuccessIsReal
<1>1. RowsAccounted => SuccessIsReal
  BY DEF RowsAccounted, RowsRest, Rests, AnswersRest, SuccessIsReal
<1> QED BY <1>1, RowsAreAccounted, PTL
-------------------------------------------------------------------------------
(* Keys.                                                                     *)

\* A provider that keeps running remembers the keys it has charged for.
MemoryKept == \A s \in Servers, k \in Keys : seen[s][k] # NoRow => seen'[s][k] = seen[s][k]
KeysRemembered ==
  \A e \in charged : request[e].key \in Keys =>
    seen[request[e].server][request[e].key] # NoRow

\* A call that charges leaves its key with the provider it reached.
LEMMA StepKeys ==
  TypeOK /\ KeysRemembered /\ [Next]_vars /\ [MemoryKept]_vars => KeysRemembered'
<1> SUFFICES ASSUME TypeOK, KeysRemembered, [Next]_vars, MemoryKept \/ UNCHANGED vars
             PROVE  KeysRemembered'
  OBVIOUS
<1>q. ASSUME UNCHANGED <<request, charged, seen>> PROVE KeysRemembered'
  BY <1>q DEF KeysRemembered
<1>1. ASSUME NEW i \in Intents, CreateStep(i) PROVE KeysRemembered'
  BY <1>1, <1>q DEF CreateStep, CreateIntent, StartEvaluation, NoPolicy, Deny, RequireApproval,
     Allow, Settle, ledger
<1>2. ASSUME NEW c \in Calls,
             \/ c \in ApproveCalls /\ ApproveStep(c)
             \/ c \in RejectCalls /\ RejectStep(c)
             \/ c \in RevokeCalls /\ RevokeStep(c)
      PROVE  KeysRemembered'
  BY <1>2, <1>q DEF ApproveStep, RejectStep, RevokeStep, CheckPending, Grant, CheckRejectable,
     Refuse, Reload, Advance, LoadToRevoke, Withdraw, ledger
<1>3. ASSUME NEW c \in ExecuteCalls, ExecuteStep(c) PROVE KeysRemembered'
  <2>1. CASE ExecutePayment(c)
    <3>1. PICK o \in Outcome :
            /\ charged' = IF o = "SUCCEEDED" THEN charged \cup {c} ELSE charged
            /\ seen' = IF request[c].key \in Keys
                       THEN [seen EXCEPT ![request[c].server][request[c].key] = FreshResult(c, o)]
                       ELSE seen
      BY <2>1 DEF ExecutePayment
    <3>2. FreshResult(c, o) # NoRow
      BY DEF FreshResult, NoRow, Outcome
    <3>3. request' = request
      BY <2>1 DEF ExecutePayment
    <3>4. \A s \in Servers, k \in Keys : seen[s][k] # NoRow => seen'[s][k] # NoRow
      BY <3>1, <3>2 DEF TypeOK
    <3>5. request[c].key \in Keys => seen'[request[c].server][request[c].key] # NoRow
      BY <3>1, <3>2 DEF TypeOK, Calls
    <3>6. \A e \in charged : request[e].server \in Servers
      BY DEF TypeOK, Calls
    <3> HIDE DEF NoRow
    <3> QED BY <3>1, <3>3, <3>4, <3>5, <3>6 DEF KeysRemembered
  <2>2. CASE ~ExecutePayment(c)
    BY <1>3, <2>2, <1>q DEF ExecuteStep, Begin, LoadIntent, CheckExecutable, StartPreparing,
       ObtainCredential, CredentialFails, MarkReady, MarkConsumed, LoseClaim, StartProcessing,
       ReplayPayment, PaymentError, RecordResult, Complete, ledger
  <2> QED BY <2>1, <2>2
<1>4. ASSUME NEW c \in Calls, Step(c) PROVE KeysRemembered'
  BY <1>1, <1>2, <1>3, <1>4 DEF Step
<1>5. ASSUME \/ \E c \in Calls : Fail(c)
             \/ \E i \in Intents : Expire(i)
             \/ UNCHANGED vars
      PROVE  KeysRemembered'
  BY <1>5, <1>q DEF Fail, Expire, vars, ledger
<1>6. ASSUME NEW s \in Servers, Restart(s), MemoryKept PROVE KeysRemembered'
  <2>1. UNCHANGED <<request, charged>>
    BY <1>6 DEF Restart, ledger
  <2>2. \A e \in charged : request[e].server \in Servers
    BY DEF TypeOK, Calls
  <2> QED BY <1>6, <2>1, <2>2 DEF MemoryKept, KeysRemembered
<1> QED BY <1>4, <1>5, <1>6 DEF Next, Quiescent

\* It moves no money for a key it remembers.
LEMMA StepCharges ==
  TypeOK /\ KeysRemembered /\ OneChargePerKey /\ [Next]_vars => OneChargePerKey'
<1> SUFFICES ASSUME TypeOK, KeysRemembered, OneChargePerKey, [Next]_vars PROVE OneChargePerKey'
  OBVIOUS
<1>q. ASSUME UNCHANGED <<request, charged>> PROVE OneChargePerKey'
  BY <1>q DEF OneChargePerKey
<1>1. ASSUME NEW i \in Intents, CreateStep(i) PROVE OneChargePerKey'
  BY <1>1, <1>q DEF CreateStep, CreateIntent, StartEvaluation, NoPolicy, Deny, RequireApproval,
     Allow, Settle, ledger
<1>2. ASSUME NEW c \in Calls,
             \/ c \in ApproveCalls /\ ApproveStep(c)
             \/ c \in RejectCalls /\ RejectStep(c)
             \/ c \in RevokeCalls /\ RevokeStep(c)
      PROVE  OneChargePerKey'
  BY <1>2, <1>q DEF ApproveStep, RejectStep, RevokeStep, CheckPending, Grant, CheckRejectable,
     Refuse, Reload, Advance, LoadToRevoke, Withdraw, ledger
<1>3. ASSUME NEW c \in ExecuteCalls, ExecuteStep(c) PROVE OneChargePerKey'
  <2>1. CASE ExecutePayment(c)
    <3>1. request' = request /\ charged' \in {charged, charged \cup {c}} /\ ~IsReplay(c)
      BY <2>1 DEF ExecutePayment
    <3>2. \A e \in charged : request[e] = request[c] => request[c].key \notin Keys
      BY <3>1 DEF IsReplay, Replay, KeysRemembered
    <3> QED BY <3>1, <3>2 DEF OneChargePerKey
  <2>2. CASE ~ExecutePayment(c)
    BY <1>3, <2>2, <1>q DEF ExecuteStep, Begin, LoadIntent, CheckExecutable, StartPreparing,
       ObtainCredential, CredentialFails, MarkReady, MarkConsumed, LoseClaim, StartProcessing,
       ReplayPayment, PaymentError, RecordResult, Complete, ledger
  <2> QED BY <2>1, <2>2
<1>4. ASSUME NEW c \in Calls, Step(c) PROVE OneChargePerKey'
  BY <1>1, <1>2, <1>3, <1>4 DEF Step
<1>5. ASSUME \/ \E c \in Calls : Fail(c)
             \/ \E i \in Intents : Expire(i)
             \/ \E s \in Servers : Restart(s)
             \/ UNCHANGED vars
      PROVE  OneChargePerKey'
  BY <1>5, <1>q DEF Fail, Expire, Restart, vars, ledger
<1> QED BY <1>4, <1>5 DEF Next, Quiescent

\* Retries of a payment, the same intent, key and server, move money once unless a
\* provider loses its memory in between: failed calls, stale rows, a renewed consent
\* and the callers RunIdempotent lets through together do no harm.
THEOREM RetriesChargeOnce == Spec /\ [][MemoryKept]_vars => []OneChargePerKey
<1>1. Init => KeysRemembered /\ OneChargePerKey
  BY DEF Init, KeysRemembered, OneChargePerKey
<1>2. TypeOK /\ KeysRemembered /\ [Next]_vars /\ [MemoryKept]_vars => KeysRemembered'
  BY StepKeys
<1>3. TypeOK /\ KeysRemembered /\ OneChargePerKey /\ [Next]_vars => OneChargePerKey'
  BY StepCharges
<1> QED BY <1>1, <1>2, <1>3, TypeCorrect, PTL DEF Spec

=============================================================================
