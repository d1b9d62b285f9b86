-------------------------- MODULE PaymentIntentsProofs --------------------------
(* Theorems about PaymentIntents, for any number of intents, calls, keys,    *)
(* servers and faults.                                                       *)
EXTENDS PaymentIntents, TLAPS

-------------------------------------------------------------------------------
(* The transition table of AgenticPaymentIntents.                            *)

\* The table leads nowhere but to states it has a row for (State.Valid).
LEMMA TableIsClosed == Transitions \subseteq State \X State
BY DEF State, Transitions

\* The same, of one checked transition.
LEMMA TransitionTypes ==
  ASSUME NEW s, NEW t, CanTransition(s, t)
  PROVE  s \in State /\ t \in State
BY TableIsClosed DEF CanTransition

\* The graph of the table has an exit from every state that is not final.
LEMMA LiveStatesHaveAnExit ==
  \A s \in State \ Terminal : \E t \in State : CanTransition(s, t)
<1> SUFFICES ASSUME NEW s \in State \ Terminal
             PROVE  \E t \in {"FAILED", "CANCELLED"} : CanTransition(s, t)
  BY DEF State
<1> QED BY DEF State, Terminal, Transitions, CanTransition

\* State.Terminal, a switch of its own, and the table agree: a state is terminal
\* exactly if no transition leaves it.
THEOREM TerminalMeansNoEdge ==
  \A s \in State : s \in Terminal <=> \A t \in State : ~CanTransition(s, t)
<1>1. \A s \in Terminal, t \in State : ~CanTransition(s, t)
  BY DEF Terminal, Transitions, CanTransition
<1> QED BY <1>1, LiveStatesHaveAnExit

\* Revoke never picks a state that is not final, whatever it finds.
THEOREM RevokeIsTerminal == \A s \in State : RevokeTarget(s) \in Terminal
BY DEF RevokeTarget, Terminal

-------------------------------------------------------------------------------
(* Types.                                                                    *)

\* Every call is for an intent.
LEMMA ScopeType == ASSUME TypeOK, NEW c \in Calls PROVE Scope(c) \in Intents
BY DEF TypeOK, Scope

\* A checked write leaves rows of the right shape in memory and in the table.
LEMMA PersistTypes ==
  ASSUME TypeOK, NEW c \in Calls, NEW to,
         Persist(c, to) \/ PersistIgnoringErrors(c, to)
  PROVE  copy' \in [Calls -> Row] /\ intent' \in [Intents -> Row]
<1>1. to \in State
  BY TransitionTypes DEF Persist, PersistIgnoringErrors
<1>2. copy' = [copy EXCEPT ![c].status = to]
  BY DEF Persist, PersistIgnoringErrors
<1>3. copy' \in [Calls -> Row]
  <2>1. copy \in [Calls -> Row]
    BY DEF TypeOK
  <2>2. [copy[c] EXCEPT !.status = to] \in Row
    BY <1>1, <2>1 DEF Row
  <2> QED BY <1>2, <2>1, <2>2
<1>4. intent' = intent \/ intent' = [intent EXCEPT ![Scope(c)] = copy'[c]]
  BY DEF Persist, PersistIgnoringErrors
<1>5. intent \in [Intents -> Row]
  BY DEF TypeOK
<1>6. copy'[c] \in Row
  BY <1>3
<1> QED BY <1>3, <1>4, <1>5, <1>6

\* The initial state has the types.
LEMMA InitTypes == Init => TypeOK
<1> SUFFICES ASSUME Init PROVE TypeOK
  OBVIOUS
<1>1. NoRow \in Row /\ NoReply \in [status : {"ABSENT", "IN_PROGRESS", "COMPLETED"}, response : Row]
  BY DEF NoRow, NoReply, Row
<1>2. \A c \in Calls : Entry(c) \in Label
  BY DEF Entry, Label
<1>3. pc \in [Calls -> Label] /\ copy \in [Calls -> Row]
  BY <1>1, <1>2 DEF Init
<1>4. idem \in [Intents -> [Keys -> [status : {"ABSENT", "IN_PROGRESS", "COMPLETED"}, response : Row]]]
  BY <1>1 DEF Init
<1>5. seen \in [Servers -> [Keys -> Row]] /\ response \in [ExecuteCalls -> Row]
  BY <1>1 DEF Init
<1>6. approval \in [Intents -> [status : ApprovalStatus, by : Consents \cup {Nobody}]]
  BY DEF Init, ApprovalStatus
<1>7. faults \in 0..MaxFaults
  BY BoundsAreBounds DEF Init
<1>8. request \in [Calls -> [intent : Intents, key : Keys \cup {NoKey}, server : Servers]]
  BY DEF Init
<1> QED BY <1>1, <1>3, <1>4, <1>5, <1>6, <1>7, <1>8 DEF Init, TypeOK

\* Create's statements keep the types.
LEMMA CreateTypes == ASSUME TypeOK, NEW i \in Intents, CreateStep(i) PROVE TypeOK'
<1> i \in Calls /\ i \in Consents
  BY DEF Calls, Consents
<1>1. CASE CreateIntent(i)
  BY <1>1 DEF CreateIntent, TypeOK, Goto, Label, ledger, Row, State, Scope
<1>2. CASE StartEvaluation(i)
  BY <1>2, PersistTypes DEF StartEvaluation, TypeOK, Goto, Label, ledger
<1>3. CASE NoPolicy(i)
  BY <1>3 DEF NoPolicy, TypeOK, Goto, Label, ledger, tables
<1>4. CASE Deny(i)
  BY <1>4, PersistTypes DEF Deny, TypeOK, Goto, Label, ledger
<1>5. CASE RequireApproval(i)
  BY <1>5 DEF RequireApproval, TypeOK, Goto, Label, ledger, ApprovalStatus
<1>6. CASE Allow(i)
  BY <1>6 DEF Allow, TypeOK, Goto, Label, ApprovalStatus
<1>7. CASE Settle(i)
  BY <1>7, PersistTypes DEF Settle, TypeOK, Goto, Label, ledger
<1> QED BY <1>1, <1>2, <1>3, <1>4, <1>5, <1>6, <1>7 DEF CreateStep

\* So do Approve's and Reject's,
LEMMA DecideTypes ==
  ASSUME TypeOK, NEW c \in ApproveCalls \cup RejectCalls,
         \/ c \in ApproveCalls /\ ApproveStep(c)
         \/ c \in RejectCalls /\ RejectStep(c)
  PROVE  TypeOK'
<1> c \in Calls /\ Scope(c) \in Intents
  BY ScopeType DEF Calls
<1>1. CASE CheckPending(c) \/ CheckRejectable(c)
  BY <1>1 DEF CheckPending, CheckRejectable, TypeOK, Goto, Label, ledger, tables
<1>2. CASE c \in ApproveCalls /\ Grant(c)
  BY <1>2 DEF Grant, TypeOK, Goto, Label, ApprovalStatus, Consents
<1>3. CASE Refuse(c)
  BY <1>3 DEF Refuse, TypeOK, Goto, Label, ledger, ApprovalStatus
<1>4. CASE Reload(c)
  BY <1>4 DEF Reload, TypeOK, Goto, Label, ledger, tables
<1>5. CASE Advance(c)
  BY <1>5, PersistTypes DEF Advance, TypeOK, Goto, Label, ledger
<1> QED BY <1>1, <1>2, <1>3, <1>4, <1>5 DEF ApproveStep, RejectStep

\* Revoke's,
LEMMA RevokeTypes == ASSUME TypeOK, NEW c \in RevokeCalls, RevokeStep(c) PROVE TypeOK'
<1> c \in Calls /\ Scope(c) \in Intents
  BY ScopeType DEF Calls
<1>1. CASE LoadToRevoke(c)
  BY <1>1 DEF LoadToRevoke, TypeOK, Goto, Label, ledger, tables
<1>2. CASE Withdraw(c)
  BY <1>2, PersistTypes DEF Withdraw, TypeOK, Goto, Label, ledger
<1> QED BY <1>1, <1>2 DEF RevokeStep

\* and Execute's.
LEMMA ExecuteTypes == ASSUME TypeOK, NEW c \in ExecuteCalls, ExecuteStep(c) PROVE TypeOK'
<1> c \in Calls /\ Scope(c) \in Intents
  BY ScopeType DEF Calls
<1>k. request[c].key \in Keys \cup {NoKey} /\ request[c].server \in Servers
  BY DEF TypeOK
<1>r. \A s \in State \cup {"ABSENT"}, t \in ExecuteCalls \cup {Nobody} :
        [status |-> s, txn |-> t] \in Row
  BY DEF Row
<1>1. CASE Begin(c)
  <2> DEFINE k == request[c].key
             done == k \in Keys /\ idem[Scope(c)][k].status = "COMPLETED"
  <2>1. response' \in [ExecuteCalls -> Row]
    BY <1>1, <1>k DEF Begin, TypeOK
  <2>2. idem' \in [Intents -> [Keys -> [status : {"ABSENT", "IN_PROGRESS", "COMPLETED"}, response : Row]]]
    <3> DEFINE Reply == [status : {"ABSENT", "IN_PROGRESS", "COMPLETED"}, response : Row]
    <3>1. idem \in [Intents -> [Keys -> Reply]]
      BY DEF TypeOK
    <3>2. \A r \in Reply : [r EXCEPT !.status = "IN_PROGRESS"] \in Reply
      OBVIOUS
    <3>3. idem' = IF k \in Keys /\ ~done
                  THEN [idem EXCEPT ![Scope(c)][k].status = "IN_PROGRESS"] ELSE idem
      BY <1>1 DEF Begin
    <3>4. k \in Keys => [idem[Scope(c)][k] EXCEPT !.status = "IN_PROGRESS"] \in Reply
      BY <3>1, <3>2
    <3> HIDE DEF k, done, Reply
    <3>5. idem' \in [Intents -> [Keys -> Reply]]
      BY <3>1, <3>3, <3>4
    <3> QED BY <3>5 DEF Reply
  <2>3. pc' \in [Calls -> Label]
    BY <1>1 DEF Begin, TypeOK, Goto, Label
  <2> QED BY <1>1, <2>1, <2>2, <2>3 DEF Begin, TypeOK, ledger
<1>2. CASE LoadIntent(c)
  BY <1>2 DEF LoadIntent, TypeOK, Goto, Label, ledger, tables
<1>3. CASE CheckExecutable(c)
  BY <1>3 DEF CheckExecutable, TypeOK, Goto, Label, ledger, tables
<1>4. CASE StartPreparing(c)
  BY <1>4, PersistTypes DEF StartPreparing, TypeOK, Goto, Label, ledger
<1>5. CASE ObtainCredential(c)
  BY <1>5 DEF ObtainCredential, TypeOK, Goto, Label, ledger, tables
<1>6. CASE CredentialFails(c)
  BY <1>6, <1>r, PersistTypes DEF CredentialFails, TypeOK, Goto, Label, ledger, State
<1>7. CASE MarkReady(c)
  BY <1>7, PersistTypes DEF MarkReady, TypeOK, Goto, Label, ledger
<1>8. CASE MarkConsumed(c)
  <2>1. approval' \in [Intents -> [status : ApprovalStatus, by : Consents \cup {Nobody}]]
    <3>1. "CONSUMED" \in ApprovalStatus
      BY DEF ApprovalStatus
    <3> QED BY <1>8, <3>1 DEF MarkConsumed, TypeOK
  <2> QED BY <1>8, <2>1 DEF MarkConsumed, TypeOK, Goto, Label
<1>9. CASE LoseClaim(c)
  BY <1>9 DEF LoseClaim, TypeOK, Goto, Label, ledger, tables
<1>10. CASE StartProcessing(c)
  BY <1>10, PersistTypes DEF StartProcessing, TypeOK, Goto, Label, ledger
<1>11. CASE ReplayPayment(c)
  BY <1>11, <1>k DEF ReplayPayment, IsReplay, Replay, TypeOK, Goto, Label, ledger, tables
<1>12. CASE ExecutePayment(c)
  <2>1. PICK o \in Outcome :
          /\ charged' = IF o = "SUCCEEDED" THEN charged \cup {c} ELSE charged
          /\ response' = [response EXCEPT ![c] = FreshResult(c, o)]
          /\ seen' = IF request[c].key \in Keys
                     THEN [seen EXCEPT ![request[c].server][request[c].key] = FreshResult(c, o)]
                     ELSE seen
    BY <1>12 DEF ExecutePayment
  <2>2. FreshResult(c, o) \in Row
    BY <1>r DEF FreshResult, Outcome, State
  <2>3. response' \in [ExecuteCalls -> Row] /\ seen' \in [Servers -> [Keys -> Row]]
    BY <1>k, <2>1, <2>2 DEF TypeOK
  <2>4. charged' \subseteq ExecuteCalls /\ pc' \in [Calls -> Label]
    BY <1>12, <2>1 DEF ExecutePayment, TypeOK, Goto, Label
  <2> QED BY <1>12, <2>3, <2>4 DEF ExecutePayment, TypeOK, tables
<1>13. CASE PaymentError(c)
  BY <1>13, <1>r, PersistTypes DEF PaymentError, TypeOK, Goto, Label, ledger, State
<1>14. CASE RecordResult(c)
  <2>1. response[c].status \in State
    BY <1>14, TransitionTypes DEF RecordResult
  <2>2. copy[c].txn \in ExecuteCalls \cup {Nobody} /\ response[c].txn \in ExecuteCalls \cup {Nobody}
    BY DEF TypeOK, Row
  <2>3. copy' \in [Calls -> Row]
    BY <1>14, <1>r, <2>1, <2>2 DEF RecordResult, TypeOK
  <2>4. intent' \in [Intents -> Row] /\ pc' \in [Calls -> Label]
    BY <1>14, <2>3 DEF RecordResult, TypeOK, Goto, Label
  <2> QED BY <1>14, <2>3, <2>4 DEF RecordResult, TypeOK, ledger
<1>15. CASE Complete(c)
  <2>1. idem' \in [Intents -> [Keys -> [status : {"ABSENT", "IN_PROGRESS", "COMPLETED"}, response : Row]]]
    <3>1. [status |-> "COMPLETED", response |-> response[c]]
            \in [status : {"ABSENT", "IN_PROGRESS", "COMPLETED"}, response : Row]
      BY DEF TypeOK
    <3> QED BY <1>15, <1>k, <3>1 DEF Complete, TypeOK
  <2> QED BY <1>15, <2>1 DEF Complete, TypeOK, Goto, Label, ledger
<1> QED BY <1>1, <1>2, <1>3, <1>4, <1>5, <1>6, <1>7, <1>8, <1>9, <1>10, <1>11, <1>12,
           <1>13, <1>14, <1>15 DEF ExecuteStep

\* Types are inductive.
LEMMA StepTypes == TypeOK /\ [Next]_vars => TypeOK'
<1> SUFFICES ASSUME TypeOK, [Next]_vars PROVE TypeOK'
  OBVIOUS
<1>1. CASE \E c \in Calls : Step(c)
  BY <1>1, CreateTypes, DecideTypes, RevokeTypes, ExecuteTypes DEF Step
<1>2. CASE \E c \in Calls : Fail(c)
  BY <1>2, BoundsAreBounds DEF Fail, TypeOK, Goto, Label, ledger, tables
<1>3. CASE \E i \in Intents : Expire(i)
  BY <1>3 DEF Expire, TypeOK, ledger, tables
<1>4. CASE \E s \in Servers : Restart(s)
  <2> NoRow \in Row
    BY DEF NoRow, Row
  <2> QED BY <1>4, BoundsAreBounds DEF Restart, TypeOK, Label, ledger, tables
<1>5. CASE UNCHANGED vars
  BY <1>5 DEF vars, TypeOK, ledger, tables
<1> QED BY <1>1, <1>2, <1>3, <1>4, <1>5 DEF Next, Quiescent

\* Type correctness of the services' state: every row, stored response and
\* in-memory copy holds a value the code gives it.
THEOREM TypeCorrect == Spec => []TypeOK
BY InitTypes, StepTypes, PTL DEF Spec

-------------------------------------------------------------------------------
(* Consents.                                                                 *)

\* The kinds of calls are apart, and Nobody is not a call.
LEMMA Kinds ==
  /\ \A i \in Intents : i \notin ApproveCalls /\ i \notin ExecuteCalls
  /\ \A a \in ApproveCalls : a \notin ExecuteCalls /\ a \in Consents
  /\ \A g \in Consents : g # Nobody /\ g \in Calls
BY CallsAreDistinct, NoneIsNone DEF Calls, Consents

\* Nothing is accounted for before the first call.
LEMMA InitAccounts == Init => ConsentsAccounted
<1> SUFFICES ASSUME Init PROVE ConsentsAccounted
  OBVIOUS
<1>1. CreatesItsOwn
  BY DEF Init, CreatesItsOwn, Scope
<1>2. UndecidedIsBlank /\ PendingWasRequested /\ ApprovedIsUnclaimed
  BY DEF Init, UndecidedIsBlank, PendingWasRequested, ApprovedIsUnclaimed
<1>3. DecidersWait
  BY CallsAreDistinct DEF Init, DecidersWait, Entry, Calls
<1>4. ConsentFollowsPolicy /\ ClaimsAreGranted /\ ConsentSpentOnce
  BY DEF Init, ConsentFollowsPolicy, ClaimsAreGranted, ConsentSpentOnce
<1>5. ClaimThenCharge
  BY CallsAreDistinct DEF Init, ClaimThenCharge, Entry, Calls
<1> QED BY <1>1, <1>2, <1>3, <1>4, <1>5 DEF ConsentsAccounted

\* Most statements touch no approval and no ledger: it is enough that the call
\* does not come to a statement that promises more than the one it leaves.
LEMMA QuietStep ==
  ASSUME TypeOK, ConsentsAccounted, NEW c \in Calls, NEW l, Goto(c, l),
         UNCHANGED <<request, approval, decision, ledger>>,
         c \in Intents /\ l \in {"create", "evaluate", "decide"} =>
           pc[c] \in {"create", "evaluate", "decide"},
         c \in ApproveCalls \cup RejectCalls => l \notin {"approve", "grant", "refuse"},
         c \in ExecuteCalls /\ l \in BeforeClaim => pc[c] \in BeforeClaim,
         c \in ExecuteCalls /\ l \in {"start", "pay"} => pc[c] \in {"start", "pay"}
  PROVE  ConsentsAccounted'
<1>1. \A d \in Calls : pc'[d] = IF d = c THEN l ELSE pc[d]
  BY DEF Goto, TypeOK
<1>2. CreatesItsOwn' /\ PendingWasRequested'
  BY DEF ConsentsAccounted, CreatesItsOwn, PendingWasRequested, Scope
<1>3. UndecidedIsBlank'
  BY <1>1 DEF ConsentsAccounted, UndecidedIsBlank, Calls
<1>4. DecidersWait'
  BY <1>1 DEF ConsentsAccounted, DecidersWait, Calls, Scope, ledger
<1>5. ConsentFollowsPolicy' /\ ConsentSpentOnce'
  BY DEF ConsentsAccounted, ConsentFollowsPolicy, ConsentSpentOnce, Scope, ledger
<1>6. ApprovedIsUnclaimed' /\ ClaimsAreGranted'
  BY DEF ConsentsAccounted, ApprovedIsUnclaimed, ClaimsAreGranted, Scope, ledger
<1>7. ClaimThenCharge'
  BY <1>1 DEF ConsentsAccounted, ClaimThenCharge, Calls, ledger, BeforeClaim
<1> QED BY <1>2, <1>3, <1>4, <1>5, <1>6, <1>7 DEF ConsentsAccounted

\* Create: the policy's decision, and its own consent when it allows.
LEMMA CreateAccounts ==
  ASSUME TypeOK, ConsentsAccounted, NEW i \in Intents, CreateStep(i)
  PROVE  ConsentsAccounted'
<1> i \in Calls
  BY DEF Calls
<1> USE Kinds
<1>q. CASE CreateIntent(i) \/ StartEvaluation(i) \/ NoPolicy(i) \/ Settle(i)
  <2>1. PICK l \in {"evaluate", "decide", "failed", "done"} :
          /\ Goto(i, l) /\ UNCHANGED <<request, approval, decision, ledger>>
          /\ l \in {"evaluate", "decide"} => pc[i] \in {"create", "evaluate"}
    BY <1>q DEF CreateIntent, StartEvaluation, NoPolicy, Settle, AtStatement, tables
  <2> QED BY <2>1, QuietStep, Zenon
<1>d. CASE Deny(i) \/ RequireApproval(i) \/ Allow(i)
  <2>1. decision[i] = "NONE" /\ approval[i].status = "ABSENT"
    BY <1>d DEF Deny, RequireApproval, Allow, AtStatement, ConsentsAccounted, UndecidedIsBlank
  <2>2. \A g \in granted : g # i /\ Scope(g) # i
    BY <2>1 DEF ConsentsAccounted, ConsentFollowsPolicy, CreatesItsOwn
  <2>3. /\ \A d \in Calls : d # i => pc'[d] = pc[d]
        /\ pc'[i] \notin {"create", "evaluate", "decide"}
    BY <1>d DEF Deny, RequireApproval, Allow, Goto, TypeOK
  <2>4. /\ \A j \in Intents \ {i} : decision'[j] = decision[j] /\ approval'[j] = approval[j]
        /\ request' = request /\ claim' = claim /\ charged' = charged
    BY <1>d DEF Deny, RequireApproval, Allow, ledger, TypeOK
  <2>5. \/ decision'[i] = "DENY" /\ granted' = granted /\ approval'[i].status = "ABSENT"
        \/ decision'[i] = "REQUIRE_APPROVAL" /\ granted' = granted /\ approval'[i].status = "PENDING"
        \/ /\ decision'[i] = "ALLOW" /\ granted' = granted \cup {i}
           /\ approval'[i].status = "APPROVED" /\ approval'[i].by = i
    BY <1>d, <2>1 DEF Deny, RequireApproval, Allow, ledger, TypeOK
  <2>6. \A c \in Calls : Scope(c)' = Scope(c) /\ Scope(c) \in Intents
    BY <2>4, ScopeType DEF Scope
  <2>7. CreatesItsOwn'
    BY <2>6 DEF ConsentsAccounted, CreatesItsOwn, Calls
  <2>8. UndecidedIsBlank'
    BY <2>3, <2>4 DEF ConsentsAccounted, UndecidedIsBlank, Calls
  <2>9. PendingWasRequested'
    BY <2>4, <2>5 DEF ConsentsAccounted, PendingWasRequested
  <2>10. DecidersWait'
    <3>1. \A c \in ApproveCalls \cup RejectCalls : pc'[c] = pc[c]
      BY <2>3, CallsAreDistinct DEF Calls
    <3>2. \A c \in ApproveCalls \cup RejectCalls :
            pc[c] \in {"grant", "refuse"} =>
              decision[Scope(c)] = "REQUIRE_APPROVAL" /\ Scope(c) # i
      BY <2>1 DEF ConsentsAccounted, DecidersWait
    <3>3. \A c \in ApproveCalls : pc'[c] \in {"approve", "grant"} => c \notin granted'
      BY <2>5, <3>1 DEF ConsentsAccounted, DecidersWait
    <3>4. \A c \in ApproveCalls \cup RejectCalls :
            pc'[c] \in {"grant", "refuse"} => decision'[Scope(c)'] = "REQUIRE_APPROVAL"
      BY <2>4, <2>6, <3>1, <3>2 DEF Calls
    <3> QED BY <3>3, <3>4 DEF DecidersWait
  <2>11. ConsentFollowsPolicy'
    BY <2>2, <2>4, <2>5, <2>6 DEF ConsentsAccounted, ConsentFollowsPolicy, Calls
  <2>12. ClaimsAreGranted' /\ ConsentSpentOnce'
    BY <2>4, <2>5, <2>6 DEF ConsentsAccounted, ClaimsAreGranted, ConsentSpentOnce, Calls, TypeOK, Consents
  <2>13. ApprovedIsUnclaimed'
    <3> SUFFICES ASSUME NEW j \in Intents, approval'[j].status = "APPROVED"
                 PROVE  /\ approval'[j].by \in granted' /\ Scope(approval[j].by)' = j
                        /\ \A e \in ExecuteCalls : claim'[e] # approval'[j].by
      BY DEF ApprovedIsUnclaimed
    <3>1. CASE j = i
      <4>1. approval'[j].by = i /\ i \in granted'
        BY <2>5, <3>1
      <4>2. Scope(approval[j].by)' = j
        BY <2>4, <3>1, <4>1 DEF Scope, ConsentsAccounted, CreatesItsOwn
      <4>3. \A e \in ExecuteCalls : claim'[e] # i
        BY <2>2, <2>4 DEF ConsentsAccounted, ClaimsAreGranted, Consents
      <4> QED BY <4>1, <4>2, <4>3
    <3>2. CASE j # i
      <4>1. /\ approval[j].by \in granted /\ Scope(approval[j].by) = j
            /\ \A e \in ExecuteCalls : claim[e] # approval[j].by
        BY <2>4, <3>2 DEF ConsentsAccounted, ApprovedIsUnclaimed
      <4>2. approval'[j] = approval[j] /\ approval[j].by \in Calls
        BY <2>4, <3>2, <4>1 DEF TypeOK
      <4>3. Scope(approval[j].by)' = j
        BY <2>4, <4>1, <4>2 DEF Scope
      <4> QED BY <2>4, <2>5, <4>1, <4>2, <4>3
    <3> QED BY <3>1, <3>2
  <2>14. ClaimThenCharge'
    BY <2>3, <2>4 DEF ConsentsAccounted, ClaimThenCharge, Calls
  <2> QED BY <2>7, <2>8, <2>9, <2>10, <2>11, <2>12, <2>13, <2>14 DEF ConsentsAccounted
<1> QED BY <1>q, <1>d DEF CreateStep

\* Approve and Reject: the checks are quiet but for the promise to consent, the
\* blind updates renew or end the approval.
LEMMA DecideAccounts ==
  ASSUME TypeOK, ConsentsAccounted, NEW c \in ApproveCalls \cup RejectCalls,
         \/ c \in ApproveCalls /\ ApproveStep(c)
         \/ c \in RejectCalls /\ RejectStep(c)
  PROVE  ConsentsAccounted'
<1> c \in Calls /\ c \notin Intents /\ c \notin ExecuteCalls /\ Scope(c) \in Intents
  BY CallsAreDistinct, ScopeType DEF Calls
<1> USE Kinds
<1>q. CASE Reload(c) \/ Advance(c)
  <2>1. PICK l \in {"advance", "failed", "done"} :
          Goto(c, l) /\ UNCHANGED <<request, approval, decision, ledger>>
    BY <1>q DEF Reload, Advance, tables
  <2> QED BY <2>1, QuietStep, Zenon
<1>1. CASE (c \in ApproveCalls /\ CheckPending(c)) \/ (c \in RejectCalls /\ CheckRejectable(c))
  <2>1. /\ \A d \in Calls : d # c => pc'[d] = pc[d]
        /\ UNCHANGED <<request, approval, decision, granted, claim, charged>>
    BY <1>1 DEF CheckPending, CheckRejectable, Goto, tables, ledger, TypeOK
  <2>2. c \in ApproveCalls => c \notin granted
    BY <1>1, CallsAreDistinct DEF CheckPending, AtStatement, ConsentsAccounted, DecidersWait
  <2>3. pc'[c] \in {"grant", "refuse"} =>
          approval[Scope(c)].status \in {"PENDING", "REAPPROVAL_REQUIRED"}
    BY <1>1 DEF CheckPending, CheckRejectable, Goto, TypeOK
  <2>4. pc'[c] \in {"grant", "refuse"} => decision[Scope(c)] = "REQUIRE_APPROVAL"
    BY <2>3 DEF ConsentsAccounted, PendingWasRequested
  <2>5. DecidersWait'
    BY <2>1, <2>2, <2>4 DEF ConsentsAccounted, DecidersWait, Calls, Scope
  <2>6. UndecidedIsBlank' /\ ClaimThenCharge'
    BY <2>1 DEF ConsentsAccounted, UndecidedIsBlank, ClaimThenCharge, Calls
  <2>7. CreatesItsOwn' /\ PendingWasRequested' /\ ConsentSpentOnce' /\ ConsentFollowsPolicy'
    BY <2>1 DEF ConsentsAccounted, CreatesItsOwn, PendingWasRequested, ConsentSpentOnce,
                ConsentFollowsPolicy, Scope
  <2>8. ApprovedIsUnclaimed' /\ ClaimsAreGranted'
    BY <2>1 DEF ConsentsAccounted, ApprovedIsUnclaimed, ClaimsAreGranted, Scope
  <2> QED BY <2>5, <2>6, <2>7, <2>8 DEF ConsentsAccounted
<1>2. CASE c \in ApproveCalls /\ Grant(c)
  <2>1. /\ \A d \in Calls : d # c => pc'[d] = pc[d]
        /\ pc'[c] = "reload"
        /\ UNCHANGED <<request, decision, claim, charged>>
        /\ granted' = granted \cup {c}
        /\ \A i \in Intents \ {Scope(c)} : approval'[i] = approval[i]
        /\ approval'[Scope(c)] = [status |-> "APPROVED", by |-> c]
    BY <1>2 DEF Grant, Goto, TypeOK
  <2>2. c \notin granted /\ decision[Scope(c)] = "REQUIRE_APPROVAL"
    BY <1>2 DEF Grant, AtStatement, ConsentsAccounted, DecidersWait
  <2>3. CreatesItsOwn' /\ ConsentSpentOnce'
    BY <2>1 DEF ConsentsAccounted, CreatesItsOwn, ConsentSpentOnce, Scope
  <2>4. UndecidedIsBlank'
    BY <2>1, <2>2 DEF ConsentsAccounted, UndecidedIsBlank, Calls
  <2>5. PendingWasRequested'
    BY <2>1 DEF ConsentsAccounted, PendingWasRequested
  <2>6. DecidersWait'
    BY <2>1 DEF ConsentsAccounted, DecidersWait, Calls, Scope
  <2>7. ConsentFollowsPolicy'
    BY <1>2, <2>1, <2>2 DEF ConsentsAccounted, ConsentFollowsPolicy, Scope
  <2>8. ApprovedIsUnclaimed'
    <3>1. \A e \in ExecuteCalls : claim[e] # c
      BY <1>2, <2>2 DEF ConsentsAccounted, ClaimsAreGranted
    <3> QED BY <2>1, <3>1 DEF ConsentsAccounted, ApprovedIsUnclaimed, Scope
  <2>9. ClaimsAreGranted'
    BY <2>1 DEF ConsentsAccounted, ClaimsAreGranted, Scope
  <2>10. ClaimThenCharge'
    BY <2>1 DEF ConsentsAccounted, ClaimThenCharge, Calls
  <2> QED BY <2>3, <2>4, <2>5, <2>6, <2>7, <2>8, <2>9, <2>10 DEF ConsentsAccounted
<1>3. CASE c \in RejectCalls /\ Refuse(c)
  <2> c \notin ApproveCalls
    BY <1>3, CallsAreDistinct
  <2>1. /\ \A d \in Calls : d # c => pc'[d] = pc[d]
        /\ UNCHANGED <<request, decision, granted, claim, charged>>
        /\ \A i \in Intents \ {Scope(c)} : approval'[i] = approval[i]
        /\ approval'[Scope(c)].status = "REJECTED"
    BY <1>3 DEF Refuse, Goto, TypeOK, ledger
  <2>2. decision[Scope(c)] = "REQUIRE_APPROVAL" /\ pc'[c] = "reload"
    BY <1>3 DEF Refuse, AtStatement, Goto, TypeOK, ConsentsAccounted, DecidersWait
  <2>3. CreatesItsOwn' /\ ConsentSpentOnce' /\ ConsentFollowsPolicy' /\ ClaimsAreGranted'
    BY <2>1 DEF ConsentsAccounted, CreatesItsOwn, ConsentSpentOnce, ConsentFollowsPolicy,
                ClaimsAreGranted, Scope
  <2>4. UndecidedIsBlank'
    BY <2>1, <2>2 DEF ConsentsAccounted, UndecidedIsBlank, Calls
  <2>5. PendingWasRequested' /\ ApprovedIsUnclaimed'
    BY <2>1 DEF ConsentsAccounted, PendingWasRequested, ApprovedIsUnclaimed, Scope
  <2>6. DecidersWait'
    BY <2>1, <2>2 DEF ConsentsAccounted, DecidersWait, Calls, Scope
  <2>7. ClaimThenCharge'
    BY <2>1 DEF ConsentsAccounted, ClaimThenCharge, Calls
  <2> QED BY <2>3, <2>4, <2>5, <2>6, <2>7 DEF ConsentsAccounted
<1> QED BY <1>q, <1>1, <1>2, <1>3 DEF ApproveStep, RejectStep

\* Execute: a claim takes the consent of the APPROVED row it ends, and money moves
\* after it.
LEMMA ExecuteAccounts ==
  ASSUME TypeOK, ConsentsAccounted, NEW c \in ExecuteCalls, ExecuteStep(c)
  PROVE  ConsentsAccounted'
<1> c \in Calls /\ c \notin Intents /\ c \notin ApproveCalls \cup RejectCalls /\ Scope(c) \in Intents
  BY CallsAreDistinct, ScopeType DEF Calls
<1>a. CASE \/ Begin(c) \/ LoadIntent(c) \/ CheckExecutable(c) \/ StartPreparing(c)
          \/ ObtainCredential(c) \/ MarkReady(c)
  <2>1. PICK l \in {"load", "check", "prepare", "credential", "ready", "claim", "done", "failed"} :
          /\ Goto(c, l) /\ UNCHANGED <<request, approval, decision, ledger>>
          /\ pc[c] \in BeforeClaim
    BY <1>a DEF Begin, LoadIntent, CheckExecutable, StartPreparing, ObtainCredential, MarkReady,
                AtStatement, BeforeClaim, tables
  <2>2. l \notin {"start", "pay"}
    OBVIOUS
  <2> QED BY <2>1, <2>2, QuietStep, Zenon
<1>b. CASE \/ CredentialFails(c) \/ LoseClaim(c) \/ ReplayPayment(c) \/ PaymentError(c)
          \/ RecordResult(c) \/ Complete(c)
  <2>1. PICK l \in {"record", "complete", "done", "failed"} :
          Goto(c, l) /\ UNCHANGED <<request, approval, decision, ledger>>
    BY <1>b DEF CredentialFails, LoseClaim, ReplayPayment, PaymentError, RecordResult, Complete, tables
  <2>2. l \notin {"start", "pay"} /\ l \notin BeforeClaim
    BY DEF BeforeClaim
  <2> QED BY <2>1, <2>2, QuietStep, Zenon
<1>c. CASE StartProcessing(c)
  <2>1. Goto(c, "pay") /\ pc[c] = "start" /\ UNCHANGED <<request, approval, decision, ledger>>
    BY <1>c DEF StartProcessing, AtStatement
  <2>2. "pay" \notin BeforeClaim
    BY DEF BeforeClaim
  <2> QED BY <2>1, <2>2, QuietStep, Zenon
<1>d. CASE MarkConsumed(c)
  <2> DEFINE i == Scope(c)
             g == approval[i].by
  <2>1. /\ \A d \in Calls : d # c => pc'[d] = pc[d]
        /\ pc'[c] = "start" /\ pc[c] = "claim"
        /\ UNCHANGED <<request, decision, granted, charged>>
        /\ \A j \in Intents \ {i} : approval'[j] = approval[j]
        /\ approval[i].status = "APPROVED" /\ approval'[i].status = "CONSUMED"
        /\ \A e \in ExecuteCalls : claim'[e] = IF e = c THEN g ELSE claim[e]
    BY <1>d DEF MarkConsumed, Goto, AtStatement, TypeOK
  <2>2. /\ g \in granted /\ Scope(g) = i /\ g # Nobody
        /\ \A e \in ExecuteCalls : claim[e] # g
    BY <2>1, Kinds DEF ConsentsAccounted, ApprovedIsUnclaimed, TypeOK
  <2>3. c \notin charged
    BY <2>1 DEF ConsentsAccounted, ClaimThenCharge, BeforeClaim
  <2>4. CreatesItsOwn' /\ ConsentFollowsPolicy'
    BY <2>1 DEF ConsentsAccounted, CreatesItsOwn, ConsentFollowsPolicy, Scope
  <2>5. UndecidedIsBlank'
    BY <2>1 DEF ConsentsAccounted, UndecidedIsBlank, Calls
  <2>6. PendingWasRequested'
    BY <2>1 DEF ConsentsAccounted, PendingWasRequested
  <2>7. DecidersWait'
    BY <2>1 DEF ConsentsAccounted, DecidersWait, Calls, Scope
  <2>8. ApprovedIsUnclaimed'
    <3> SUFFICES ASSUME NEW j \in Intents, approval'[j].status = "APPROVED"
                 PROVE  /\ approval'[j].by \in granted' /\ Scope(approval[j].by)' = j
                        /\ \A e \in ExecuteCalls : claim'[e] # approval'[j].by
      BY DEF ApprovedIsUnclaimed
    <3>1. j # i /\ approval'[j] = approval[j]
      BY <2>1
    <3>2. /\ approval[j].by \in granted /\ Scope(approval[j].by) = j
          /\ \A e \in ExecuteCalls : claim[e] # approval[j].by
      BY <3>1 DEF ConsentsAccounted, ApprovedIsUnclaimed
    <3>3. Scope(approval[j].by)' = j
      BY <2>1, <3>1, <3>2 DEF Scope
    <3> QED BY <2>1, <2>2, <3>1, <3>2, <3>3
  <2>9. ClaimsAreGranted'
    <3> SUFFICES ASSUME NEW e \in ExecuteCalls, claim'[e] # Nobody
                 PROVE  claim'[e] \in granted' /\ Scope(claim[e])' = Scope(e)'
      BY DEF ClaimsAreGranted
    <3>1. claim'[e] \in granted /\ Scope(claim'[e]) = Scope(e)
      BY <2>1, <2>2 DEF ConsentsAccounted, ClaimsAreGranted
    <3> QED BY <2>1, <3>1 DEF Scope
  <2>10. ConsentSpentOnce'
    BY <2>1, <2>2 DEF ConsentsAccounted, ConsentSpentOnce
  <2>11. ClaimThenCharge'
    BY <2>1, <2>2, <2>3 DEF ConsentsAccounted, ClaimThenCharge, Calls, BeforeClaim
  <2> QED BY <2>4, <2>5, <2>6, <2>7, <2>8, <2>9, <2>10, <2>11 DEF ConsentsAccounted
<1>e. CASE ExecutePayment(c)
  <2>1. /\ \A d \in Calls : d # c => pc'[d] = pc[d]
        /\ pc'[c] = "record" /\ pc[c] = "pay"
        /\ UNCHANGED <<request, approval, decision, granted, claim>>
        /\ charged' \in {charged, charged \cup {c}}
    BY <1>e DEF ExecutePayment, Goto, AtStatement, TypeOK, tables
  <2>2. claim[c] # Nobody
    BY <2>1 DEF ConsentsAccounted, ClaimThenCharge
  <2>3. ClaimThenCharge'
    BY <2>1, <2>2 DEF ConsentsAccounted, ClaimThenCharge, Calls, BeforeClaim
  <2>4. UndecidedIsBlank'
    BY <2>1 DEF ConsentsAccounted, UndecidedIsBlank, Calls
  <2>5. DecidersWait'
    BY <2>1 DEF ConsentsAccounted, DecidersWait, Calls, Scope
  <2>6. CreatesItsOwn' /\ PendingWasRequested' /\ ConsentFollowsPolicy' /\ ConsentSpentOnce'
    BY <2>1 DEF ConsentsAccounted, CreatesItsOwn, PendingWasRequested, ConsentFollowsPolicy,
                ConsentSpentOnce, Scope
  <2>7. ApprovedIsUnclaimed' /\ ClaimsAreGranted'
    BY <2>1 DEF ConsentsAccounted, ApprovedIsUnclaimed, ClaimsAreGranted, Scope
  <2> QED BY <2>3, <2>4, <2>5, <2>6, <2>7 DEF ConsentsAccounted
<1> QED BY <1>a, <1>b, <1>c, <1>d, <1>e DEF ExecuteStep

\* A restart answers calls and forgets what the provider had seen.
LEMMA RestartAccounts ==
  ASSUME TypeOK, ConsentsAccounted, NEW s \in Servers, Restart(s)
  PROVE  ConsentsAccounted'
<1>1. /\ \A d \in Calls : pc'[d] \in {pc[d], "failed"}
      /\ UNCHANGED <<request, approval, decision, granted, claim, charged>>
  BY DEF Restart, tables, ledger, TypeOK
<1>2. UndecidedIsBlank'
  BY <1>1 DEF ConsentsAccounted, UndecidedIsBlank, Calls
<1>3. DecidersWait'
  BY <1>1 DEF ConsentsAccounted, DecidersWait, Calls, Scope
<1>4. ClaimThenCharge'
  BY <1>1 DEF ConsentsAccounted, ClaimThenCharge, Calls, BeforeClaim
<1>5. CreatesItsOwn' /\ PendingWasRequested' /\ ConsentFollowsPolicy' /\ ConsentSpentOnce'
  BY <1>1 DEF ConsentsAccounted, CreatesItsOwn, PendingWasRequested, ConsentFollowsPolicy,
              ConsentSpentOnce, Scope
<1>6. ApprovedIsUnclaimed' /\ ClaimsAreGranted'
  BY <1>1 DEF ConsentsAccounted, ApprovedIsUnclaimed, ClaimsAreGranted, Scope
<1> QED BY <1>2, <1>3, <1>4, <1>5, <1>6 DEF ConsentsAccounted

\* The bookkeeping is inductive, given the types.
LEMMA StepAccounts == TypeOK /\ ConsentsAccounted /\ [Next]_vars => ConsentsAccounted'
<1> SUFFICES ASSUME TypeOK, ConsentsAccounted, [Next]_vars PROVE ConsentsAccounted'
  OBVIOUS
<1>q. ASSUME NEW c \in Calls, NEW l \in {"withdraw", "done", "failed"}, Goto(c, l),
             UNCHANGED <<request, approval, decision, ledger>>
      PROVE  ConsentsAccounted'
  <2>1. l \notin {"create", "evaluate", "decide", "approve", "grant", "refuse", "start", "pay"}
        /\ l \notin BeforeClaim
    BY DEF BeforeClaim
  <2> QED BY <1>q, <2>1, QuietStep
<1>1. ASSUME NEW c \in Calls, Step(c) PROVE ConsentsAccounted'
  <2>1. CASE c \in RevokeCalls /\ RevokeStep(c)
    BY <1>q, <2>1 DEF RevokeStep, LoadToRevoke, Withdraw, tables
  <2> QED BY <1>1, <2>1, CreateAccounts, DecideAccounts, ExecuteAccounts DEF Step
<1>2. ASSUME NEW c \in Calls, Fail(c) PROVE ConsentsAccounted'
  BY <1>q, <1>2 DEF Fail, tables
<1>3. ASSUME NEW s \in Servers, Restart(s) PROVE ConsentsAccounted'
  BY <1>3, RestartAccounts
<1>4. ASSUME UNCHANGED <<request, pc, approval, decision, ledger>> PROVE ConsentsAccounted'
  BY <1>4 DEF ConsentsAccounted, CreatesItsOwn, UndecidedIsBlank, PendingWasRequested, DecidersWait,
              ConsentFollowsPolicy, ApprovedIsUnclaimed, ClaimsAreGranted, ConsentSpentOnce,
              ClaimThenCharge, Scope, ledger
<1>5. CASE \/ \E i \in Intents : Expire(i)
          \/ UNCHANGED vars
  BY <1>4, <1>5 DEF Expire, vars, tables
<1> QED BY <1>1, <1>2, <1>3, <1>5 DEF Next, Quiescent

\* The invariant behind the theorems below.
THEOREM Accounts == Spec => [](TypeOK /\ ConsentsAccounted)
<1>1. Init => TypeOK /\ ConsentsAccounted
  BY InitTypes, InitAccounts
<1>2. TypeOK /\ ConsentsAccounted /\ [Next]_vars => (TypeOK /\ ConsentsAccounted)'
  BY StepTypes, StepAccounts
<1> QED BY <1>1, <1>2, PTL DEF Spec

\* No two executions ever claim the same act of consent, whatever Approve and
\* Reject write over the approval meanwhile.
THEOREM NoConsentIsSpentTwice == Spec => []ConsentSpentOnce
<1>1. ConsentsAccounted => ConsentSpentOnce
  BY DEF ConsentsAccounted
<1> QED BY <1>1, Accounts, PTL

\* What a charge rests on.
LEMMA ChargeRests ==
  ASSUME TypeOK, ConsentsAccounted, NEW e \in charged
  PROVE  \/ decision[Scope(e)] = "ALLOW" /\ claim[e] = Scope(e)
         \/ /\ decision[Scope(e)] = "REQUIRE_APPROVAL"
            /\ claim[e] \in ApproveCalls /\ Scope(claim[e]) = Scope(e)
<1>1. e \in ExecuteCalls /\ claim[e] # Nobody
  BY DEF TypeOK, ConsentsAccounted, ClaimThenCharge
<1>2. claim[e] \in granted /\ Scope(claim[e]) = Scope(e)
  BY <1>1 DEF ConsentsAccounted, ClaimsAreGranted
<1>3. CASE claim[e] \in Intents /\ decision[claim[e]] = "ALLOW"
  BY <1>2, <1>3 DEF ConsentsAccounted, CreatesItsOwn
<1>4. CASE claim[e] \in ApproveCalls /\ decision[Scope(claim[e])] = "REQUIRE_APPROVAL"
  BY <1>2, <1>4
<1> QED BY <1>2, <1>3, <1>4 DEF ConsentsAccounted, ConsentFollowsPolicy

\* Money moves only on a consent to this intent, of the kind the policy decided.
THEOREM ChargesFollowPolicy == Spec => []ChargeFollowsPolicy
<1>1. TypeOK /\ ConsentsAccounted => ChargeFollowsPolicy
  BY ChargeRests DEF ChargeFollowsPolicy
<1> QED BY <1>1, Accounts, PTL

\* A payment the policy allowed by itself is charged at most once.
THEOREM AutoApprovedIsChargedOnce == Spec => []AutoApprovedChargedOnce
<1>1. TypeOK /\ ConsentsAccounted => AutoApprovedChargedOnce
  <2> SUFFICES ASSUME TypeOK, ConsentsAccounted, NEW e \in charged, NEW f \in charged,
                      Scope(e) = Scope(f), decision[Scope(e)] = "ALLOW"
               PROVE  e = f
    BY DEF AutoApprovedChargedOnce
  <2>1. claim[e] = claim[f]
    BY ChargeRests
  <2>2. claim[e] # Nobody /\ e \in ExecuteCalls /\ f \in ExecuteCalls
    BY DEF TypeOK, ConsentsAccounted, ClaimThenCharge
  <2> QED BY <2>1, <2>2 DEF ConsentsAccounted, ConsentSpentOnce
<1> QED BY <1>1, Accounts, PTL

-------------------------------------------------------------------------------
(* Refusals and expiry.                                                      *)

\* What a step makes of a rejected approval.
LEMMA StepRejects ==
  ASSUME TypeOK, ConsentsAccounted, [Next]_vars, NEW i \in Intents,
         approval[i].status = "REJECTED", approval'[i] # approval[i]
  PROVE  \E a \in ApproveCalls : Scope(a) = i /\ AtStatement(a, "grant") /\ approval'[i].by = a
<1>1. ASSUME NEW c \in Intents, CreateStep(c) PROVE FALSE
  <2>1. CASE RequireApproval(c) \/ Allow(c)
    <3>1. approval[c].status = "ABSENT" /\ \A j \in Intents : j # c => approval'[j] = approval[j]
      BY <2>1 DEF RequireApproval, Allow, AtStatement, ConsentsAccounted, UndecidedIsBlank, TypeOK
    <3> QED BY <3>1
  <2>2. CASE UNCHANGED approval
    BY <2>2
  <2> QED BY <1>1, <2>1, <2>2 DEF CreateStep, CreateIntent, StartEvaluation, NoPolicy, Deny, Settle, tables
<1>2. ASSUME NEW c \in ApproveCalls, ApproveStep(c)
      PROVE  Scope(c) = i /\ AtStatement(c, "grant") /\ approval'[i].by = c
  <2>1. Grant(c)
    BY <1>2 DEF ApproveStep, CheckPending, Reload, Advance, tables
  <2> QED BY <2>1 DEF Grant, TypeOK
<1>3. ASSUME NEW c \in RejectCalls, RejectStep(c) PROVE FALSE
  <2>1. Refuse(c)
    BY <1>3 DEF RejectStep, CheckRejectable, Reload, Advance, tables
  <2>2. [approval[i] EXCEPT !.status = "REJECTED"] = approval[i]
    BY DEF TypeOK
  <2> QED BY <2>1, <2>2 DEF Refuse, TypeOK
<1>4. ASSUME NEW c \in ExecuteCalls, ExecuteStep(c) PROVE FALSE
  <2>1. CASE MarkConsumed(c)
    BY <2>1 DEF MarkConsumed, TypeOK
  <2>2. CASE UNCHANGED approval
    BY <2>2
  <2> QED BY <1>4, <2>1, <2>2 DEF ExecuteStep, Begin, LoadIntent, CheckExecutable, StartPreparing,
          ObtainCredential, CredentialFails, MarkReady, LoseClaim, StartProcessing, ReplayPayment,
          ExecutePayment, PaymentError, RecordResult, Complete, tables
<1>5. ASSUME NEW c \in RevokeCalls, RevokeStep(c) PROVE FALSE
  BY <1>5 DEF RevokeStep, LoadToRevoke, Withdraw, tables
<1>6. ASSUME \/ \E c \in Calls : Fail(c)
             \/ \E j \in Intents : Expire(j)
             \/ \E s \in Servers : Restart(s)
             \/ UNCHANGED vars
      PROVE  FALSE
  BY <1>6 DEF Fail, Expire, Restart, vars, tables
<1>7. ASSUME NEW c \in Calls, Step(c) PROVE c \in ApproveCalls /\ ApproveStep(c)
  BY <1>1, <1>3, <1>4, <1>5, <1>7 DEF Step
<1> QED BY <1>2, <1>6, <1>7 DEF Next, Quiescent

\* A user's refusal outlives every other call, but for an Approve call that had
\* read the approval while it was still pending.
THEOREM RejectionStands == Spec => RejectionSticks
<1> DEFINE Kept == \A i \in Intents :
             approval[i].status = "REJECTED" /\ approval'[i] # approval[i] =>
               \E a \in ApproveCalls : Scope(a) = i /\ AtStatement(a, "grant") /\ approval'[i].by = a
<1>1. TypeOK /\ ConsentsAccounted /\ [Next]_vars => [Kept]_vars
  BY StepRejects
<1> QED BY <1>1, Accounts, PTL DEF Spec, RejectionSticks

\* The executions an expired approval has caught before they had a credential, and
\* where they can get from there.
Late(e) == expired[Scope(e)] /\ pc[e] \in {"execute", "load", "check", "prepare", "credential"}
Barred(e) ==
  /\ expired[Scope(e)] /\ e \notin charged
  /\ pc[e] \in {"execute", "load", "check", "prepare", "credential", "complete", "done", "failed"}

LEMMA LateIsBarred ==
  ASSUME TypeOK, ConsentsAccounted, NEW e \in ExecuteCalls, Late(e) PROVE Barred(e)
BY DEF ConsentsAccounted, ClaimThenCharge, BeforeClaim, Late, Barred

LEMMA StaysBarred ==
  ASSUME TypeOK, [Next]_vars, NEW e \in ExecuteCalls, Barred(e) PROVE Barred(e)'
<1> e \in Calls /\ Scope(e) \in Intents
  BY ScopeType DEF Calls
<1>q. ASSUME NEW c \in Calls, NEW l, Goto(c, l), UNCHANGED <<request, expired>>,
             charged' = charged \/ (c # e /\ charged' = charged \cup {c}),
             c = e => l \in {"load", "check", "prepare", "credential", "complete", "done", "failed"}
      PROVE  Barred(e)'
  BY <1>q DEF Barred, Goto, TypeOK, Scope
<1>1. ASSUME NEW c \in Intents, CreateStep(c) PROVE Barred(e)'
  <2>1. c # e /\ c \in Calls
    BY Kinds DEF Calls
  <2>2. PICK l : Goto(c, l)
    BY <1>1 DEF CreateStep, CreateIntent, StartEvaluation, NoPolicy, Deny, RequireApproval, Allow, Settle
  <2>3. UNCHANGED <<request, expired, charged>>
    BY <1>1 DEF CreateStep, CreateIntent, StartEvaluation, NoPolicy, Deny, RequireApproval, Allow,
       Settle, ledger
  <2> QED BY <1>q, <2>1, <2>2, <2>3
<1>2. ASSUME NEW c \in Calls,
             \/ c \in ApproveCalls /\ ApproveStep(c)
             \/ c \in RejectCalls /\ RejectStep(c)
             \/ c \in RevokeCalls /\ RevokeStep(c)
      PROVE  Barred(e)'
  <2>1. c # e
    BY <1>2, CallsAreDistinct
  <2>2. PICK l : Goto(c, l)
    BY <1>2 DEF ApproveStep, RejectStep, RevokeStep, CheckPending, Grant, CheckRejectable,
       Refuse, Reload, Advance, LoadToRevoke, Withdraw
  <2>3. UNCHANGED <<request, expired, charged>>
    BY <1>2 DEF ApproveStep, RejectStep, RevokeStep, CheckPending, Grant, CheckRejectable,
       Refuse, Reload, Advance, LoadToRevoke, Withdraw, ledger
  <2> QED BY <1>q, <2>1, <2>2, <2>3
<1>3. ASSUME NEW c \in ExecuteCalls, ExecuteStep(c) PROVE Barred(e)'
  <2> c \in Calls
    BY DEF Calls
  <2>1. CASE ExecutePayment(c)
    <3>1. /\ Goto(c, "record") /\ pc[c] = "pay" /\ UNCHANGED <<request, expired>>
          /\ charged' \in {charged, charged \cup {c}}
      BY <2>1 DEF ExecutePayment, AtStatement
    <3>2. c # e
      BY <3>1 DEF Barred
    <3> QED BY <1>q, <3>1, <3>2
  <2>2. CASE ~ExecutePayment(c)
    <3>1. UNCHANGED <<request, expired, charged>>
      BY <1>3, <2>2 DEF ExecuteStep, Begin, LoadIntent, CheckExecutable, StartPreparing,
         ObtainCredential, CredentialFails, MarkReady, MarkConsumed, LoseClaim, StartProcessing,
         ReplayPayment, PaymentError, RecordResult, Complete, ledger
    <3>2. PICK l : /\ Goto(c, l)
                   /\ c = e => l \in {"load", "check", "prepare", "credential", "complete", "done", "failed"}
      BY <1>3, <2>2 DEF ExecuteStep, Begin, LoadIntent, CheckExecutable, StartPreparing,
         ObtainCredential, CredentialFails, MarkReady, MarkConsumed, LoseClaim, StartProcessing,
         ReplayPayment, PaymentError, RecordResult, Complete, AtStatement, Barred
    <3> QED BY <1>q, <3>1, <3>2
  <2> QED BY <2>1, <2>2
<1>4. ASSUME NEW c \in Calls, Step(c) PROVE Barred(e)'
  BY <1>1, <1>2, <1>3, <1>4 DEF Step
<1>5. ASSUME NEW c \in Calls, Fail(c) PROVE Barred(e)'
  BY <1>5, <1>q DEF Fail, ledger
<1>6. ASSUME \/ \E i \in Intents : Expire(i)
             \/ \E s \in Servers : Restart(s)
             \/ UNCHANGED vars
      PROVE  Barred(e)'
  BY <1>6 DEF Expire, Restart, vars, Barred, TypeOK, Scope, ledger
<1> QED BY <1>4, <1>5, <1>6 DEF Next, Quiescent

\* When an approval expires, the executions that have no credential yet never charge.
THEOREM ExpiredNeverCharges == Spec => ExpiredIsNotCharged
<1>1. ASSUME NEW e \in ExecuteCalls PROVE Spec => [](Late(e) => [](e \notin charged))
  <2>1. TypeOK /\ ConsentsAccounted => (Late(e) => Barred(e))
    BY LateIsBarred
  <2>2. TypeOK /\ Barred(e) /\ [Next]_vars => Barred(e)'
    BY StaysBarred
  <2>3. Barred(e) => e \notin charged
    BY DEF Barred
  <2> QED BY <2>1, <2>2, <2>3, Accounts, PTL DEF Spec
<1> QED BY <1>1 DEF ExpiredIsNotCharged, Late

-------------------------------------------------------------------------------
(* The services implement the ledger of consents.                            *)

LEMMA InitRefines == Init => Ledger!Init
<1> SUFFICES ASSUME Init PROVE Ledger!Init
  OBVIOUS
<1>1. \A c \in Consents \cup ExecuteCalls : Scope(c) \in Intents
  BY DEF Init, Scope, Calls, Consents
<1> QED BY <1>1 DEF Init, Ledger!Init

\* Creating an intent, but for the policy's own consent, and every statement about
\* rows leave the ledger alone.
LEMMA LedgerAlone ==
  ASSUME request' = request, UNCHANGED ledger PROVE UNCHANGED Ledger!vars
BY DEF Ledger!vars, Scope, ledger

\* Allow and Grant give a consent that was not given before.
LEMMA ConsentRefines ==
  ASSUME TypeOK, ConsentsAccounted, NEW c \in Consents,
         \/ c \in Intents /\ Allow(c)
         \/ c \in ApproveCalls /\ Grant(c)
  PROVE  Ledger!Grant(c)
<1>1. c \notin granted
  <2>1. CASE c \in Intents /\ Allow(c)
    BY <2>1, Kinds DEF Allow, AtStatement, ConsentsAccounted, UndecidedIsBlank, ConsentFollowsPolicy
  <2>2. CASE c \in ApproveCalls /\ Grant(c)
    BY <2>2 DEF Grant, AtStatement, ConsentsAccounted, DecidersWait
  <2> QED BY <2>1, <2>2
<1>2. granted' = granted \cup {c} /\ UNCHANGED <<request, claim, charged>>
  BY DEF Allow, Grant
<1> QED BY <1>1, <1>2 DEF Ledger!Grant, Scope

\* MarkConsumed spends the consent of the row, which no execution has spent.
LEMMA ClaimRefines ==
  ASSUME TypeOK, ConsentsAccounted, NEW e \in ExecuteCalls, MarkConsumed(e)
  PROVE  Ledger!Next
<1> DEFINE i == Scope(e)
           g == approval[i].by
<1>1. i \in Intents
  BY ScopeType DEF Calls
<1>2. /\ approval[i].status = "APPROVED" /\ pc[e] = "claim"
      /\ claim' = [claim EXCEPT ![e] = g] /\ UNCHANGED <<request, granted, charged>>
  BY DEF MarkConsumed, AtStatement
<1>3. /\ g \in granted /\ Scope(g) = i /\ g \in Consents
      /\ \A f \in ExecuteCalls : claim[f] # g
  BY <1>1, <1>2 DEF ConsentsAccounted, ApprovedIsUnclaimed, TypeOK
<1>4. claim[e] = Nobody
  BY <1>2 DEF ConsentsAccounted, ClaimThenCharge, BeforeClaim
<1>5. Ledger!Spend(e, g)
  BY <1>2, <1>3, <1>4 DEF Ledger!Spend, Scope
<1> QED BY <1>3, <1>5 DEF Ledger!Next

\* ExecutePayment pays, if it moves money at all, for a payment not paid yet.
LEMMA PayRefines ==
  ASSUME TypeOK, ConsentsAccounted, NEW e \in ExecuteCalls, ExecutePayment(e)
  PROVE  Ledger!Next \/ UNCHANGED Ledger!vars
<1>1. /\ pc[e] = "pay" /\ charged' \in {charged, charged \cup {e}}
      /\ UNCHANGED <<request, granted, claim>>
  BY DEF ExecutePayment, AtStatement
<1>2. claim[e] # Nobody /\ e \notin charged
  BY <1>1 DEF ConsentsAccounted, ClaimThenCharge
<1>3. CASE charged' = charged
  BY <1>1, <1>3, LedgerAlone DEF ledger
<1>4. CASE charged' = charged \cup {e}
  <2>1. Ledger!Pay(e)
    BY <1>1, <1>2, <1>4 DEF Ledger!Pay, Scope
  <2> QED BY <2>1 DEF Ledger!Next
<1> QED BY <1>1, <1>3, <1>4

LEMMA StepRefines ==
  TypeOK /\ ConsentsAccounted /\ [Next]_vars => [Ledger!Next]_(Ledger!vars)
<1> SUFFICES ASSUME TypeOK, ConsentsAccounted, [Next]_vars
             PROVE  Ledger!Next \/ UNCHANGED Ledger!vars
  OBVIOUS
<1>1. ASSUME NEW i \in Intents, CreateStep(i) PROVE Ledger!Next \/ UNCHANGED Ledger!vars
  <2>1. CASE Allow(i)
    BY <2>1, ConsentRefines DEF Ledger!Next, Consents
  <2>2. CASE ~Allow(i)
    BY <1>1, <2>2, LedgerAlone DEF CreateStep, CreateIntent, StartEvaluation, NoPolicy, Deny,
                                   RequireApproval, Settle
  <2> QED BY <2>1, <2>2
<1>2. ASSUME NEW c \in Calls,
             \/ c \in ApproveCalls /\ ApproveStep(c)
             \/ c \in RejectCalls /\ RejectStep(c)
             \/ c \in RevokeCalls /\ RevokeStep(c)
      PROVE  Ledger!Next \/ UNCHANGED Ledger!vars
  <2>1. CASE c \in ApproveCalls /\ Grant(c)
    BY <2>1, ConsentRefines DEF Ledger!Next, Consents
  <2>2. CASE ~(c \in ApproveCalls /\ Grant(c))
    BY <1>2, <2>2, LedgerAlone DEF ApproveStep, RejectStep, RevokeStep, CheckPending,
       CheckRejectable, Refuse, Reload, Advance, LoadToRevoke, Withdraw
  <2> QED BY <2>1, <2>2
<1>3. ASSUME NEW e \in ExecuteCalls, ExecuteStep(e) PROVE Ledger!Next \/ UNCHANGED Ledger!vars
  <2>1. CASE MarkConsumed(e)
    BY <2>1, ClaimRefines
  <2>2. CASE ExecutePayment(e)
    BY <2>2, PayRefines
  <2>3. CASE ~MarkConsumed(e) /\ ~ExecutePayment(e)
    BY <1>3, <2>3, LedgerAlone DEF ExecuteStep, Begin, LoadIntent, CheckExecutable, StartPreparing,
       ObtainCredential, CredentialFails, MarkReady, LoseClaim, StartProcessing, ReplayPayment,
       PaymentError, RecordResult, Complete
  <2> QED BY <2>1, <2>2, <2>3
<1>4. ASSUME \/ \E c \in Calls : Fail(c)
             \/ \E i \in Intents : Expire(i)
             \/ \E s \in Servers : Restart(s)
             \/ UNCHANGED vars
      PROVE  UNCHANGED Ledger!vars
  BY <1>4, LedgerAlone DEF Fail, Expire, Restart, vars
<1> QED BY <1>1, <1>2, <1>3, <1>4 DEF Next, Step, Quiescent

\* Behind rows, handlers and races the services keep the ledger: a payment spends
\* one consent to the same intent, which no other spends, before money moves.
THEOREM ServicesKeepTheLedger == Spec => ImplementsLedger
<1>1. TypeOK /\ ConsentsAccounted /\ [Next]_vars => [Ledger!Next]_(Ledger!vars)
  BY StepRefines
<1> QED BY <1>1, InitRefines, Accounts, PTL DEF Spec, ImplementsLedger, Ledger!Spec

=============================================================================
