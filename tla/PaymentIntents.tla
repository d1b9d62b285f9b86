---------------------------- MODULE PaymentIntents ----------------------------
(***************************************************************************)
(* AgenticPaymentIntents and their approvals under concurrent requests:    *)
(* PaymentIntentService (Create, Revoke, Execute), ApprovalService         *)
(* (Approve, Reject), RunIdempotent, and the demo payment provider.        *)
(*                                                                         *)
(* A call is one request served by a goroutine.  It is a straight line of  *)
(* statements against Postgres and the provider, one action each; between  *)
(* two of them every other call may run.  A handler loads a whole row into *)
(* memory, checks and edits the copy and writes the whole row back with an *)
(* unconditional UPDATE, so copy[c] may be stale when it is written.       *)
(***************************************************************************)
EXTENDS PaymentStates, Naturals

CONSTANTS
  Intents,        \* payment intents; the Create call of an intent is the intent itself
  ApproveCalls, RejectCalls, RevokeCalls, ExecuteCalls,
  Keys, NoKey,    \* Idempotency-Key values, and a request without one
  Servers,        \* processes (cmd/api, cmd/mcp): each has its own demo provider
  Nobody,         \* no call
  ShortLived,     \* bound: the intents whose approval may expire meanwhile
  MaxFaults       \* bound: failed calls and restarted servers in a behaviour

Calls == Intents \cup ApproveCalls \cup RejectCalls \cup RevokeCalls \cup ExecuteCalls

\* Who can turn an approval APPROVED: the policy, on creation, or an Approve call.
Consents == Intents \cup ApproveCalls

ASSUME CallsAreDistinct ==
  /\ Intents \cap (ApproveCalls \cup RejectCalls \cup RevokeCalls \cup ExecuteCalls) = {}
  /\ ApproveCalls \cap (RejectCalls \cup RevokeCalls \cup ExecuteCalls) = {}
  /\ RejectCalls \cap (RevokeCalls \cup ExecuteCalls) = {}
  /\ RevokeCalls \cap ExecuteCalls = {}
ASSUME NoneIsNone == Nobody \notin Calls /\ NoKey \notin Keys
ASSUME BoundsAreBounds == ShortLived \subseteq Intents /\ MaxFaults \in Nat

VARIABLES
  request,    \* what each call asks for: the intent, the key, the server it reached
  pc,         \* the statement each call is at
  copy,       \* the AgenticPaymentIntent a handler holds in memory
  intent,     \* table agentic_payment_intents: status and provider_transaction_id
  approval,   \* table approvals: status, and by whom it was last made APPROVED
  expired,    \* the clock is past the approval's expires_at
  idem,       \* table idempotency_keys, by scope (the intent) and key
  seen,       \* provider.byIdempotencyKey of each server
  charged,    \* the Execute calls whose payment moved money
  response,   \* the outcome of each Execute call
  decision,   \* the PolicyDecision Create obtained
  granted,    \* history: the consents that made an approval APPROVED
  claim,      \* history: the consent each Execute call claimed
  faults      \* bound: failures and restarts so far

tables == <<intent, approval, idem>>
ledger == <<granted, claim, charged>>
vars == <<request, pc, copy, tables, expired, seen, response, decision, ledger, faults>>

\* A charge is named by the Execute call that caused it: a call makes at most one.
Row == [status : State \cup {"ABSENT"}, txn : ExecuteCalls \cup {Nobody}]
NoRow == [status |-> "ABSENT", txn |-> Nobody]
NoReply == [status |-> "ABSENT", response |-> NoRow]

\* PaymentStatus, what ExecutePayment may report, a DECLINED payment being a FAILED
\* one: the service treats them alike.  The demo provider as wired today is never
\* sent a demo_scenario and answers with the first two only.
Outcome == {"SUCCEEDED", "FAILED", "AUTHENTICATION_REQUIRED", "PROVIDER_UNAVAILABLE"}

Scope(c) == request[c].intent

Entry(c) == IF c \in Intents      THEN "create"  ELSE
            IF c \in ApproveCalls THEN "approve" ELSE
            IF c \in RejectCalls  THEN "reject"  ELSE
            IF c \in RevokeCalls  THEN "revoke"  ELSE "execute"

\* The statements a call may be at.
Label == {"create", "evaluate", "decide", "settle",
          "approve", "grant", "reject", "refuse", "reload", "advance",
          "revoke", "withdraw",
          "execute", "load", "check", "prepare", "credential", "ready", "claim",
          "start", "pay", "record", "complete", "done", "failed"}

Init ==
  /\ request \in {r \in [Calls -> [intent : Intents, key : Keys \cup {NoKey}, server : Servers]] :
                    /\ \A i \in Intents : r[i].intent = i
                    /\ \A c \in Calls \ ExecuteCalls : r[c].key = NoKey}
  /\ pc = [c \in Calls |-> Entry(c)]
  /\ copy = [c \in Calls |-> NoRow]
  /\ intent = [i \in Intents |-> NoRow]
  /\ approval = [i \in Intents |-> [status |-> "ABSENT", by |-> Nobody]]
  /\ expired = [i \in Intents |-> FALSE]
  /\ idem = [i \in Intents |-> [k \in Keys |-> NoReply]]
  /\ seen = [s \in Servers |-> [k \in Keys |-> NoRow]]
  /\ charged = {}
  /\ response = [e \in ExecuteCalls |-> NoRow]
  /\ decision = [i \in Intents |-> "NONE"]
  /\ granted = {}
  /\ claim = [e \in ExecuteCalls |-> Nobody]
  /\ faults = 0

Answered(c) == pc[c] \in {"done", "failed"}
Goto(c, l) == pc' = [pc EXCEPT ![c] = l]
AtStatement(c, l) == pc[c] = l

\* transitionPaymentIntent: check the edge on the copy, then write the whole copy.
Persist(c, to) ==
  /\ CanTransition(copy[c].status, to)
  /\ copy' = [copy EXCEPT ![c].status = to]
  /\ intent' = [intent EXCEPT ![Scope(c)] = copy'[c]]

\* The same, for the callers that drop its error (_ = transitionPaymentIntent):
\* the copy moves on whether or not the UPDATE went through.
PersistIgnoringErrors(c, to) ==
  /\ CanTransition(copy[c].status, to)
  /\ copy' = [copy EXCEPT ![c].status = to]
  /\ intent' \in {intent, [intent EXCEPT ![Scope(c)] = copy'[c]]}

-------------------------------------------------------------------------------
(* Create: insert, evaluate, settle.                                         *)

\* The row is inserted in DRAFT, from the struct the handler keeps using.
CreateIntent(i) ==
  /\ AtStatement(i, "create")
  /\ copy' = [copy EXCEPT ![i] = [status |-> "DRAFT", txn |-> Nobody]]
  /\ intent' = [intent EXCEPT ![i] = copy'[i]]
  /\ Goto(i, "evaluate")
  /\ UNCHANGED <<request, approval, expired, idem, seen, response, decision, ledger, faults>>

StartEvaluation(i) ==
  /\ AtStatement(i, "evaluate")
  /\ Persist(i, "POLICY_EVALUATING")
  /\ Goto(i, "decide")
  /\ UNCHANGED <<request, approval, expired, idem, seen, response, decision, ledger, faults>>

\* GetActive finds no policy for the tenant: an error, with the row left as it is.
NoPolicy(i) ==
  /\ AtStatement(i, "decide")
  /\ Goto(i, "failed")
  /\ UNCHANGED <<request, copy, tables, expired, seen, response, decision, ledger, faults>>

Deny(i) ==
  /\ AtStatement(i, "decide")
  /\ decision' = [decision EXCEPT ![i] = "DENY"]
  /\ Persist(i, "DENIED")
  /\ Goto(i, "done")
  /\ UNCHANGED <<request, approval, expired, idem, seen, response, ledger, faults>>

\* createApproval: one row per intent, PENDING for the user or APPROVED by policy.
RequireApproval(i) ==
  /\ AtStatement(i, "decide")
  /\ decision' = [decision EXCEPT ![i] = "REQUIRE_APPROVAL"]
  /\ approval' = [approval EXCEPT ![i].status = "PENDING"]
  /\ Goto(i, "settle")
  /\ UNCHANGED <<request, copy, intent, expired, idem, seen, response, ledger, faults>>

Allow(i) ==
  /\ AtStatement(i, "decide")
  /\ decision' = [decision EXCEPT ![i] = "ALLOW"]
  /\ approval' = [approval EXCEPT ![i] = [status |-> "APPROVED", by |-> i]]
  /\ granted' = granted \cup {i}
  /\ Goto(i, "settle")
  /\ UNCHANGED <<request, copy, intent, expired, idem, seen, response, claim, charged, faults>>
\* Broken variant: both decisions settle in AUTHORIZED.
SettleAuthorized(i) ==
  /\ AtStatement(i, "settle")
  /\ Persist(i, "AUTHORIZED")
  /\ Goto(i, "done")
  /\ UNCHANGED <<request, approval, expired, idem, seen, response, decision, ledger, faults>>

\* The copy still says POLICY_EVALUATING whatever the row has become since.
Settle(i) ==
  /\ AtStatement(i, "settle")
  /\ Persist(i, IF decision[i] = "ALLOW" THEN "AUTHORIZED" ELSE "APPROVAL_REQUIRED")
  /\ Goto(i, "done")
  /\ UNCHANGED <<request, approval, expired, idem, seen, response, decision, ledger, faults>>

(* Approve and Reject: decide the approval, then move the intent.            *)
\* Broken variant: approving what is approved already is taken for harmless.
CheckUndecided(c) ==
  /\ AtStatement(c, "approve")
  /\ Goto(c, IF approval[Scope(c)].status \in {"PENDING", "APPROVED"} /\ ~expired[Scope(c)]
             THEN "grant" ELSE "failed")
  /\ UNCHANGED <<request, copy, tables, expired, seen, response, decision, ledger, faults>>

\* Absent, decided or expired approvals are refused (not found, conflict).
CheckPending(c) ==
  /\ AtStatement(c, "approve")
  /\ Goto(c, IF approval[Scope(c)].status = "PENDING" /\ ~expired[Scope(c)]
             THEN "grant" ELSE "failed")
  /\ UNCHANGED <<request, copy, tables, expired, seen, response, decision, ledger, faults>>

\* ApprovalRepo.Update writes the whole row, whatever its status is by now.
Grant(c) ==
  /\ AtStatement(c, "grant")
  /\ approval' = [approval EXCEPT ![Scope(c)] = [status |-> "APPROVED", by |-> c]]
  /\ granted' = granted \cup {c}
  /\ Goto(c, "reload")
  /\ UNCHANGED <<request, copy, intent, expired, idem, seen, response, decision, claim, charged, faults>>

\* Reject looks at the status alone: an expired approval can still be rejected.
CheckRejectable(c) ==
  /\ AtStatement(c, "reject")
  /\ Goto(c, IF approval[Scope(c)].status \in {"PENDING", "REAPPROVAL_REQUIRED"}
             THEN "refuse" ELSE "failed")
  /\ UNCHANGED <<request, copy, tables, expired, seen, response, decision, ledger, faults>>

Refuse(c) ==
  /\ AtStatement(c, "refuse")
  /\ approval' = [approval EXCEPT ![Scope(c)].status = "REJECTED"]
  /\ Goto(c, "reload")
  /\ UNCHANGED <<request, copy, intent, expired, idem, seen, response, decision, ledger, faults>>

DecidedState(c) == IF c \in ApproveCalls THEN "AUTHORIZED" ELSE "CANCELLED"

\* Both then load the intent; if the table forbids the edge the caller gets an
\* error although the approval has been written.
Reload(c) ==
  /\ AtStatement(c, "reload")
  /\ copy' = [copy EXCEPT ![c] = intent[Scope(c)]]
  /\ Goto(c, IF CanTransition(copy'[c].status, DecidedState(c)) THEN "advance" ELSE "failed")
  /\ UNCHANGED <<request, tables, expired, seen, response, decision, ledger, faults>>

Advance(c) ==
  /\ AtStatement(c, "advance")
  /\ Persist(c, DecidedState(c))
  /\ Goto(c, "done")
  /\ UNCHANGED <<request, approval, expired, idem, seen, response, decision, ledger, faults>>

-------------------------------------------------------------------------------
(* Revoke: load, then write REVOKED or CANCELLED.                            *)

LoadToRevoke(c) ==
  /\ AtStatement(c, "revoke")
  /\ copy' = [copy EXCEPT ![c] = intent[Scope(c)]]
  /\ Goto(c, IF CanTransition(copy'[c].status, RevokeTarget(copy'[c].status))
             THEN "withdraw" ELSE "failed")
  /\ UNCHANGED <<request, tables, expired, seen, response, decision, ledger, faults>>

Withdraw(c) ==
  /\ AtStatement(c, "withdraw")
  /\ Persist(c, RevokeTarget(copy[c].status))
  /\ Goto(c, "done")
  /\ UNCHANGED <<request, approval, expired, idem, seen, response, decision, ledger, faults>>

-------------------------------------------------------------------------------
(* Execute, inside RunIdempotent.                                            *)

\* RunIdempotent: no key, no reservation.  Begin: a fresh key is inserted, a
\* COMPLETED one is replayed, an IN_PROGRESS one lets this call proceed too.
Begin(c) ==
  /\ AtStatement(c, "execute")
  /\ LET k == request[c].key
         done == k \in Keys /\ idem[Scope(c)][k].status = "COMPLETED"
     IN /\ Goto(c, IF done THEN "done" ELSE "load")
        /\ response' = IF done THEN [response EXCEPT ![c] = idem[Scope(c)][k].response] ELSE response
        /\ idem' = IF k \in Keys /\ ~done
                   THEN [idem EXCEPT ![Scope(c)][k].status = "IN_PROGRESS"] ELSE idem
  /\ UNCHANGED <<request, copy, intent, approval, expired, seen, decision, ledger, faults>>

LoadIntent(c) ==
  /\ AtStatement(c, "load")
  /\ copy' = [copy EXCEPT ![c] = intent[Scope(c)]]
  /\ Goto(c, IF copy'[c].status = "AUTHORIZED" THEN "check" ELSE "failed")
  /\ UNCHANGED <<request, tables, expired, seen, response, decision, ledger, faults>>

\* Approval.Executable.
CheckExecutable(c) ==
  /\ AtStatement(c, "check")
  /\ Goto(c, IF approval[Scope(c)].status = "APPROVED" /\ ~expired[Scope(c)]
             THEN "prepare" ELSE "failed")
  /\ UNCHANGED <<request, copy, tables, expired, seen, response, decision, ledger, faults>>

StartPreparing(c) ==
  /\ AtStatement(c, "prepare")
  /\ Persist(c, "CREDENTIAL_PREPARING")
  /\ Goto(c, "credential")
  /\ UNCHANGED <<request, approval, expired, idem, seen, response, decision, ledger, faults>>
\* Broken variant: the authorization does not carry the approval's expiry.
ObtainCredentialAnyTime(c) ==
  /\ AtStatement(c, "credential")
  /\ Goto(c, "ready")
  /\ UNCHANGED <<request, copy, tables, expired, seen, response, decision, ledger, faults>>

\* prepareCredential: the authorization carries the approval's expiry, and a
\* credential is only minted before it.
ObtainCredential(c) ==
  /\ AtStatement(c, "credential")
  /\ ~expired[Scope(c)]
  /\ Goto(c, "ready")
  /\ UNCHANGED <<request, copy, tables, expired, seen, response, decision, ledger, faults>>

\* Any step of it may fail: the outcome is PROVIDER_UNAVAILABLE, not an error.
CredentialFails(c) ==
  /\ AtStatement(c, "credential")
  /\ PersistIgnoringErrors(c, "PROVIDER_UNAVAILABLE")
  /\ response' = [response EXCEPT ![c] = [status |-> "PROVIDER_UNAVAILABLE", txn |-> Nobody]]
  /\ Goto(c, "complete")
  /\ UNCHANGED <<request, approval, expired, idem, seen, decision, ledger, faults>>
\* Broken variant: the payment starts without claiming the approval.
MarkReadyAndStart(c) ==
  /\ AtStatement(c, "ready")
  /\ Persist(c, "READY_TO_EXECUTE")
  /\ Goto(c, "start")
  /\ UNCHANGED <<request, approval, expired, idem, seen, response, decision, ledger, faults>>

MarkReady(c) ==
  /\ AtStatement(c, "ready")
  /\ Persist(c, "READY_TO_EXECUTE")
  /\ Goto(c, "claim")
  /\ UNCHANGED <<request, approval, expired, idem, seen, response, decision, ledger, faults>>
\* Broken variant: UPDATE ... WHERE id = $1, without the status.
MarkConsumedUnchecked(c) ==
  /\ AtStatement(c, "claim")
  /\ approval' = [approval EXCEPT ![Scope(c)].status = "CONSUMED"]
  /\ claim' = [claim EXCEPT ![c] = approval[Scope(c)].by]
  /\ Goto(c, "start")
  /\ UNCHANGED <<request, copy, intent, expired, idem, seen, response, decision, granted, charged, faults>>

\* MarkConsumed: UPDATE ... SET status = 'CONSUMED' WHERE status = 'APPROVED'.
MarkConsumed(c) ==
  /\ AtStatement(c, "claim")
  /\ approval[Scope(c)].status = "APPROVED"
  /\ approval' = [approval EXCEPT ![Scope(c)].status = "CONSUMED"]
  /\ claim' = [claim EXCEPT ![c] = approval[Scope(c)].by]
  /\ Goto(c, "start")
  /\ UNCHANGED <<request, copy, intent, expired, idem, seen, response, decision, granted, charged, faults>>
\* Broken variant: claimed is not looked at.
LoseClaimUnnoticed(c) ==
  /\ AtStatement(c, "claim")
  /\ approval[Scope(c)].status # "APPROVED"
  /\ Goto(c, "start")
  /\ UNCHANGED <<request, copy, tables, expired, seen, response, decision, ledger, faults>>

\* No row updated: another call holds the claim, and this one stops where it is.
LoseClaim(c) ==
  /\ AtStatement(c, "claim")
  /\ approval[Scope(c)].status # "APPROVED"
  /\ Goto(c, "failed")
  /\ UNCHANGED <<request, copy, tables, expired, seen, response, decision, ledger, faults>>

StartProcessing(c) ==
  /\ AtStatement(c, "start")
  /\ Persist(c, "PROCESSING")
  /\ Goto(c, "pay")
  /\ UNCHANGED <<request, approval, expired, idem, seen, response, decision, ledger, faults>>

\* The provider's answer to a key it has seen, and to a new request.
Replay(c) == seen[request[c].server][request[c].key]
NeverReplay(c) == FALSE      \* broken variant: the key of a request is ignored
IsReplay(c) == request[c].key \in Keys /\ Replay(c) # NoRow
FreshResult(c, o) == [status |-> o, txn |-> IF o = "SUCCEEDED" THEN c ELSE Nobody]

\* ExecutePayment answers: the same key gets the same result and moves no money.
ReplayPayment(c) ==
  /\ AtStatement(c, "pay")
  /\ IsReplay(c)
  /\ response' = [response EXCEPT ![c] = Replay(c)]
  /\ Goto(c, "record")
  /\ UNCHANGED <<request, copy, tables, expired, seen, decision, ledger, faults>>

ExecutePayment(c) ==
  /\ AtStatement(c, "pay")
  /\ ~IsReplay(c)
  /\ \E o \in Outcome :
       /\ charged' = IF o = "SUCCEEDED" THEN charged \cup {c} ELSE charged
       /\ response' = [response EXCEPT ![c] = FreshResult(c, o)]
       /\ seen' = IF request[c].key \in Keys
                  THEN [seen EXCEPT ![request[c].server][request[c].key] = FreshResult(c, o)]
                  ELSE seen
  /\ Goto(c, "record")
  /\ UNCHANGED <<request, copy, tables, expired, decision, granted, claim, faults>>

\* ExecutePayment returns an error instead of a result, and has moved no money.
PaymentError(c) ==
  /\ AtStatement(c, "pay")
  /\ ~IsReplay(c)
  /\ PersistIgnoringErrors(c, "FAILED")
  /\ response' = [response EXCEPT ![c] = [status |-> "FAILED", txn |-> Nobody]]
  /\ Goto(c, "complete")
  /\ UNCHANGED <<request, approval, expired, idem, seen, decision, ledger, faults>>
\* Broken variant: the status is written without the transaction id.
RecordStatusOnly(c) ==
  /\ AtStatement(c, "record")
  /\ Persist(c, response[c].status)
  /\ Goto(c, "complete")
  /\ UNCHANGED <<request, approval, expired, idem, seen, response, decision, ledger, faults>>

\* handleExecutionResult: the transaction id is kept for a success only.
RecordResult(c) ==
  /\ AtStatement(c, "record")
  /\ CanTransition(copy[c].status, response[c].status)
  /\ copy' = [copy EXCEPT ![c] =
                [status |-> response[c].status,
                 txn |-> IF response[c].status = "SUCCEEDED" THEN response[c].txn ELSE copy[c].txn]]
  /\ intent' = [intent EXCEPT ![Scope(c)] = copy'[c]]
  /\ Goto(c, "complete")
  /\ UNCHANGED <<request, approval, expired, idem, seen, response, decision, ledger, faults>>

\* IdempotencyRepo.Complete stores the response, over one stored before it.
Complete(c) ==
  /\ AtStatement(c, "complete")
  /\ idem' = IF request[c].key \in Keys
             THEN [idem EXCEPT ![Scope(c)][request[c].key] =
                     [status |-> "COMPLETED", response |-> response[c]]]
             ELSE idem
  /\ Goto(c, "done")
  /\ UNCHANGED <<request, copy, intent, approval, expired, seen, response, decision, ledger, faults>>

-------------------------------------------------------------------------------
(* Time, failures, and the whole system.                                     *)

Expire(i) ==
  /\ i \in ShortLived
  /\ approval[i].status # "ABSENT"
  /\ ~expired[i]
  /\ expired' = [expired EXCEPT ![i] = TRUE]
  /\ UNCHANGED <<request, pc, copy, tables, seen, response, decision, ledger, faults>>

\* A statement returns an error, a client hangs up (its context is cancelled) or
\* a goroutine dies: the handler returns, and what it wrote stays written.
Fail(c) ==
  /\ ~Answered(c)
  /\ faults < MaxFaults
  /\ faults' = faults + 1
  /\ Goto(c, "failed")
  /\ UNCHANGED <<request, copy, tables, expired, seen, response, decision, ledger>>

InFlight(c) == ~Answered(c) /\ pc[c] # Entry(c)

\* A process restarts: its calls are lost, and so is the demo provider's memory.
Restart(s) ==
  /\ faults < MaxFaults
  /\ faults' = faults + 1
  /\ pc' = [c \in Calls |-> IF InFlight(c) /\ request[c].server = s THEN "failed" ELSE pc[c]]
  /\ seen' = [seen EXCEPT ![s] = [k \in Keys |-> NoRow]]
  /\ UNCHANGED <<request, copy, tables, expired, response, decision, ledger>>

CreateStep(i) ==
  \/ CreateIntent(i) \/ StartEvaluation(i) \/ NoPolicy(i) \/ Deny(i)
  \/ RequireApproval(i) \/ Allow(i) \/ Settle(i)
ApproveStep(c) == CheckPending(c) \/ Grant(c) \/ Reload(c) \/ Advance(c)
RejectStep(c) == CheckRejectable(c) \/ Refuse(c) \/ Reload(c) \/ Advance(c)
RevokeStep(c) == LoadToRevoke(c) \/ Withdraw(c)
ExecuteStep(c) ==
  \/ Begin(c) \/ LoadIntent(c) \/ CheckExecutable(c) \/ StartPreparing(c)
  \/ ObtainCredential(c) \/ CredentialFails(c) \/ MarkReady(c) \/ MarkConsumed(c) \/ LoseClaim(c)
  \/ StartProcessing(c) \/ ReplayPayment(c) \/ ExecutePayment(c) \/ PaymentError(c)
  \/ RecordResult(c) \/ Complete(c)

Step(c) ==
  \/ c \in Intents /\ CreateStep(c)
  \/ c \in ApproveCalls /\ ApproveStep(c)
  \/ c \in RejectCalls /\ RejectStep(c)
  \/ c \in RevokeCalls /\ RevokeStep(c)
  \/ c \in ExecuteCalls /\ ExecuteStep(c)

\* Every call has been answered: nothing is left to do.
Quiescent == (\A c \in Calls : Answered(c)) /\ UNCHANGED vars

Next ==
  \/ \E c \in Calls : Step(c) \/ Fail(c)
  \/ \E i \in Intents : Expire(i)
  \/ \E s \in Servers : Restart(s)
  \/ Quiescent

\* A handler that has started runs on: a goroutine is never stopped for good.
\* Nothing obliges a client to send a request, nor a call to fail.
Fairness == \A c \in Calls : WF_vars(pc[c] # Entry(c) /\ Step(c))

Spec == Init /\ [][Next]_vars
FairSpec == Spec /\ Fairness

-------------------------------------------------------------------------------
(* Properties.                                                               *)

\* The type of every variable.
TypeOK ==
  /\ request \in [Calls -> [intent : Intents, key : Keys \cup {NoKey}, server : Servers]]
  /\ pc \in [Calls -> Label]
  /\ copy \in [Calls -> Row]
  /\ intent \in [Intents -> Row]
  /\ approval \in [Intents -> [status : ApprovalStatus, by : Consents \cup {Nobody}]]
  /\ expired \in [Intents -> BOOLEAN]
  /\ idem \in [Intents -> [Keys -> [status : {"ABSENT", "IN_PROGRESS", "COMPLETED"}, response : Row]]]
  /\ seen \in [Servers -> [Keys -> Row]]
  /\ charged \subseteq ExecuteCalls
  /\ response \in [ExecuteCalls -> Row]
  /\ decision \in [Intents -> {"NONE", "DENY", "REQUIRE_APPROVAL", "ALLOW"}]
  /\ granted \subseteq Consents
  /\ claim \in [ExecuteCalls -> Consents \cup {Nobody}]
  /\ faults \in 0..MaxFaults

\* MarkConsumed, under any interleaving with the blind updates of Approve and
\* Reject: no two executions ever claim the same act of consent, whether the
\* policy's or a user's.
ConsentSpentOnce ==
  \A e, f \in ExecuteCalls : claim[e] = claim[f] /\ claim[e] # Nobody => e = f

\* Money moves only for a call that holds a claim on a consent to this very
\* intent, of the kind the policy decided: the policy's own if it allowed the
\* payment, an Approve call's if it asked for approval, none if it denied it.
ChargeFollowsPolicy ==
  \A e \in charged :
    LET i == Scope(e)
        g == claim[e]
    IN \/ decision[i] = "ALLOW" /\ g = i
       \/ decision[i] = "REQUIRE_APPROVAL" /\ g \in ApproveCalls /\ Scope(g) = i

\* A payment the policy allowed without a user is charged at most once, however
\* many Execute, Approve and Revoke calls race: nothing can renew its approval.
AutoApprovedChargedOnce ==
  \A e, f \in charged :
    Scope(e) = Scope(f) /\ decision[Scope(e)] = "ALLOW" => e = f

\* The status a row shows is backed by the approval history even when the row
\* was written from a stale copy: ready to be executed only if someone
\* consented, in or after processing only if an execution has the claim.
StatusBacked ==
  \A i \in Intents :
    /\ intent[i].status \in {"AUTHORIZED", "CREDENTIAL_PREPARING", "READY_TO_EXECUTE"} =>
         \E g \in granted : Scope(g) = i
    /\ intent[i].status \in {"PROCESSING", "SUCCEEDED", "FAILED", "AUTHENTICATION_REQUIRED"} =>
         \E e \in ExecuteCalls : Scope(e) = i /\ claim[e] # Nobody

\* Clients use an idempotency key for one intent only.
KeysPerIntent ==
  \A e, f \in ExecuteCalls :
    request[e].key = request[f].key /\ request[e].key \in Keys => Scope(e) = Scope(f)

IsCharge(t, i) == t \in charged /\ (KeysPerIntent => Scope(t) = i)

\* A success is never reported without a charge behind it: neither by a row
\* nor by an answer, first-hand, replayed by RunIdempotent or by the provider;
\* and, when keys are not shared, the charge is one for this intent.
SuccessIsReal ==
  /\ \A i \in Intents : intent[i].status = "SUCCEEDED" => IsCharge(intent[i].txn, i)
  /\ \A e \in ExecuteCalls :
       pc[e] = "done" /\ response[e].status = "SUCCEEDED" => IsCharge(response[e].txn, Scope(e))

\* A retried payment, the same intent and key, moves money once per provider
\* process that keeps running: RunIdempotent lets every caller through while the
\* first is still at work, and a late approval may renew the consent.
OneChargePerKey ==
  \A e, f \in charged :
    request[e] = request[f] /\ request[e].key \in Keys => e = f

\* The services implement the ledger of consents.
Ledger == INSTANCE ConsentLedger WITH
  Payments <- ExecuteCalls, Subjects <- Intents,
  owner <- [c \in Consents \cup ExecuteCalls |-> Scope(c)],
  spent <- claim, paid <- charged
ImplementsLedger == Ledger!Spec

\* A user's refusal outlives every other call, but for an Approve call that had
\* read the approval while it was still pending: nothing else revives it.
RejectionSticks ==
  [][\A i \in Intents :
       approval[i].status = "REJECTED" /\ approval'[i] # approval[i] =>
         \E a \in ApproveCalls : Scope(a) = i /\ AtStatement(a, "grant") /\ approval'[i].by = a]_vars

\* When an approval expires, the executions that have no credential yet never
\* charge: neither the check of Executable nor the provider lets them pass.
ExpiredIsNotCharged ==
  \A e \in ExecuteCalls :
    []((expired[Scope(e)] /\ pc[e] \in {"execute", "load", "check", "prepare", "credential"})
         => [](e \notin charged))

\* Once money has moved, the handler either writes the transaction into the
\* intent's row or its caller is told it failed.
ChargeIsReported ==
  \A e \in ExecuteCalls :
    AtStatement(e, "record") /\ e \in charged ~> intent[Scope(e)].txn = e \/ pc[e] = "failed"

(* The bookkeeping of consents: an inductive invariant behind the above.      *)

\* A Create call is for its own intent.
CreatesItsOwn == \A i \in Intents : Scope(i) = i

\* Until the policy has decided there is no approval and no decision.
UndecidedIsBlank ==
  \A i \in Intents : pc[i] \in {"create", "evaluate", "decide"} =>
    decision[i] = "NONE" /\ approval[i].status = "ABSENT"

\* Only the policy's request for approval leaves an approval to be decided.
PendingWasRequested ==
  \A i \in Intents : approval[i].status \in {"PENDING", "REAPPROVAL_REQUIRED"} =>
    decision[i] = "REQUIRE_APPROVAL"

\* An Approve call that has not written has not consented; a user's decision is
\* about to be written only where the policy asked for it.
DecidersWait ==
  /\ \A c \in ApproveCalls : pc[c] \in {"approve", "grant"} => c \notin granted
  /\ \A c \in ApproveCalls \cup RejectCalls :
       pc[c] \in {"grant", "refuse"} => decision[Scope(c)] = "REQUIRE_APPROVAL"

\* A consent is of the kind the policy decided.
ConsentFollowsPolicy ==
  \A g \in granted :
    \/ g \in Intents /\ decision[g] = "ALLOW"
    \/ g \in ApproveCalls /\ decision[Scope(g)] = "REQUIRE_APPROVAL"

\* An APPROVED row stands for a consent to its intent nobody has claimed.
ApprovedIsUnclaimed ==
  \A i \in Intents : approval[i].status = "APPROVED" =>
    /\ approval[i].by \in granted
    /\ Scope(approval[i].by) = i
    /\ \A e \in ExecuteCalls : claim[e] # approval[i].by

\* An execution claims a consent that was given, to the intent it executes.
ClaimsAreGranted ==
  \A e \in ExecuteCalls : claim[e] # Nobody =>
    claim[e] \in granted /\ Scope(claim[e]) = Scope(e)

BeforeClaim == {"execute", "load", "check", "prepare", "credential", "ready", "claim"}

\* An execution claims once and charges at most once, after the claim.
ClaimThenCharge ==
  \A e \in ExecuteCalls :
    /\ pc[e] \in BeforeClaim => claim[e] = Nobody
    /\ pc[e] \in {"start", "pay"} => claim[e] # Nobody /\ e \notin charged
    /\ e \in charged => claim[e] # Nobody

ConsentsAccounted ==
  /\ CreatesItsOwn /\ UndecidedIsBlank /\ PendingWasRequested /\ DecidersWait
  /\ ConsentFollowsPolicy /\ ApprovedIsUnclaimed /\ ClaimsAreGranted
  /\ ConsentSpentOnce /\ ClaimThenCharge

(* What the repository says of the program and the code does not keep.       *)

\* paymentintent/state_machine.go: "Terminal states: no outbound edges."
TerminalIsFinal ==
  [][\A i \in Intents : intent[i].status \in Terminal => intent'[i] = intent[i]]_vars

\* approval_repo.go: MarkConsumed "only ever succeeds for one caller even under
\* concurrent execution attempts".
ClaimedByOneCaller ==
  \A e, f \in ExecuteCalls :
    claim[e] # Nobody /\ claim[f] # Nobody /\ Scope(e) = Scope(f) => e = f

\* idempotency.go: a second call with the same key and scope "replays the first
\* call's result".
FirstResultIsKept ==
  [][\A i \in Intents, k \in Keys :
       idem[i][k].status = "COMPLETED" => idem'[i][k] = idem[i][k]]_vars

=============================================================================
