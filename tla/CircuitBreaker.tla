---------------------------- MODULE CircuitBreaker ----------------------------
(***************************************************************************)
(* One circuit breaker of internal/platform/resilience, as callConnector   *)
(* of the discovery service uses it: concurrent requests ask Allow, call   *)
(* the merchant connector without the lock, and report how the call ended. *)
(* A report may reach the breaker long after the state it was let through  *)
(* in has gone.                                                            *)
(***************************************************************************)
EXTENDS Naturals

CONSTANTS
  Callers,            \* requests that call this connector, over and over
  FailureThreshold,
  ResetTimeout        \* in ticks of the clock

ASSUME ThresholdAssumption == FailureThreshold \in Nat \ {0}
ASSUME TimeoutAssumption == ResetTimeout \in Nat \ {0}

VARIABLES
  state,              \* CircuitBreaker.state
  consecutiveFails,   \* up to FailureThreshold: it is compared with nothing else
  openAge,            \* time.Since(openedAt), up to ResetTimeout
  connector,          \* how the merchant is doing
  pc,                 \* where each request is
  stampAge,           \* the age of the s.now() a failed call took
  trial               \* history: the running calls let through in HALF_OPEN

breaker == <<state, consecutiveFails, openAge>>
vars == <<breaker, connector, pc, stampAge, trial>>

AtMost(n, bound) == IF n > bound THEN bound ELSE n

Init ==
  /\ state = "CLOSED"
  /\ consecutiveFails = 0
  /\ openAge = ResetTimeout     \* the zero time is long ago
  /\ connector \in {"UP", "FLAKY", "DOWN"}
  /\ pc = [c \in Callers |-> "idle"]
  /\ stampAge = [c \in Callers |-> 0]
  /\ trial = {}

AllowClosed(c) ==
  /\ pc[c] = "idle"
  /\ state = "CLOSED"
  /\ pc' = [pc EXCEPT ![c] = "calling"]
  /\ UNCHANGED <<breaker, connector, stampAge, trial>>

\* HALF_OPEN has no case of its own in Allow: it lets every caller through.
AllowHalfOpen(c) ==
  /\ pc[c] = "idle"
  /\ state = "HALF_OPEN"
  /\ pc' = [pc EXCEPT ![c] = "calling"]
  /\ trial' = trial \cup {c}
  /\ UNCHANGED <<breaker, connector, stampAge>>

\* Broken variant: the breaker is closed for the trial instead of half open.
CloseForTrial(c) ==
  /\ pc[c] = "idle"
  /\ state = "OPEN" /\ openAge = ResetTimeout
  /\ state' = "CLOSED"
  /\ pc' = [pc EXCEPT ![c] = "calling"]
  /\ trial' = trial \cup {c}
  /\ UNCHANGED <<consecutiveFails, openAge, connector, stampAge>>

AllowTrial(c) ==
  /\ pc[c] = "idle"
  /\ state = "OPEN" /\ openAge = ResetTimeout
  /\ state' = "HALF_OPEN"
  /\ pc' = [pc EXCEPT ![c] = "calling"]
  /\ trial' = trial \cup {c}
  /\ UNCHANGED <<consecutiveFails, openAge, connector, stampAge>>

Reject(c) ==
  /\ pc[c] = "idle"
  /\ state = "OPEN" /\ openAge < ResetTimeout
  /\ pc' = [pc EXCEPT ![c] = "rejected"]
  /\ UNCHANGED <<breaker, connector, stampAge, trial>>

Return(c) ==
  /\ pc[c] = "rejected"
  /\ pc' = [pc EXCEPT ![c] = "idle"]
  /\ UNCHANGED <<breaker, connector, stampAge, trial>>

\* fn(callCtx) returns: within the connector's timeout, an answer or an error.
CallSucceeds(c) ==
  /\ pc[c] = "calling"
  /\ connector # "DOWN"
  /\ pc' = [pc EXCEPT ![c] = "succeeded"]
  /\ UNCHANGED <<breaker, connector, stampAge, trial>>

\* s.now() is read before RecordFailure waits for the lock.
CallFails(c) ==
  /\ pc[c] = "calling"
  /\ connector # "UP"
  /\ pc' = [pc EXCEPT ![c] = "failed"]
  /\ stampAge' = [stampAge EXCEPT ![c] = 0]
  /\ UNCHANGED <<breaker, connector, trial>>

\* Broken variant: the breaker closes and keeps its count of failures.
CloseOnly(c) ==
  /\ pc[c] = "succeeded"
  /\ state' = "CLOSED"
  /\ pc' = [pc EXCEPT ![c] = "idle"]
  /\ trial' = trial \ {c}
  /\ UNCHANGED <<consecutiveFails, openAge, connector, stampAge>>

\* Broken variant: the count is reset and the state left as it is.
ResetCountOnly(c) ==
  /\ pc[c] = "succeeded"
  /\ consecutiveFails' = 0
  /\ pc' = [pc EXCEPT ![c] = "idle"]
  /\ trial' = trial \ {c}
  /\ UNCHANGED <<state, openAge, connector, stampAge>>

\* Whatever the state: a late success closes an open breaker at once.
RecordSuccess(c) ==
  /\ pc[c] = "succeeded"
  /\ consecutiveFails' = 0
  /\ state' = "CLOSED"
  /\ pc' = [pc EXCEPT ![c] = "idle"]
  /\ trial' = trial \ {c}
  /\ UNCHANGED <<openAge, connector, stampAge>>

\* A late failure of an open breaker opens it anew, from the time of its own stamp.
RecordFailure(c) ==
  /\ pc[c] = "failed"
  /\ consecutiveFails' = AtMost(consecutiveFails + 1, FailureThreshold)
  /\ IF state = "HALF_OPEN" \/ consecutiveFails' >= FailureThreshold
     THEN state' = "OPEN" /\ openAge' = stampAge[c]
     ELSE UNCHANGED <<state, openAge>>
  /\ pc' = [pc EXCEPT ![c] = "idle"]
  /\ trial' = trial \ {c}
  /\ UNCHANGED <<connector, stampAge>>

Tick ==
  /\ openAge' = AtMost(openAge + 1, ResetTimeout)
  /\ stampAge' = [c \in Callers |->
       IF pc[c] = "failed" THEN AtMost(stampAge[c] + 1, ResetTimeout) ELSE stampAge[c]]
  /\ UNCHANGED <<state, consecutiveFails, connector, pc, trial>>

\* The merchant is up, down, or answers some calls and times out on others; a client
\* that hangs up, which counts as a failure too, is part of FLAKY.
Weather ==
  /\ connector' \in {"UP", "FLAKY", "DOWN"}
  /\ UNCHANGED <<breaker, pc, stampAge, trial>>

Finish(c) ==
  \/ Return(c) \/ CallSucceeds(c) \/ CallFails(c) \/ RecordSuccess(c) \/ RecordFailure(c)
Next ==
  \/ \E c \in Callers : AllowClosed(c) \/ AllowHalfOpen(c) \/ AllowTrial(c) \/ Reject(c) \/ Finish(c)
  \/ Tick
  \/ Weather

\* A call ends (it has a timeout) and reports; time passes.  No request has to come.
Fairness == WF_vars(Tick) /\ \A c \in Callers : WF_vars(Finish(c))

Spec == Init /\ [][Next]_vars
FairSpec == Spec /\ Fairness

-------------------------------------------------------------------------------
(* Properties.                                                               *)

\* The type of every variable.
TypeOK ==
  /\ state \in {"CLOSED", "OPEN", "HALF_OPEN"}
  /\ consecutiveFails \in 0..FailureThreshold
  /\ openAge \in 0..ResetTimeout
  /\ connector \in {"UP", "FLAKY", "DOWN"}
  /\ pc \in [Callers -> {"idle", "rejected", "calling", "succeeded", "failed"}]
  /\ stampAge \in [Callers -> 0..ResetTimeout]
  /\ trial \subseteq Callers

\* Under any order of Allow and late reports the breaker is closed exactly while
\* fewer than FailureThreshold failures have been reported since the last success:
\* neither a trial nor a straggler leaves count and state at odds, and a failed
\* trial re-opens the breaker even without RecordFailure's test for HALF_OPEN.
ClosedBelowThreshold == state = "CLOSED" <=> consecutiveFails < FailureThreshold

Attempts == []<>(\E c \in Callers : pc[c] # "idle")

\* When the merchant is up for good and requests keep coming, discovery gets it
\* back for good, whatever failures are still under way.
Recovers == <>[](connector = "UP") /\ Attempts => <>[](state = "CLOSED")

\* When the merchant is down for good and requests keep coming, the breaker ends
\* up out of CLOSED for good: trials never put it back.
Isolates == <>[](connector = "DOWN") /\ Attempts => <>[](state # "CLOSED")

(* What the repository says of the program and the code does not keep.       *)

\* circuit_breaker.go: the breaker "allows exactly one trial call (HalfOpen)".
OneTrialCall == \A c, d \in trial : c = d

=============================================================================
