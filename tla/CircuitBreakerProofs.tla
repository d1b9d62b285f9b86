------------------------- MODULE CircuitBreakerProofs -------------------------
(* Theorems about CircuitBreaker, for every number of callers, threshold and  *)
(* timeout.                                                                   *)
EXTENDS CircuitBreaker, TLAPS

\* The first state is well typed.
LEMMA InitTypes == Init => TypeOK
BY ThresholdAssumption, TimeoutAssumption DEF Init, TypeOK

\* What a request does keeps the types.
LEMMA CallTypes ==
  ASSUME TypeOK, NEW c \in Callers,
         AllowClosed(c) \/ AllowHalfOpen(c) \/ AllowTrial(c) \/ Reject(c) \/ Finish(c)
  PROVE  TypeOK'
<1> USE ThresholdAssumption, TimeoutAssumption
<1>1. CASE AllowClosed(c) \/ AllowHalfOpen(c) \/ AllowTrial(c) \/ Reject(c)
  BY <1>1 DEF TypeOK, AllowClosed, AllowHalfOpen, AllowTrial, Reject, breaker
<1>2. CASE Return(c) \/ CallSucceeds(c) \/ CallFails(c)
  BY <1>2 DEF TypeOK, Return, CallSucceeds, CallFails, breaker
<1>3. CASE RecordSuccess(c)
  BY <1>3 DEF TypeOK, RecordSuccess
<1>4. CASE RecordFailure(c)
  <2>1. consecutiveFails' \in 0..FailureThreshold
    BY <1>4 DEF TypeOK, RecordFailure, AtMost
  <2>2. state' \in {"CLOSED", "OPEN", "HALF_OPEN"} /\ openAge' \in 0..ResetTimeout
    BY <1>4 DEF TypeOK, RecordFailure
  <2> QED BY <1>4, <2>1, <2>2 DEF TypeOK, RecordFailure
<1> QED BY <1>1, <1>2, <1>3, <1>4 DEF Finish

\* So does every step.
LEMMA StepTypes == TypeOK /\ [Next]_vars => TypeOK'
<1> SUFFICES ASSUME TypeOK, [Next]_vars PROVE TypeOK'
  OBVIOUS
<1>1. CASE Tick
  <2>1. /\ AtMost(openAge + 1, ResetTimeout) \in 0..ResetTimeout
        /\ \A c \in Callers : AtMost(stampAge[c] + 1, ResetTimeout) \in 0..ResetTimeout
    BY TimeoutAssumption DEF TypeOK, AtMost
  <2> QED BY <1>1, <2>1 DEF TypeOK, Tick
<1>2. CASE Weather \/ UNCHANGED vars
  BY <1>2 DEF TypeOK, Weather, vars, breaker
<1> QED BY <1>1, <1>2, CallTypes DEF Next

\* The type invariant.
THEOREM BreakerTypes == Spec => []TypeOK
BY InitTypes, StepTypes, PTL DEF Spec

\* The count and the state move together: only the two reports touch the count,
\* and a trial leaves OPEN for HALF_OPEN with the count where it was.
LEMMA StepCounts ==
  TypeOK /\ ClosedBelowThreshold /\ [Next]_vars => ClosedBelowThreshold'
<1> SUFFICES ASSUME TypeOK, ClosedBelowThreshold, [Next]_vars
             PROVE  ClosedBelowThreshold'
  OBVIOUS
<1> USE ThresholdAssumption
<1>1. ASSUME NEW c \in Callers, RecordFailure(c) PROVE ClosedBelowThreshold'
  <2>1. /\ consecutiveFails' \in 0..FailureThreshold
        /\ consecutiveFails' = FailureThreshold <=> consecutiveFails + 1 >= FailureThreshold
    BY <1>1 DEF TypeOK, RecordFailure, AtMost
  <2>2. CASE consecutiveFails' = FailureThreshold
    BY <1>1, <2>2 DEF RecordFailure, ClosedBelowThreshold
  <2>3. CASE consecutiveFails' # FailureThreshold
    <3>1. state = "CLOSED" /\ consecutiveFails' < FailureThreshold
      BY <2>1, <2>3 DEF TypeOK, ClosedBelowThreshold
    <3> QED BY <1>1, <2>1, <3>1 DEF RecordFailure, ClosedBelowThreshold
  <2> QED BY <2>2, <2>3
<1>2. ASSUME NEW c \in Callers, RecordSuccess(c) PROVE ClosedBelowThreshold'
  BY <1>2 DEF RecordSuccess, ClosedBelowThreshold
<1>3. ASSUME NEW c \in Callers, AllowTrial(c) PROVE ClosedBelowThreshold'
  BY <1>3 DEF AllowTrial, ClosedBelowThreshold
<1>4. ASSUME NEW c \in Callers,
             \/ AllowClosed(c) \/ AllowHalfOpen(c) \/ Reject(c)
             \/ Return(c) \/ CallSucceeds(c) \/ CallFails(c)
      PROVE  ClosedBelowThreshold'
  BY <1>4 DEF AllowClosed, AllowHalfOpen, Reject, Return, CallSucceeds, CallFails,
              breaker, ClosedBelowThreshold
<1>5. CASE Tick \/ Weather \/ UNCHANGED vars
  BY <1>5 DEF Tick, Weather, vars, breaker, ClosedBelowThreshold
<1> QED BY <1>1, <1>2, <1>3, <1>4, <1>5 DEF Next, Finish

\* The breaker is closed exactly while the failures since the last success are
\* below the threshold, however calls and reports interleave.
THEOREM CountMatchesState == Spec => []ClosedBelowThreshold
<1>1. Init => ClosedBelowThreshold
  BY ThresholdAssumption DEF Init, ClosedBelowThreshold
<1> QED BY <1>1, BreakerTypes, StepCounts, PTL DEF Spec

=============================================================================
