\* Two requests at a time and a breaker that opens at the first failure.
SPECIFICATION Spec
CONSTANTS
  Callers = {c1, c2}
  FailureThreshold = 1
  ResetTimeout = 1
INVARIANT OneTrialCall
