\* Three requests at a time, two failures to open, two ticks to a trial.
SPECIFICATION FairSpec
CONSTANTS
  Callers = {c1, c2, c3}
  FailureThreshold = 2
  ResetTimeout = 2
INVARIANT ClosedBelowThreshold
PROPERTIES
  Recovers
  Isolates
