\* A user who approves, rejects and lets the approval expire, an agent that revokes
\* and executes, and one failure or restart anywhere; handlers that have started run on.
SPECIFICATION FairSpec
CONSTANTS
  Intents = {i1}
  ApproveCalls = {a1}
  RejectCalls = {r1}
  RevokeCalls = {v1}
  ExecuteCalls = {e1}
  Keys = {k1}
  NoKey = NoKey
  Servers = {s1}
  Nobody = Nobody
  ShortLived = {i1}
  MaxFaults = 1
VIEW LiveState
INVARIANT StatusBacked
PROPERTIES
  RejectionSticks
  ExpiredIsNotCharged
  ChargeIsReported
