\* Two approvals and two executions of one intent.
SPECIFICATION Spec
CONSTANTS
  Intents = {i1}
  ApproveCalls = {a1, a2}
  RejectCalls = {}
  RevokeCalls = {}
  ExecuteCalls = {e1, e2}
  Keys = {k1}
  NoKey = NoKey
  Servers = {s1}
  Nobody = Nobody
  ShortLived = {}
  MaxFaults = 0
VIEW LiveState
INVARIANT ClaimedByOneCaller
