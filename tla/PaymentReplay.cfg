\* Two executions of one intent that may use the same key.
SPECIFICATION Spec
CONSTANTS
  Intents = {i1}
  ApproveCalls = {}
  RejectCalls = {}
  RevokeCalls = {}
  ExecuteCalls = {e1, e2}
  Keys = {k1}
  NoKey = NoKey
  Servers = {s1}
  Nobody = Nobody
  ShortLived = {}
  MaxFaults = 0
VIEW LiveState
PROPERTY FirstResultIsKept
