\* Two intents decided by policy alone, two executions with shared or private keys
\* and one failure or restart.
SPECIFICATION Spec
CONSTANTS
  Intents = {i1, i2}
  ApproveCalls = {}
  RejectCalls = {}
  RevokeCalls = {}
  ExecuteCalls = {e1, e2}
  Keys = {k1}
  NoKey = NoKey
  Servers = {s1, s2}
  Nobody = Nobody
  ShortLived = {}
  MaxFaults = 1
SYMMETRY Symmetric
VIEW LiveState
INVARIANT SuccessIsReal
