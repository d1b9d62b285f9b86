\* An execution and a revocation of one intent the policy allowed.
SPECIFICATION Spec
CONSTANTS
  Intents = {i1}
  ApproveCalls = {}
  RejectCalls = {}
  RevokeCalls = {v1}
  ExecuteCalls = {e1}
  Keys = {k1}
  NoKey = NoKey
  Servers = {s1}
  Nobody = Nobody
  ShortLived = {}
  MaxFaults = 0
VIEW LiveState
PROPERTY TerminalIsFinal
