\* One intent: two approvals, two executions and a revocation race; no failures.
SPECIFICATION Spec
CONSTANTS
  Intents = {i1}
  ApproveCalls = {a1, a2}
  RejectCalls = {}
  RevokeCalls = {v1}
  ExecuteCalls = {e1, e2}
  Keys = {k1}
  NoKey = NoKey
  Servers = {s1}
  Nobody = Nobody
  ShortLived = {}
  MaxFaults = 0
SYMMETRY Symmetric
VIEW LiveState
INVARIANTS
  ConsentSpentOnce
  ChargeFollowsPolicy
  AutoApprovedChargedOnce
  OneChargePerKey
PROPERTY ImplementsLedger
